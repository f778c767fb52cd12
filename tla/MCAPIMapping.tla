---------------------------- MODULE MCAPIMapping ----------------------------
(* Two classes with a method each, and a parameter, in both versions.  The *)
(* classes of version 2 may be renamed and inherit from each other.        *)
EXTENDS APIMapping

CONSTANTS A1, B1, a1, b1, p1, A2, B2, a2, b2, p2

MCKind ==
  [e \in Element |-> CASE e \in {A1, B1, A2, B2} -> "class"
                       [] e \in {a1, b1, a2, b2} -> "function"
                       [] OTHER                  -> "parameter"]
MCParent ==
  [e \in Element |-> CASE e = a1 -> A1 [] e = b1 -> B1 [] e = p1 -> a1
                       [] e = a2 -> A2 [] e = b2 -> B2 [] e = p2 -> a2
                       [] OTHER -> NoParent]
MCSameId == {<<A1, A2>>, <<a1, a2>>, <<p1, p2>>}

(* Not similar enough, hardly similar enough, similar, the same.  Methods  *)
(* do without the third.                                                   *)
Levels == {One \div 4, (7 * One) \div 10, (17 * One) \div 20, One}
Tables(from, to, levels) == [from \X to -> levels]

AllInputs ==
  {[similarity |-> [p \in V1 \X V2 |->
                      IF p \in DOMAIN c THEN c[p]
                      ELSE IF p \in DOMAIN f THEN f[p]
                      ELSE IF p = <<p1, p2>> THEN One ELSE 0],
    same  |-> s,
    super |-> {<<B2, A2>>}] :
     c \in Tables({A1, B1}, {A2, B2}, Levels),
     f \in Tables({a1, b1}, {a2, b2}, Levels \ {(17 * One) \div 20}),
     s \in {{}, {<<A1, A2>>}, {<<a1, a2>>, <<p1, p2>>}}}

(* What has not changed is not less similar than it can be.                *)
MCInputs ==
  {in \in AllInputs : \A p \in in.same : in.similarity[p] = One}
=============================================================================
