------------------------ MODULE PurityAnalysisProofs ------------------------
(***************************************************************************)
(* Proofs about the purity analysis of one module from the resolved        *)
(* references to the recorded results, for any functions, classes and      *)
(* calls between them.                                                     *)
(*                                                                         *)
(* First, the phases by themselves, for any call graph: _handle_cycles     *)
(* merges only groups of functions that call each other, as module         *)
(* Condensation allows it, this loses no call and blames nobody falsely,   *)
(* and a search without a result has overlooked no cycle; the inference    *)
(* keeps its types, hides no reason and invents none.  Then, the phases in *)
(* a row: no call is lost while the call graph is built, its cycles are    *)
(* contracted and the results are inferred, and a function that reaches    *)
(* one plain cycle only has a result without unknowns.                     *)
(***************************************************************************)
EXTENDS PurityAnalysis, FiniteSetTheorems, SequenceTheorems, WellFoundedInduction, TLAPS

(* Numbers and sequences.                                                  *)
LEMMA Least ==
  ASSUME NEW T \in SUBSET Nat, T # {}
  PROVE  \E x \in T : \A y \in T : x <= y
<1> DEFINE R == OpToRel(<, Nat)
<1>1. IsWellFoundedOn(R, Nat)
  BY NatLessThanWellFounded
<1>2. \A i, j \in Nat : i < j => <<i, j>> \in R
  BY DEF OpToRel
<1> HIDE DEF R
<1>3. PICK x \in T : \A y \in T : ~ (<<y, x>> \in R)
  BY <1>1, WFMin
<1>4. \A y \in T : ~(y < x)
  BY <1>2, <1>3
<1>5. \A y \in T : x <= y
  BY <1>4
<1> QED
  BY <1>5

LEMMA SetInduction ==
  ASSUME NEW S \in SUBSET Nat, 0 \in S, \A n \in S : n + 1 \in S
  PROVE  S = Nat
<1> SUFFICES ASSUME Nat \ S # {} PROVE FALSE
  OBVIOUS
<1>1. PICK x \in Nat \ S : \A y \in Nat \ S : x <= y
  BY Least
<1>2. x - 1 \in Nat /\ x - 1 \notin Nat \ S
  BY <1>1
<1> QED
  BY <1>1, <1>2

(* A function that is defined step by step exists.                         *)
LEMMA StepByStep ==
  ASSUME NEW V, NEW base \in V, NEW N \in Nat, NEW step \in [1..N -> [V -> V]]
  PROVE  \E f \in [0..N -> V] :
           f[0] = base /\ \A i \in 1..N : f[i] = step[i][f[i - 1]]
<1> DEFINE Upto(n) == {f \in [0..n -> V] :
                         f[0] = base /\ \A i \in 1..n : f[i] = step[i][f[i - 1]]}
           S == {n \in Nat : n <= N => Upto(n) # {}}
<1>1. 0 \in S
  <2> DEFINE f == [i \in 0..0 |-> base]
  <2>1. f \in Upto(0)
    OBVIOUS
  <2> QED
    BY <2>1
<1>2. ASSUME NEW n \in S
      PROVE  n + 1 \in S
  <2> SUFFICES ASSUME n + 1 <= N
               PROVE  Upto(n + 1) # {}
    OBVIOUS
  <2>1. n \in Nat /\ n <= N /\ n + 1 \in 1..N /\ n \in 0..n
    OBVIOUS
  <2>2. PICK f : f \in Upto(n)
    BY <2>1
  <2> DEFINE g == [i \in 0..n + 1 |-> IF i = n + 1 THEN step[i][f[n]] ELSE f[i]]
  <2>3. f \in [0..n -> V] /\ f[n] \in V /\ f[0] = base
    BY <2>1, <2>2
  <2>4. step[n + 1][f[n]] \in V
    BY <2>1, <2>3
  <2>5. \A i \in 0..n + 1 : i = n + 1 \/ i \in 0..n
    BY <2>1
  <2>6. g \in [0..n + 1 -> V]
    BY <2>3, <2>4, <2>5
  <2>7. g[0] = base
    BY <2>1, <2>3
  <2>8. ASSUME NEW i \in 1..n + 1
        PROVE  g[i] = step[i][g[i - 1]]
    <3>1. CASE i = n + 1
      <4>1. i - 1 = n /\ n # n + 1 /\ n \in 0..n + 1 /\ i \in 0..n + 1
        BY <2>1, <3>1
      <4>2. g[i] = step[i][f[n]] /\ g[n] = f[n]
        BY <3>1, <4>1
      <4> QED
        BY <4>1, <4>2
    <3>2. CASE i # n + 1
      <4>1. /\ i \in 1..n /\ i \in 0..n + 1 /\ i - 1 \in 0..n + 1 /\ i - 1 # n + 1
        BY <2>1, <3>2
      <4>2. g[i] = f[i] /\ g[i - 1] = f[i - 1]
        BY <3>2, <4>1
      <4>3. f[i] = step[i][f[i - 1]]
        BY <2>2, <4>1
      <4> QED
        BY <4>2, <4>3
    <3> QED
      BY <3>1, <3>2
  <2> HIDE DEF g
  <2>9. g \in Upto(n + 1)
    BY <2>6, <2>7, <2>8
  <2> QED
    BY <2>9
<1>3. S = Nat
  <2>1. S \in SUBSET Nat
    OBVIOUS
  <2> HIDE DEF S
  <2> QED
    BY <1>1, <1>2, <2>1, SetInduction
<1>4. N \in S /\ N <= N
  BY <1>3
<1>5. Upto(N) # {}
  BY <1>4
<1> QED
  BY <1>5

LEMMA AppendFacts ==
  ASSUME NEW T, NEW s \in Seq(T), NEW e \in T
  PROVE  ToSet(Append(s, e)) = ToSet(s) \cup {e}
<1> DEFINE n == Len(s)
           t == Append(s, e)
<1>1. n \in Nat /\ DOMAIN s = 1..n /\ DOMAIN t = 1..n + 1
      /\ (\A i \in 1..n : t[i] = s[i]) /\ t[n + 1] = e
  OBVIOUS
<1>2. 1..n + 1 = (1..n) \cup {n + 1}
  BY <1>1
<1> HIDE DEF t, n
<1>3. ToSet(t) = ToSet(s) \cup {e}
  BY <1>1, <1>2 DEF ToSet
<1> QED
  BY <1>3 DEF t

LEMMA WithoutFacts ==
  ASSUME NEW T, NEW s \in Seq(T), NEW nodes
  PROVE  /\ Without(s, nodes) \in Seq(T)
         /\ ToSet(Without(s, nodes)) = ToSet(s) \ nodes
<1> DEFINE N == Len(s)
           K(g) == [i \in 0..N |->
                      IF i = 0 THEN <<>>
                      ELSE IF s[i] \in nodes THEN g[i - 1]
                           ELSE Append(g[i - 1], s[i])]
           h == CHOOSE g : g = K(g)
           step == [i \in 1..N |-> [x \in Seq(T) |->
                      IF s[i] \in nodes THEN x ELSE Append(x, s[i])]]
<1>1. N \in Nat
  OBVIOUS
<1>2. step \in [1..N -> [Seq(T) -> Seq(T)]]
  <2> SUFFICES ASSUME NEW i \in 1..N, NEW x \in Seq(T)
               PROVE  (IF s[i] \in nodes THEN x ELSE Append(x, s[i])) \in Seq(T)
    OBVIOUS
  <2>1. s[i] \in T
    OBVIOUS
  <2> QED
    BY <2>1
<1>3. PICK f \in [0..N -> Seq(T)] :
        f[0] = <<>> /\ \A i \in 1..N : f[i] = step[i][f[i - 1]]
  <2>1. <<>> \in Seq(T)
    OBVIOUS
  <2> DEFINE base == <<>>
  <2>2. base \in Seq(T)
    BY <2>1
  <2> HIDE DEF step, N, base
  <2>3. \E f \in [0..N -> Seq(T)] :
           f[0] = base /\ \A i \in 1..N : f[i] = step[i][f[i - 1]]
    <3> DEFINE V == Seq(T)
    <3>1. base \in V /\ step \in [1..N -> [V -> V]]
      BY <1>2, <2>2
    <3> HIDE DEF V
    <3>2. \E f \in [0..N -> V] :
             f[0] = base /\ \A i \in 1..N : f[i] = step[i][f[i - 1]]
      BY <1>1, <3>1, StepByStep
    <3> QED
      BY <3>2 DEF V
  <2> QED
    BY <2>3 DEF base
<1>4. f = K(f)
  <2>1. ASSUME NEW i \in 0..N
        PROVE  f[i] = K(f)[i]
    <3>1. CASE i = 0
      BY <1>3, <3>1
    <3>2. CASE i # 0
      <4>1. i \in 1..N /\ i - 1 \in 0..N
        BY <1>1, <3>2
      <4>2. f[i - 1] \in Seq(T)
        BY <4>1
      <4>3. f[i] = IF s[i] \in nodes THEN f[i - 1] ELSE Append(f[i - 1], s[i])
        BY <1>3, <4>1, <4>2
      <4> QED
        BY <3>2, <4>3
    <3> QED
      BY <3>1, <3>2
  <2> HIDE DEF N
  <2> QED
    BY <2>1
<1>5. h = K(h)
  <2> HIDE DEF K
  <2> QED
    BY <1>4
<1>6. Without(s, nodes) = h[N]
  BY DEF Without
<1> HIDE DEF h
<1>7. /\ h[0] = <<>>
      /\ \A i \in 1..N : h[i] = IF s[i] \in nodes THEN h[i - 1]
                                ELSE Append(h[i - 1], s[i])
  <2>1. 0 \in 0..N /\ \A i \in 1..N : i \in 0..N /\ i # 0
    BY <1>1
  <2> QED
    BY <1>5, <2>1
<1> HIDE DEF K, step
<1> DEFINE S == {i \in Nat : i <= N => /\ h[i] \in Seq(T)
                                       /\ ToSet(h[i]) = {s[j] : j \in 1..i} \ nodes}
<1>8. 0 \in S
  <2>1. h[0] \in Seq(T) /\ ToSet(h[0]) = {} /\ 1..0 = {}
    BY <1>7 DEF ToSet
  <2> QED
    BY <2>1
<1>9. ASSUME NEW n \in S
      PROVE  n + 1 \in S
  <2> SUFFICES ASSUME n + 1 <= N
               PROVE  /\ h[n + 1] \in Seq(T)
                      /\ ToSet(h[n + 1]) = {s[j] : j \in 1..n + 1} \ nodes
    OBVIOUS
  <2>1. n \in Nat /\ n <= N /\ n + 1 \in 1..N /\ n + 1 - 1 = n
    OBVIOUS
  <2>2. h[n] \in Seq(T) /\ ToSet(h[n]) = {s[j] : j \in 1..n} \ nodes
    BY <2>1
  <2>3. h[n + 1] = IF s[n + 1] \in nodes THEN h[n] ELSE Append(h[n], s[n + 1])
    BY <1>7, <2>1
  <2>4. {s[j] : j \in 1..n + 1} = {s[j] : j \in 1..n} \cup {s[n + 1]}
    <3>1. 1..n + 1 = (1..n) \cup {n + 1}
      BY <2>1
    <3> QED
      BY <3>1
  <2>5. s[n + 1] \in T
    BY <2>1
  <2>6. ToSet(Append(h[n], s[n + 1])) = ToSet(h[n]) \cup {s[n + 1]}
    BY <2>2, <2>5, AppendFacts
  <2> QED
    BY <2>2, <2>3, <2>4, <2>5, <2>6
<1>10. S = Nat
  <2>1. S \in SUBSET Nat
    OBVIOUS
  <2> HIDE DEF S
  <2> QED
    BY <1>8, <1>9, <2>1, SetInduction
<1>11. /\ h[N] \in Seq(T)
       /\ ToSet(h[N]) = {s[j] : j \in 1..N} \ nodes
  <2>1. N \in S /\ N <= N
    <3> HIDE DEF S, N
    <3> QED
      BY <1>1, <1>10
  <2> QED
    BY <2>1
<1>12. {s[j] : j \in 1..N} = ToSet(s)
  BY DEF ToSet
<1> QED
  BY <1>6, <1>11, <1>12
-----------------------------------------------------------------------------
(* The nodes that can be in the forest, and those of them that can call.   *)
Inner == Defined \cup Combined
Outer == Inner \cup Import

LEMMA InnerFacts ==
  /\ Inner \subseteq Node
  /\ \A n \in Inner : /\ Members(n) # {} /\ Members(n) \subseteq Defined
                      /\ Id(n) = n
  /\ \A n \in Defined : Members(n) = {n}
  /\ \A n \in Node, m \in Inner : Id(n) = m <=> n = m
  /\ Defined \cap Combined = {} /\ Inner \cap (Import \cup Builtin) = {}
  /\ Outer \subseteq Node
<1> DEFINE kind == <<Function, Class, Import, Builtin, Parameter, Other>>
<1>1. \A i, j \in 1..6 : i # j => kind[i] \cap kind[j] = {}
  BY SymbolKinds
<1>2. /\ Function \cap Import = {} /\ Function \cap Builtin = {}
      /\ Class \cap Import = {} /\ Class \cap Builtin = {}
  BY <1>1
<1>3. Defined \cap (Import \cup Builtin) = {}
  BY <1>2 DEF Defined
<1>4. Callable \cap Combined = {} /\ Defined \cup Import \cup Builtin \subseteq Callable
  BY SymbolKinds DEF Callable
<1>5. Defined \cap Combined = {} /\ Combined \cap (Import \cup Builtin) = {}
  BY <1>4
<1>6. ASSUME NEW n \in Inner
      PROVE  /\ Members(n) # {} /\ Members(n) \subseteq Defined
             /\ n \notin Import \cup Builtin
  <2>1. CASE n \in Combined
    BY <1>5, <2>1 DEF Members, Combined
  <2>2. CASE n \in Defined
    BY <1>3, <1>5, <2>2 DEF Members
  <2> QED
    BY <2>1, <2>2 DEF Inner
<1>7. \A n \in Inner : Id(n) = n
  BY <1>6 DEF Id
<1>8. ASSUME NEW n \in Node, NEW m \in Inner, Id(n) = m
      PROVE  n = m
  <2>1. CASE n \in Import \cup Builtin
    <3>1. Id(n) = Key[n] /\ n \in DOMAIN Key
      BY <2>1, SymbolKinds DEF Id
    <3>2. Key[n] \notin Callable \cup Combined
      BY <3>1, SymbolKinds
    <3> QED
      BY <1>4, <1>8, <3>1, <3>2 DEF Inner
  <2>2. CASE n \notin Import \cup Builtin
    BY <1>8, <2>2 DEF Id
  <2> QED
    BY <2>1, <2>2
<1>9. Inner \subseteq Node /\ Outer \subseteq Node
  BY DEF Inner, Outer, Node
<1>11. Inner \cap (Import \cup Builtin) = {}
  BY <1>6
<1>10. \A n \in Defined : Members(n) = {n}
  BY <1>5 DEF Members
<1> QED
  BY <1>5, <1>6, <1>7, <1>8, <1>9, <1>10, <1>11

(* For nodes of the forest, to have an id is to be there.                  *)
LEMMA HasIdInner ==
  ASSUME NEW s \in Seq(Node), NEW m \in Inner
  PROVE  HasId(s, Id(m)) <=> m \in ToSet(s)
<1>1. ToSet(s) \subseteq Node
  BY DEF ToSet
<1> QED
  BY <1>1, InnerFacts DEF HasId

LEMMA OutsideIds ==
  ASSUME NEW c \in Node \ Inner, NEW d \in Node, Id(d) = Id(c)
  PROVE  d \notin Inner
BY InnerFacts

LEMMA RedirectFacts ==
  ASSUME NEW kids \in Seq(Node), NEW nodes, NEW new \in Combined
  PROVE  /\ Redirect(kids, nodes, new) \in Seq(Node)
         /\ ToSet(Redirect(kids, nodes, new)) =
              IF ToSet(kids) \cap nodes = {} THEN ToSet(kids)
              ELSE (ToSet(kids) \ nodes) \cup {new}
<1> DEFINE s == Without(kids, nodes)
<1>1. s \in Seq(Node) /\ ToSet(s) = ToSet(kids) \ nodes
  BY WithoutFacts
<1>2. new \in Inner /\ new \in Node
  BY InnerFacts DEF Inner
<1> HIDE DEF s
<1>3. AddChild(s, new) \in Seq(Node) /\ ToSet(AddChild(s, new)) = ToSet(s) \cup {new}
  <2>1. CASE new \in ToSet(s)
    <3> DEFINE t == [i \in DOMAIN s |-> IF Id(s[i]) = Id(new) THEN new ELSE s[i]]
    <3>1. AddChild(s, new) = t
      BY <1>1, <1>2, <2>1, HasIdInner DEF AddChild
    <3>2. \A i \in DOMAIN s : t[i] = s[i]
      <4> SUFFICES ASSUME NEW i \in DOMAIN s, Id(s[i]) = Id(new)
                   PROVE  s[i] = new
        OBVIOUS
      <4>1. s[i] \in Node
        BY <1>1
      <4> QED
        BY <1>2, <4>1, InnerFacts
    <3>3. s = [i \in DOMAIN s |-> s[i]]
      BY <1>1
    <3>4. t = s
      BY <3>2, <3>3
    <3> QED
      BY <1>1, <2>1, <3>1, <3>4
  <2>2. CASE new \notin ToSet(s)
    <3>1. AddChild(s, new) = Append(s, new)
      BY <1>1, <1>2, <2>2, HasIdInner DEF AddChild
    <3> QED
      BY <1>1, <1>2, <3>1, AppendFacts
  <2> QED
    BY <2>1, <2>2
<1>4. Redirect(kids, nodes, new) =
        IF ToSet(kids) \cap nodes = {} THEN kids ELSE AddChild(s, new)
  BY DEF Redirect, s
<1> QED
  BY <1>1, <1>3, <1>4
LEMMA ConcatFacts ==
  ASSUME NEW T, NEW s \in Seq(T), NEW t \in Seq(T)
  PROVE  s \o t \in Seq(T) /\ ToSet(s \o t) = ToSet(s) \cup ToSet(t)
<1> DEFINE m == Len(s)
           n == Len(t)
           u == s \o t
<1>1. /\ m \in Nat /\ n \in Nat /\ DOMAIN s = 1..m /\ DOMAIN t = 1..n
      /\ DOMAIN u = 1..m + n /\ u \in Seq(T)
      /\ \A i \in 1..m + n : u[i] = IF i <= m THEN s[i] ELSE t[i - m]
  OBVIOUS
<1> HIDE DEF m, n, u
<1>2. ASSUME NEW i \in 1..m + n
      PROVE  i \in 1..m \/ (~(i <= m) /\ i - m \in 1..n)
  BY <1>1
<1>3. ASSUME NEW i \in 1..m
      PROVE  i \in 1..m + n /\ i <= m
  BY <1>1
<1>4. ASSUME NEW i \in 1..n
      PROVE  i + m \in 1..m + n /\ ~(i + m <= m) /\ i + m - m = i
  BY <1>1
<1>5. \A i \in 1..m : u[i] = s[i]
  BY <1>1, <1>3
<1>6. \A i \in 1..n : u[i + m] = t[i]
  BY <1>1, <1>4
<1>7. ToSet(u) \subseteq ToSet(s) \cup ToSet(t)
  <2> SUFFICES ASSUME NEW i \in 1..m + n
               PROVE  u[i] \in ToSet(s) \cup ToSet(t)
    BY <1>1 DEF ToSet
  <2>1. CASE i \in 1..m
    BY <1>1, <1>5, <2>1 DEF ToSet
  <2>2. CASE ~(i <= m) /\ i - m \in 1..n
    BY <1>1, <2>2 DEF ToSet
  <2> QED
    BY <1>2, <2>1, <2>2
<1>8. ToSet(s) \subseteq ToSet(u)
  BY <1>1, <1>3, <1>5 DEF ToSet
<1>9. ToSet(t) \subseteq ToSet(u)
  <2> SUFFICES ASSUME NEW i \in 1..n
               PROVE  t[i] \in ToSet(u)
    BY <1>1 DEF ToSet
  <2> QED
    BY <1>1, <1>4, <1>6 DEF ToSet
<1> QED
  BY <1>1, <1>7, <1>8, <1>9 DEF u

ChildrenOK == children \in [Node -> Seq(Node)]

(* The combined node gets all that is called from the cycle and not on it, *)
(* of the imported functions and builtins one for each id.                 *)
LEMMA OuterFacts ==
  ASSUME ChildrenOK, NEW cycle \in Seq(Inner)
  PROVE  /\ OuterChildren(cycle) \in Seq(Node)
         /\ \A m \in Inner :
              m \in ToSet(OuterChildren(cycle)) <=>
                /\ m \notin ToSet(cycle)
                /\ \E n \in ToSet(cycle) : m \in Calls(children, n)
         /\ \A m \in ToSet(OuterChildren(cycle)) :
              \E n \in ToSet(cycle) : m \in Calls(children, n)
         /\ \A n \in ToSet(cycle) : \A c \in Calls(children, n) :
              c \in ToSet(cycle) \/ HasId(OuterChildren(cycle), Id(c))
<1> DEFINE N == Len(cycle)
           More(i, x) == x \o Without(children[cycle[i]],
                                {c \in Calls(children, cycle[i]) :
                                   c \in ToSet(cycle) \/ HasId(x, Id(c))})
           K(g) == [i \in 0..N |-> IF i = 0 THEN <<>> ELSE More(i, g[i - 1])]
           h == CHOOSE g : g = K(g)
           V == Seq(Node)
           step == [i \in 1..N |-> [x \in V |-> More(i, x)]]
           Left(i) == {m \in Inner : m \in Calls(children, cycle[i])
                                     /\ m \notin ToSet(cycle)}
<1>1. N \in Nat /\ \A i \in 1..N : cycle[i] \in Inner
  OBVIOUS
<1>2. ASSUME NEW i \in 1..N, NEW x \in V
      PROVE  /\ More(i, x) \in V
             /\ \A m \in Inner : m \in ToSet(More(i, x)) <=>
                                   m \in ToSet(x) \/ m \in Left(i)
             /\ \A m \in ToSet(More(i, x)) :
                  m \in ToSet(x) \/ m \in Calls(children, cycle[i])
             /\ \A m \in ToSet(x) : m \in ToSet(More(i, x))
             /\ \A c \in Calls(children, cycle[i]) :
                  c \in ToSet(cycle) \/ HasId(More(i, x), Id(c))
  <2> DEFINE kids == children[cycle[i]]
             old == {c \in Calls(children, cycle[i]) :
                       c \in ToSet(cycle) \/ HasId(x, Id(c))}
             w == Without(kids, old)
  <2>1. kids \in Seq(Node)
    BY <1>1, InnerFacts DEF ChildrenOK
  <2> HIDE DEF kids, old
  <2>2. w \in Seq(Node) /\ ToSet(w) = ToSet(kids) \ old
    BY <2>1, WithoutFacts
  <2> HIDE DEF w
  <2>3. x \o w \in Seq(Node) /\ ToSet(x \o w) = ToSet(x) \cup ToSet(w)
    BY <2>2, ConcatFacts
  <2>4. More(i, x) = x \o w
    BY DEF w, kids, old
  <2> HIDE DEF More
  <2>5. ASSUME NEW m \in Inner
        PROVE  m \in ToSet(x) \cup ToSet(w) <=> m \in ToSet(x) \/ m \in Left(i)
    <3>1. m \in ToSet(kids) <=> m \in Calls(children, cycle[i])
      BY DEF kids, Calls
    <3>2. HasId(x, Id(m)) <=> m \in ToSet(x)
      BY HasIdInner
    <3> QED
      BY <2>2, <3>1, <3>2 DEF old
  <2>6. ToSet(kids) = Calls(children, cycle[i])
    BY DEF kids, Calls
  <2>7. ASSUME NEW c \in ToSet(kids), c \notin ToSet(cycle)
        PROVE  \E m \in ToSet(x) \cup ToSet(w) : Id(m) = Id(c)
    <3>1. CASE HasId(x, Id(c))
      BY <3>1 DEF HasId
    <3>2. CASE ~HasId(x, Id(c))
      BY <2>2, <2>6, <2>7, <3>2 DEF old
    <3> QED
      BY <3>1, <3>2
  <2>8. \A c \in Calls(children, cycle[i]) :
          c \in ToSet(cycle) \/ HasId(More(i, x), Id(c))
    BY <2>3, <2>4, <2>6, <2>7 DEF HasId
  <2> QED
    BY <2>2, <2>3, <2>4, <2>5, <2>6, <2>8
<1> HIDE DEF More
<1>3. step \in [1..N -> [V -> V]]
  BY <1>2
<1>4. \E f \in [0..N -> V] :
        f[0] = <<>> /\ \A i \in 1..N : f[i] = step[i][f[i - 1]]
  <2> DEFINE base == <<>>
  <2>1. base \in V
    OBVIOUS
  <2> HIDE DEF step, N, V, base
  <2>2. N \in Nat
    BY <1>1
  <2>3. base \in V /\ step \in [1..N -> [V -> V]]
    BY <1>3, <2>1
  <2>4. \E f \in [0..N -> V] :
          f[0] = base /\ \A i \in 1..N : f[i] = step[i][f[i - 1]]
    BY <2>2, <2>3, StepByStep
  <2> QED
    BY <2>4 DEF base
<1>5. PICK f \in [0..N -> V] :
        f[0] = <<>> /\ \A i \in 1..N : f[i] = step[i][f[i - 1]]
  BY <1>4
<1>6. f = K(f)
  <2>1. ASSUME NEW i \in 0..N
        PROVE  f[i] = K(f)[i]
    <3>1. CASE i = 0
      BY <1>5, <3>1
    <3>2. CASE i # 0
      <4>1. i \in 1..N /\ i - 1 \in 0..N
        BY <1>1, <3>2
      <4> HIDE DEF V, N
      <4>2. f[i - 1] \in V
        BY <4>1
      <4>3. f[i] = More(i, f[i - 1])
        BY <1>5, <4>1, <4>2
      <4> QED
        BY <3>2, <4>3
    <3> QED
      BY <3>1, <3>2
  <2> HIDE DEF N
  <2> QED
    BY <2>1
<1>7. h = K(h)
  <2> HIDE DEF K
  <2> QED
    BY <1>6
<1>8. OuterChildren(cycle) = h[N]
  BY DEF OuterChildren, More
<1> HIDE DEF h
<1>9. /\ h[0] = <<>>
      /\ \A i \in 1..N : h[i] = More(i, h[i - 1])
  <2>1. 0 \in 0..N /\ \A i \in 1..N : i \in 0..N /\ i # 0
    BY <1>1
  <2> HIDE DEF N
  <2> QED
    BY <1>7, <2>1
<1> HIDE DEF K, step, Left, V, N
<1> DEFINE Good(i) == /\ h[i] \in V
                      /\ \A m \in Inner : m \in ToSet(h[i]) <=>
                           \E j \in 1..i : m \in Left(j)
                      /\ \A m \in ToSet(h[i]) :
                           \E j \in 1..i : m \in Calls(children, cycle[j])
                      /\ \A j \in 1..i : \A c \in Calls(children, cycle[j]) :
                           c \in ToSet(cycle) \/ HasId(h[i], Id(c))
           S == {i \in Nat : i <= N => Good(i)}
<1>10. 0 \in S
  <2>1. h[0] \in V /\ ToSet(h[0]) = {} /\ 1..0 = {}
    BY <1>9 DEF ToSet, V
  <2> QED
    BY <2>1
<1>11. ASSUME NEW n \in S
       PROVE  n + 1 \in S
  <2> SUFFICES ASSUME n + 1 <= N
               PROVE  Good(n + 1)
    OBVIOUS
  <2>1. n \in Nat /\ n <= N /\ n + 1 \in 1..N /\ n + 1 - 1 = n
    BY <1>1
  <2>2. Good(n)
    BY <2>1
  <2>3. h[n + 1] = More(n + 1, h[n])
    BY <1>9, <2>1
  <2>4. 1..n + 1 = (1..n) \cup {n + 1}
    BY <2>1
  <2>5. /\ More(n + 1, h[n]) \in V
        /\ \A m \in Inner : m \in ToSet(More(n + 1, h[n])) <=>
                              m \in ToSet(h[n]) \/ m \in Left(n + 1)
        /\ \A m \in ToSet(More(n + 1, h[n])) :
             m \in ToSet(h[n]) \/ m \in Calls(children, cycle[n + 1])
        /\ \A m \in ToSet(h[n]) : m \in ToSet(More(n + 1, h[n]))
        /\ \A c \in Calls(children, cycle[n + 1]) :
             c \in ToSet(cycle) \/ HasId(More(n + 1, h[n]), Id(c))
    BY <1>2, <2>1, <2>2
  <2>6. \A id : HasId(h[n], id) => HasId(h[n + 1], id)
    BY <2>3, <2>5 DEF HasId
  <2>7. \A j \in 1..n + 1 : \A c \in Calls(children, cycle[j]) :
          c \in ToSet(cycle) \/ HasId(h[n + 1], Id(c))
    BY <2>2, <2>3, <2>4, <2>5, <2>6
  <2>8. \A m \in ToSet(h[n + 1]) :
          \E j \in 1..n + 1 : m \in Calls(children, cycle[j])
    BY <2>2, <2>3, <2>4, <2>5
  <2>9. \A m \in Inner : m \in ToSet(h[n + 1]) <=>
          \E j \in 1..n + 1 : m \in Left(j)
    BY <2>2, <2>3, <2>4, <2>5
  <2> QED
    BY <2>3, <2>5, <2>7, <2>8, <2>9
<1>12. S = Nat
  <2>1. S \in SUBSET Nat
    OBVIOUS
  <2> HIDE DEF S
  <2> QED
    BY <1>10, <1>11, <2>1, SetInduction
<1>13. N \in S /\ N <= N
  <2> HIDE DEF S
  <2> QED
    BY <1>1, <1>12
<1>14. Good(N)
  BY <1>13
<1>15. ToSet(cycle) = {cycle[j] : j \in 1..N}
  <2>1. DOMAIN cycle = 1..N
    BY DEF N
  <2> QED
    BY <2>1 DEF ToSet
<1>16. ASSUME NEW m \in Inner
       PROVE  (\E j \in 1..N : m \in Left(j)) <=>
                /\ m \notin ToSet(cycle)
                /\ \E n \in ToSet(cycle) : m \in Calls(children, n)
  BY <1>15 DEF Left
<1>17. /\ \A m \in ToSet(h[N]) : \E n \in ToSet(cycle) : m \in Calls(children, n)
       /\ \A n \in ToSet(cycle) : \A c \in Calls(children, n) :
            c \in ToSet(cycle) \/ HasId(h[N], Id(c))
  BY <1>14, <1>15
<1> QED
  BY <1>8, <1>14, <1>16, <1>17 DEF V
-----------------------------------------------------------------------------
(* The inductive invariant.                                                *)
ContractionTypeOK ==
  /\ forest \in Seq(Outer) /\ ChildrenOK /\ built \in [Node -> Seq(Node)]
  /\ reasons \in [Node -> SUBSET Callable] /\ removed \subseteq Inner
  /\ searchRoots \in Seq(Outer) /\ path \in Seq(Inner) /\ untried \in Seq(Seq(Node))

(* The nodes of the forest share no function, and call no node that was    *)
(* merged into another.                                                    *)
Apart ==
  \A m, n \in OwnNodes : m = n \/ Members(m) \cap Members(n) = {}
NoOldNodes ==
  \A n \in OwnNodes : Calls(children, n) \cap Inner \subseteq OwnNodes

(* Imported functions and builtins call nothing.                           *)
Leaves == \A n \in Node \ Inner : children[n] = <<>>

(* What is left of the copy is in the forest, unless it was merged.        *)
RootsInForest ==
  /\ ToSet(searchRoots) \subseteq OwnNodes \cup removed \cup Import
  /\ path # <<>> => searchRoots # <<>>

(* No cycle is reachable from a node that was searched.                    *)
NoCycleBelow(c) ==
  c \in OwnNodes => \A m \in Below(children, OwnNodes, c) :
                      ~OnCycle(children, OwnNodes, m)

(* The search is a path of calls: of a node on it, every child is still    *)
(* to be tried, the next node of the path, or no way to a cycle.           *)
Waiting(n, kids) == n \in OwnNodes /\ ToSet(kids) \subseteq Calls(children, n)
Accounted(n, kids, nodes) ==
  \A c \in Calls(children, n) : c \in ToSet(kids) \cup nodes \/ NoCycleBelow(c)
SearchIsPath ==
  /\ Len(untried) = Len(path)
  /\ \A i \in 1..Len(path) : Waiting(path[i], untried[i])
  /\ \A i \in 1..Len(path) - 1 :
       /\ path[i + 1] \in Calls(children, path[i])
       /\ Accounted(path[i], untried[i], {path[i + 1]})
  /\ \A i \in 1..Len(path) : i = Len(path) => Accounted(path[i], untried[i], {})

Search == RootsInForest /\ SearchIsPath
ContractionIInv == ContractionTypeOK /\ Apart /\ NoOldNodes /\ Leaves /\ Search

(* A node whose children lead to no cycle leads to none.                   *)
LEMMA BelowIsClosed ==
  ASSUME NEW kids, NEW nodes, NEW n \in nodes
  PROVE  /\ Below(kids, nodes, n) \subseteq nodes
         /\ \A X \in ClosedUnderCalls(kids, nodes) :
              n \in X => Below(kids, nodes, n) \subseteq X
         /\ \A m \in Below(kids, nodes, n) :
              Calls(kids, m) \cap nodes \subseteq Below(kids, nodes, n)
BY DEF Below, ClosedUnderCalls

LEMMA NoCycleFromChildren ==
  ASSUME NEW n \in OwnNodes, \A c \in Calls(children, n) : NoCycleBelow(c)
  PROVE  NoCycleBelow(n)
<1> DEFINE Kids == Calls(children, n) \cap OwnNodes
           B(c) == Below(children, OwnNodes, c)
           X == {n} \cup {m \in OwnNodes : \E c \in Kids : m \in B(c)}
<1>1. \A c \in Kids : /\ \A m \in B(c) : ~OnCycle(children, OwnNodes, m)
                      /\ B(c) \subseteq OwnNodes
                      /\ \A m \in B(c) : Calls(children, m) \cap OwnNodes \subseteq B(c)
  BY BelowIsClosed DEF NoCycleBelow
<1>2. \A c \in Kids : c \in B(c)
  BY DEF Below
<1>3. X \in ClosedUnderCalls(children, OwnNodes)
  <2> SUFFICES ASSUME NEW x \in X, NEW m \in Calls(children, x) \cap OwnNodes
               PROVE  m \in X
    BY DEF ClosedUnderCalls
  <2>1. CASE x = n
    BY <1>2, <2>1
  <2>2. CASE x # n
    <3>1. PICK c \in Kids : x \in B(c)
      BY <2>2
    <3>2. m \in B(c)
      BY <1>1, <3>1
    <3> QED
      BY <3>2
  <2> QED
    BY <2>1, <2>2
<1>4. B(n) \subseteq X
  BY <1>3, BelowIsClosed
<1>5. ASSUME OnCycle(children, OwnNodes, n)
      PROVE  FALSE
  BY <1>1, <1>5 DEF OnCycle
<1>6. \A m \in B(n) : ~OnCycle(children, OwnNodes, m)
  BY <1>1, <1>4, <1>5
<1> QED
  BY <1>6 DEF NoCycleBelow

LEMMA LeafHasNoCycle ==
  ASSUME NEW c, children[c] = <<>>
  PROVE  NoCycleBelow(c)
<1>1. Calls(children, c) = {}
  BY DEF Calls, ToSet
<1> QED
  BY <1>1, NoCycleFromChildren DEF NoCycleBelow

(* As long as the graph stays as it is, only the path has to be looked at. *)
LEMMA SameGraph ==
  ASSUME UNCHANGED <<forest, children>>
  PROVE  /\ OwnNodes' = OwnNodes
         /\ \A c : NoCycleBelow(c)' <=> NoCycleBelow(c)
         /\ \A n, kids : Waiting(n, kids)' <=> Waiting(n, kids)
         /\ \A n, kids, nodes : Accounted(n, kids, nodes)' <=> Accounted(n, kids, nodes)
         /\ Apart' <=> Apart
         /\ NoOldNodes' <=> NoOldNodes
         /\ Leaves' <=> Leaves
<1>1. OwnNodes' = OwnNodes
  BY DEF OwnNodes, InForest
<1>2. \A c : NoCycleBelow(c)' <=> NoCycleBelow(c)
  BY <1>1 DEF NoCycleBelow
<1>3. \A n, kids : Waiting(n, kids)' <=> Waiting(n, kids)
  BY <1>1 DEF Waiting
<1>4. \A n, kids, nodes : Accounted(n, kids, nodes)' <=> Accounted(n, kids, nodes)
  BY <1>2 DEF Accounted
<1>5. Apart' <=> Apart
  BY <1>1 DEF Apart
<1>6. NoOldNodes' <=> NoOldNodes
  BY <1>1 DEF NoOldNodes
<1>7. Leaves' <=> Leaves
  BY DEF Leaves
<1> QED
  BY <1>1, <1>2, <1>3, <1>4, <1>5, <1>6, <1>7

LEMMA SearchKept ==
  ASSUME UNCHANGED <<forest, children>>,
         NEW n \in Nat, Len(path') = n, Len(untried') = n,
         \A i \in 1..n : Waiting(path'[i], untried'[i]),
         \A i \in 1..n - 1 : path'[i + 1] \in Calls(children, path'[i]),
         \A i \in 1..n - 1 : Accounted(path'[i], untried'[i], {path'[i + 1]}),
         \A i \in 1..n : i = n => Accounted(path'[i], untried'[i], {})
  PROVE  SearchIsPath'
<1>1. \A i \in 1..n : Waiting(path[i], untried[i])'
  BY SameGraph DEF Waiting, OwnNodes
<1>2. \A i \in 1..n - 1 : Accounted(path[i], untried[i], {path[i + 1]})'
  BY SameGraph DEF Accounted
<1>3. \A i \in 1..n : i = n => Accounted(path[i], untried[i], {})'
  BY SameGraph DEF Accounted
<1> QED
  BY <1>1, <1>2, <1>3 DEF SearchIsPath
-----------------------------------------------------------------------------
(* The steps of the search.                                                *)
LEMMA HeadAndTail ==
  ASSUME NEW T, NEW s \in Seq(T), s # <<>>
  PROVE  /\ Head(s) \in T /\ Tail(s) \in Seq(T) /\ Head(s) = s[1]
         /\ ToSet(s) = {Head(s)} \cup ToSet(Tail(s))
<1> DEFINE n == Len(s)
           t == Tail(s)
<1>1. /\ n \in Nat \ {0} /\ DOMAIN s = 1..n /\ Head(s) = s[1]
      /\ t \in Seq(T) /\ Len(t) = n - 1 /\ DOMAIN t = 1..n - 1
      /\ \A i \in 1..n - 1 : t[i] = s[i + 1]
  OBVIOUS
<1> HIDE DEF n, t
<1>2. /\ \A i \in 1..n : i = 1 \/ (i - 1 \in 1..n - 1 /\ i - 1 + 1 = i)
      /\ \A i \in 1..n - 1 : i + 1 \in 1..n
      /\ 1 \in 1..n
  BY <1>1
<1>3. ToSet(s) \subseteq {s[1]} \cup ToSet(t)
  <2> SUFFICES ASSUME NEW i \in 1..n, i # 1
               PROVE  s[i] \in ToSet(t)
    BY <1>1 DEF ToSet
  <2> DEFINE j == i - 1
  <2>1. j \in 1..n - 1 /\ j + 1 = i
    BY <1>2
  <2> HIDE DEF j
  <2>2. t[j] = s[i]
    BY <1>1, <2>1
  <2> QED
    BY <1>1, <2>1, <2>2 DEF ToSet
<1>4. {s[1]} \cup ToSet(t) \subseteq ToSet(s)
  <2>1. s[1] \in ToSet(s)
    BY <1>1, <1>2 DEF ToSet
  <2>2. ASSUME NEW i \in 1..n - 1
        PROVE  t[i] \in ToSet(s)
    <3>1. t[i] = s[i + 1] /\ i + 1 \in 1..n
      BY <1>1, <1>2
    <3> QED
      BY <1>1, <3>1 DEF ToSet
  <2> QED
    BY <1>1, <2>1, <2>2 DEF ToSet
<1>5. s[1] \in T
  BY <1>1, <1>2
<1> QED
  BY <1>1, <1>3, <1>4, <1>5 DEF t

LEMMA PathFacts ==
  ASSUME ContractionTypeOK, SearchIsPath
  PROVE  /\ Len(path) \in Nat /\ DOMAIN path = 1..Len(path)
         /\ DOMAIN untried = 1..Len(path) /\ Len(untried) = Len(path)
         /\ \A i \in 1..Len(path) : path[i] \in Inner /\ untried[i] \in Seq(Node)
         /\ path = <<>> <=> Len(path) = 0
         /\ Searching => /\ Len(path) \in 1..Len(path)
                         /\ Last(untried) = untried[Len(path)]
<1>1. /\ Len(path) \in Nat /\ DOMAIN path = 1..Len(path)
      /\ DOMAIN untried = 1..Len(untried) /\ path = <<>> <=> Len(path) = 0
      /\ \A i \in 1..Len(path) : path[i] \in Inner
      /\ \A i \in 1..Len(untried) : untried[i] \in Seq(Node)
  BY DEF ContractionTypeOK
<1>2. Len(untried) = Len(path)
  BY DEF SearchIsPath
<1>3. Searching => Len(path) \in 1..Len(path)
  BY <1>1 DEF Searching
<1> QED
  BY <1>1, <1>2, <1>3 DEF Last

LEMMA SearchTopFacts ==
  ASSUME ContractionTypeOK, SearchIsPath, ChildToTry, NEW n, n = Len(path)
  PROVE  /\ NextChild \in Node /\ NextChild \in Calls(children, path[n])
         /\ PopChild \in Seq(Seq(Node)) /\ Len(PopChild) = n
         /\ \A i \in 1..n : i # n => PopChild[i] = untried[i]
         /\ ToSet(untried[n]) = {NextChild} \cup ToSet(PopChild[n])
<1>1. /\ n \in Nat /\ n \in 1..n /\ Last(untried) = untried[n]
      /\ DOMAIN untried = 1..n /\ Len(untried) = n
      /\ untried[n] \in Seq(Node) /\ untried[n] # <<>>
  BY PathFacts DEF ChildToTry
<1> DEFINE kids == untried[n]
<1>2. /\ NextChild = Head(kids) /\ kids \in Seq(Node) /\ kids # <<>>
      /\ PopChild = [untried EXCEPT ![n] = Tail(kids)]
  BY <1>1 DEF NextChild, PopChild
<1> HIDE DEF kids
<1>3. /\ Head(kids) \in Node /\ Tail(kids) \in Seq(Node)
      /\ ToSet(kids) = {Head(kids)} \cup ToSet(Tail(kids))
  BY <1>2, HeadAndTail
<1>4. /\ PopChild \in Seq(Seq(Node)) /\ Len(PopChild) = n
      /\ \A i \in 1..n : PopChild[i] = IF i = n THEN Tail(kids) ELSE untried[i]
  <2>1. untried \in Seq(Seq(Node))
    BY DEF ContractionTypeOK
  <2> DEFINE t == Tail(kids)
             u == untried
             TT == Seq(Node)
  <2>2. u \in Seq(TT) /\ t \in TT /\ Len(u) = n
    BY <1>1, <1>3, <2>1
  <2> HIDE DEF t, u, TT
  <2>3. /\ [u EXCEPT ![n] = t] \in Seq(TT) /\ Len([u EXCEPT ![n] = t]) = n
        /\ \A i \in 1..n : [u EXCEPT ![n] = t][i] = IF i = n THEN t ELSE u[i]
    BY <1>1, <2>2, ExceptSeq
  <2> QED
    BY <1>2, <2>3 DEF t, u, TT
<1>5. ToSet(untried[n]) \subseteq Calls(children, path[n])
  BY <1>1 DEF SearchIsPath, Waiting
<1> QED
  BY <1>1, <1>2, <1>3, <1>4, <1>5 DEF kids

(* It holds as soon as the call graph is built, wherever that came from.   *)
LEMMA ContractionStarts ==
  ASSUME StartContraction, WellBuilt([forest |-> forest, children |-> children]),
         built = children, reasons \in [Node -> SUBSET Callable]
  PROVE  ContractionIInv /\ OwnNodes = Defined
<1>1. /\ forest \in Seq(Defined \cup Import) /\ Defined \subseteq ToSet(forest)
      /\ children \in [Node -> Seq(Defined \cup Import \cup Builtin)]
  BY DEF WellBuilt
<1>9. /\ \A n \in Node : Calls(children, n) \subseteq ToSet(forest) \cup Builtin
      /\ \A n \in Node : n \notin Defined => children[n] = <<>>
  BY DEF WellBuilt
<1>2. OwnNodes = Defined
  <2>1. InForest \subseteq Defined \cup Import
    BY <1>1 DEF InForest, ToSet
  <2>2. Defined \cap Import = {}
    BY InnerFacts DEF Inner
  <2> QED
    BY <1>1, <2>1, <2>2 DEF OwnNodes, InForest
<1>3. /\ removed = {} /\ searchRoots = forest /\ path = <<>> /\ untried = <<>>
  BY DEF StartContraction
<1>4. ContractionTypeOK
  <2>1. \A s \in Seq(Defined \cup Import \cup Builtin) : s \in Seq(Node)
    BY DEF Node
  <2>2. children \in [Node -> Seq(Node)]
    BY <1>1, <2>1
  <2>3. forest \in Seq(Outer)
    BY <1>1 DEF Inner, Outer
  <2> QED
    BY <1>3, <2>2, <2>3 DEF ContractionTypeOK, ChildrenOK
<1>5. Apart
  BY <1>2, InnerFacts DEF Apart
<1>6. NoOldNodes
  <2> SUFFICES ASSUME NEW n \in Defined
               PROVE  Calls(children, n) \cap Inner \subseteq Defined
    BY <1>2 DEF NoOldNodes
  <2>1. n \in Node
    BY DEF Node
  <2>2. Calls(children, n) \subseteq ToSet(forest) \cup Builtin
    BY <1>9, <2>1
  <2>3. ToSet(forest) \subseteq Defined \cup Import
    BY <1>1 DEF ToSet
  <2> QED
    BY <2>2, <2>3, InnerFacts
<1>7. Search
  <2>1. ToSet(forest) \subseteq Defined \cup Import
    BY <1>1 DEF ToSet
  <2> QED
    BY <1>2, <1>3, <2>1 DEF Search, RootsInForest, SearchIsPath
<1>8. Leaves
  BY <1>9 DEF Leaves, Inner
<1> QED
  BY <1>2, <1>4, <1>5, <1>6, <1>7, <1>8 DEF ContractionIInv

LEMMA ContractionInitIsStart ==
  ASSUME ContractionInit
  PROVE  /\ StartContraction /\ WellBuilt([forest |-> forest, children |-> children])
         /\ built = children /\ reasons \in [Node -> SUBSET Callable]
<1>1. PICK in \in BuiltGraphs : /\ forest = in.forest /\ children = in.children
                               /\ WellBuilt(in)
  BY BuiltGraphsAreWellBuilt DEF ContractionInit
<1>2. WellBuilt([forest |-> forest, children |-> children])
  BY <1>1 DEF WellBuilt
<1>3. reasons \in [Node -> SUBSET Callable]
  BY DEF ContractionInit, Callable
<1> QED
  BY <1>2, <1>3 DEF ContractionInit

(* What all steps of the search have in common: the graph stays.           *)
LEMMA SearchStep ==
  ASSUME ContractionIInv, UNCHANGED <<built, forest, children, reasons, removed>>,
         searchRoots' \in Seq(Outer), path' \in Seq(Inner), untried' \in Seq(Seq(Node)),
         RootsInForest', SearchIsPath'
  PROVE  ContractionIInv'
<1>1. ContractionTypeOK'
  BY DEF ContractionIInv, ContractionTypeOK, ChildrenOK
<1>2. Apart' /\ NoOldNodes' /\ Leaves'
  BY SameGraph DEF ContractionIInv
<1> QED
  BY <1>1, <1>2 DEF ContractionIInv, Search

LEMMA SkipRootKeeps ==
  ASSUME ContractionIInv, SkipRoot
  PROVE  ContractionIInv'
<1>1. /\ searchRoots # <<>> /\ path = <<>> /\ searchRoots' = Tail(searchRoots)
      /\ UNCHANGED <<built, forest, children, reasons, removed, path, untried>>
      /\ searchRoots \in Seq(Outer) /\ path \in Seq(Inner) /\ untried \in Seq(Seq(Node))
  BY DEF SkipRoot, BetweenSearches, ContractionIInv, ContractionTypeOK
<1>2. /\ searchRoots' \in Seq(Outer)
      /\ ToSet(searchRoots) = {Head(searchRoots)} \cup ToSet(searchRoots')
  BY <1>1, HeadAndTail
<1>3. RootsInForest'
  BY <1>1, <1>2, SameGraph DEF ContractionIInv, Search, RootsInForest
<1>4. SearchIsPath'
  <2>1. Len(path) = 0 /\ Len(untried) = 0
    BY <1>1 DEF ContractionIInv, Search, SearchIsPath
  <2> QED
    BY <1>1, <2>1, SearchKept
<1> QED
  BY <1>1, <1>2, <1>3, <1>4, SearchStep

LEMMA StartSearchKeeps ==
  ASSUME ContractionIInv, StartSearch
  PROVE  ContractionIInv'
<1> DEFINE r == Head(searchRoots)
           kids == children[r]
<1>1. /\ searchRoots # <<>> /\ path' = <<r>> /\ untried' = <<kids>>
      /\ UNCHANGED <<built, forest, children, reasons, removed, searchRoots>>
      /\ searchRoots \in Seq(Outer) /\ children \in [Node -> Seq(Node)]
      /\ r \notin removed /\ Calls(children, r) # {}
  BY DEF StartSearch, BetweenSearches, ContractionIInv, ContractionTypeOK, ChildrenOK, Skipped
<1>2. r \in Outer /\ ToSet(searchRoots) = {r} \cup ToSet(Tail(searchRoots))
  BY <1>1, HeadAndTail
<1>3. kids \in Seq(Node) /\ r \in Inner
  <2>1. r \in Node
    BY <1>2, InnerFacts
  <2>2. kids # <<>>
    BY <1>1 DEF Calls, ToSet
  <2> QED
    BY <1>1, <2>1, <2>2 DEF ContractionIInv, Leaves
<1>4. r \in OwnNodes /\ ToSet(kids) = Calls(children, r)
  <2>1. r \notin Import
    BY <1>3, InnerFacts
  <2> QED
    BY <1>1, <1>2, <2>1 DEF ContractionIInv, Search, RootsInForest, Calls
<1> HIDE DEF r, kids
<1>5. path' \in Seq(Inner) /\ untried' \in Seq(Seq(Node))
  BY <1>1, <1>3
<1>6. RootsInForest'
  BY <1>1, SameGraph DEF ContractionIInv, Search, RootsInForest
<1>7. SearchIsPath'
  <2>1. /\ 1 \in Nat /\ Len(path') = 1 /\ Len(untried') = 1
        /\ path'[1] = r /\ untried'[1] = kids
    BY <1>1
  <2>2. Waiting(r, kids) /\ Accounted(r, kids, {})
    BY <1>4 DEF Waiting, Accounted
  <2>3. /\ \A i \in 1..1 : Waiting(path'[i], untried'[i])
        /\ \A i \in 1..1 : i = 1 => Accounted(path'[i], untried'[i], {})
    BY <2>1, <2>2
  <2>4. 1..1 - 1 = {}
    OBVIOUS
  <2> QED
    BY <1>1, <2>1, <2>3, <2>4, SearchKept
<1> QED
  BY <1>1, <1>5, <1>6, <1>7, SearchStep

LEMMA TryLeafKeeps ==
  ASSUME ContractionIInv, TryLeaf
  PROVE  ContractionIInv'
<1> DEFINE n == Len(path)
           left == PopChild
<1>1. /\ ChildToTry /\ children[NextChild] = <<>> /\ untried' = left
      /\ UNCHANGED <<built, forest, children, reasons, removed, searchRoots, path>>
      /\ ContractionTypeOK /\ RootsInForest /\ SearchIsPath
  BY DEF TryLeaf, ContractionIInv, Search
<1>2. /\ n \in Nat /\ n \in 1..n /\ \A i \in 1..n - 1 : i \in 1..n /\ i # n
  <2>1. n \in Nat /\ n \in 1..n
    BY <1>1, PathFacts DEF ChildToTry
  <2> HIDE DEF n
  <2> QED
    BY <2>1
<1>3. /\ left \in Seq(Seq(Node)) /\ Len(left) = n
      /\ \A i \in 1..n : i # n => left[i] = untried[i]
      /\ ToSet(untried[n]) = {NextChild} \cup ToSet(left[n])
  BY <1>1, SearchTopFacts
<1>4. /\ \A i \in 1..n : Waiting(path[i], untried[i])
      /\ \A i \in 1..n - 1 : path[i + 1] \in Calls(children, path[i])
      /\ \A i \in 1..n - 1 : Accounted(path[i], untried[i], {path[i + 1]})
      /\ \A i \in 1..n : i = n => Accounted(path[i], untried[i], {})
  BY <1>1 DEF SearchIsPath
<1> HIDE DEF n, left
<1>5. NoCycleBelow(NextChild)
  BY <1>1, LeafHasNoCycle
<1>6. SearchIsPath'
  <2>1. \A i \in 1..n : Waiting(path[i], left[i])
    BY <1>2, <1>3, <1>4 DEF Waiting
  <2>2. \A i \in 1..n - 1 : Accounted(path[i], left[i], {path[i + 1]})
    BY <1>2, <1>3, <1>4
  <2>3. \A i \in 1..n : i = n => Accounted(path[i], left[i], {})
    BY <1>3, <1>4, <1>5 DEF Accounted
  <2>4. Len(path) = n
    BY DEF n
  <2> QED
    BY <1>1, <1>2, <1>3, <1>4, <2>1, <2>2, <2>3, <2>4, SearchKept
<1>7. RootsInForest'
  BY <1>1, SameGraph DEF RootsInForest
<1>8. searchRoots' \in Seq(Outer) /\ path' \in Seq(Inner) /\ untried' \in Seq(Seq(Node))
  BY <1>1, <1>3 DEF ContractionTypeOK
<1> QED
  BY <1>1, <1>6, <1>7, <1>8, SearchStep

LEMMA DescendKeeps ==
  ASSUME ContractionIInv, Descend
  PROVE  ContractionIInv'
<1> DEFINE n == Len(path)
           left == PopChild
           kids == children[NextChild]
           c == NextChild
<1>1. /\ ChildToTry /\ kids # <<>> /\ untried' = Append(left, kids)
      /\ path' = Append(path, c)
      /\ UNCHANGED <<built, forest, children, reasons, removed, searchRoots>>
      /\ ContractionTypeOK /\ RootsInForest /\ SearchIsPath /\ NoOldNodes
  BY DEF Descend, ContractionIInv, Search
<1>2. /\ n \in Nat /\ n \in 1..n /\ \A i \in 1..n - 1 : i \in 1..n /\ i # n
      /\ \A i \in 1..n + 1 : i \in 1..n \/ i = n + 1
      /\ \A i \in 1..n : i \in 1..n - 1 \/ i = n
      /\ \A i \in 1..n : i # n + 1 /\ i \in 1..n + 1
      /\ n + 1 \in Nat /\ n + 1 - 1 = n /\ n + 1 \in 1..n + 1
  <2>1. n \in Nat /\ n \in 1..n
    BY <1>1, PathFacts DEF ChildToTry
  <2> HIDE DEF n
  <2> QED
    BY <2>1
<1>3. /\ left \in Seq(Seq(Node)) /\ Len(left) = n
      /\ \A i \in 1..n : i # n => left[i] = untried[i]
      /\ ToSet(untried[n]) = {c} \cup ToSet(left[n])
      /\ c \in Node /\ c \in Calls(children, path[n])
  BY <1>1, SearchTopFacts
<1>4. /\ \A i \in 1..n : Waiting(path[i], untried[i])
      /\ \A i \in 1..n - 1 : path[i + 1] \in Calls(children, path[i])
      /\ \A i \in 1..n - 1 : Accounted(path[i], untried[i], {path[i + 1]})
      /\ \A i \in 1..n : i = n => Accounted(path[i], untried[i], {})
  BY <1>1 DEF SearchIsPath
<1>5. c \in OwnNodes /\ c \in Inner
  <2>3. Leaves
    BY DEF ContractionIInv
  <2>1. c \in Inner
    BY <1>1, <1>3, <2>3 DEF Leaves
  <2>2. path[n] \in OwnNodes
    <3> HIDE DEF n
    <3> QED
      BY <1>2, <1>4 DEF Waiting
  <2> QED
    BY <1>1, <1>3, <2>1, <2>2 DEF NoOldNodes
<1>6. kids \in Seq(Node) /\ ToSet(kids) = Calls(children, c)
  BY <1>1, <1>3 DEF ContractionTypeOK, ChildrenOK, Calls
<1>7. /\ Len(path') = n + 1 /\ path'[n + 1] = c
      /\ \A i \in 1..n : path'[i] = path[i]
      /\ path' \in Seq(Inner)
  <2>1. path \in Seq(Inner)
    BY <1>1 DEF ContractionTypeOK
  <2> HIDE DEF c
  <2> QED
    BY <1>1, <1>5, <2>1
<1> HIDE DEF n, left, kids, c
<1>8. /\ Len(untried') = n + 1 /\ untried'[n + 1] = kids
      /\ \A i \in 1..n : untried'[i] = left[i]
      /\ untried' \in Seq(Seq(Node))
  <2> DEFINE TT == Seq(Node)
  <2>1. left \in Seq(TT) /\ kids \in TT /\ Len(left) = n
    BY <1>3, <1>6
  <2> HIDE DEF TT
  <2>2. /\ Len(untried') = n + 1 /\ untried'[n + 1] = kids
        /\ \A i \in 1..n : untried'[i] = left[i]
        /\ untried' \in Seq(TT)
    BY <1>1, <1>2, <2>1
  <2> QED
    BY <2>2 DEF TT
<1>9. SearchIsPath'
  <2>1. \A i \in 1..n : Waiting(path[i], left[i])
    BY <1>2, <1>3, <1>4 DEF Waiting
  <2>2. Waiting(c, kids) /\ Accounted(c, kids, {})
    BY <1>5, <1>6 DEF Waiting, Accounted
  <2>3. \A i \in 1..n + 1 : Waiting(path'[i], untried'[i])
    BY <1>2, <1>7, <1>8, <2>1, <2>2
  <2>4. \A i \in 1..n - 1 : Accounted(path[i], left[i], {path[i + 1]})
    BY <1>2, <1>3, <1>4
  <2>5. Accounted(path[n], left[n], {c})
    BY <1>2, <1>3, <1>4 DEF Accounted
  <2>6. \A i \in 1..n : Accounted(path'[i], untried'[i], {path'[i + 1]})
    <3> SUFFICES ASSUME NEW i \in 1..n
                 PROVE  Accounted(path'[i], untried'[i], {path'[i + 1]})
      OBVIOUS
    <3>1. CASE i = n
      BY <1>2, <1>7, <1>8, <2>5, <3>1
    <3>2. CASE i \in 1..n - 1
      <4>1. path'[i + 1] = path[i + 1]
        <5>1. i + 1 \in 1..n
          BY <1>2, <3>2
        <5> QED
          BY <1>7, <5>1
      <4> QED
        BY <1>7, <1>8, <2>4, <3>2, <4>1
    <3> QED
      BY <1>2, <3>1, <3>2
  <2>7. \A i \in 1..n : path'[i + 1] \in Calls(children, path'[i])
    <3> SUFFICES ASSUME NEW i \in 1..n
                 PROVE  path'[i + 1] \in Calls(children, path'[i])
      OBVIOUS
    <3>1. CASE i = n
      BY <1>2, <1>3, <1>7, <3>1
    <3>2. CASE i \in 1..n - 1
      <4>1. i + 1 \in 1..n
        BY <1>2, <3>2
      <4> QED
        BY <1>4, <1>7, <3>2, <4>1
    <3> QED
      BY <1>2, <3>1, <3>2
  <2>8. \A i \in 1..n + 1 : i = n + 1 => Accounted(path'[i], untried'[i], {})
    BY <1>7, <1>8, <2>2
  <2> DEFINE k == n + 1
  <2>9. k \in Nat /\ k - 1 = n
    BY <1>2
  <2>10. /\ Len(path') = k /\ Len(untried') = k
         /\ \A i \in 1..k : Waiting(path'[i], untried'[i])
         /\ \A i \in 1..k : i = k => Accounted(path'[i], untried'[i], {})
    BY <1>7, <1>8, <2>3, <2>8
  <2> HIDE DEF k
  <2> QED
    BY <1>1, <2>6, <2>7, <2>9, <2>10, SearchKept
<1>10. RootsInForest'
  <2>1. searchRoots # <<>>
    BY <1>1 DEF RootsInForest, ChildToTry, Searching
  <2> QED
    BY <1>1, <2>1, SameGraph DEF RootsInForest
<1>11. searchRoots' \in Seq(Outer)
  BY <1>1 DEF ContractionTypeOK
<1> QED
  BY <1>1, <1>7, <1>8, <1>9, <1>10, <1>11, SearchStep

LEMMA FrontFacts ==
  ASSUME NEW T, NEW s \in Seq(T), s # <<>>
  PROVE  /\ Front(s) \in Seq(T) /\ Len(Front(s)) = Len(s) - 1
         /\ \A k \in 1..Len(s) - 1 : Front(s)[k] = s[k]
<1> DEFINE n == Len(s) - 1
<1>1. n \in Nat /\ \A i \in 1..n : s[i] \in T
  OBVIOUS
<1>2. Front(s) = SubSeq(s, 1, n)
  BY DEF Front
<1>3. 1 \in Int /\ n \in Int /\ n - 1 + 1 = n /\ \A i \in 1..n : 1 + i - 1 = i
  BY <1>1
<1> HIDE DEF n
<1>4. ~(1 <= n) => n = 0
  BY <1>1
<1>5. /\ SubSeq(s, 1, n) \in Seq(T)
      /\ Len(SubSeq(s, 1, n)) = IF 1 <= n THEN n - 1 + 1 ELSE 0
      /\ \A i \in 1..n - 1 + 1 : SubSeq(s, 1, n)[i] = s[1 + i - 1]
  BY <1>1, <1>3, SubSeqProperties
<1>6. Len(Front(s)) = n /\ \A i \in 1..n : Front(s)[i] = s[i]
  BY <1>2, <1>3, <1>4, <1>5
<1> QED
  BY <1>2, <1>5, <1>6 DEF n

(* A node that has no children left to try leads to no cycle.              *)
LEMMA EmptySearch ==
  ASSUME ContractionIInv, Searching, Last(untried) = <<>>
  PROVE  NoCycleBelow(path[Len(path)]) /\ path[Len(path)] \in OwnNodes
<1> DEFINE n == Len(path)
<1>1. n \in 1..n /\ untried[n] = <<>>
  BY PathFacts DEF ContractionIInv, Search
<1>2. Waiting(path[n], untried[n]) /\ Accounted(path[n], untried[n], {})
  BY <1>1 DEF ContractionIInv, Search, SearchIsPath
<1>3. path[n] \in OwnNodes /\ \A c \in Calls(children, path[n]) : NoCycleBelow(c)
  BY <1>1, <1>2 DEF Waiting, Accounted, ToSet
<1> QED
  BY <1>3, NoCycleFromChildren

LEMMA BacktrackKeeps ==
  ASSUME ContractionIInv, Backtrack
  PROVE  ContractionIInv'
<1> DEFINE n == Len(path)
           m == n - 1
<1>1. /\ path' = Front(path) /\ untried' = Front(untried)
      /\ UNCHANGED <<built, forest, children, reasons, removed>>
      /\ searchRoots' = IF Len(path) = 1 THEN Tail(searchRoots) ELSE searchRoots
      /\ ContractionTypeOK /\ RootsInForest /\ SearchIsPath
  BY DEF Backtrack, ContractionIInv, Search
<1>2. /\ n \in Nat /\ n \in 1..n /\ Len(untried) = n
      /\ path # <<>> /\ untried # <<>>
  BY <1>1, PathFacts DEF Backtrack, Searching
<1>3. /\ path' \in Seq(Inner) /\ Len(path') = n - 1
      /\ \A i \in 1..n - 1 : path'[i] = path[i]
  <2>1. path \in Seq(Inner)
    BY <1>1 DEF ContractionTypeOK
  <2> QED
    BY <1>1, <1>2, <2>1, FrontFacts
<1>4. /\ untried' \in Seq(Seq(Node)) /\ Len(untried') = n - 1
      /\ \A i \in 1..n - 1 : untried'[i] = untried[i]
  <2> DEFINE TT == Seq(Node)
  <2>1. untried \in Seq(TT)
    BY <1>1 DEF ContractionTypeOK
  <2> HIDE DEF TT
  <2>2. /\ Front(untried) \in Seq(TT) /\ Len(Front(untried)) = n - 1
        /\ \A i \in 1..n - 1 : Front(untried)[i] = untried[i]
    BY <1>2, <2>1, FrontFacts
  <2> QED
    BY <1>1, <2>2 DEF TT
<1>5. /\ \A i \in 1..n : Waiting(path[i], untried[i])
      /\ \A i \in 1..n - 1 : path[i + 1] \in Calls(children, path[i])
      /\ \A i \in 1..n - 1 : Accounted(path[i], untried[i], {path[i + 1]})
  BY <1>1 DEF SearchIsPath
<1>6. NoCycleBelow(path[n])
  BY EmptySearch DEF Backtrack
<1> HIDE DEF n
<1>7. /\ m \in Nat /\ m + 1 = n /\ \A i \in 1..m : i \in 1..n
      /\ \A i \in 1..m - 1 : i \in 1..m /\ i + 1 \in 1..m
  BY <1>2
<1> HIDE DEF m
<1>8. m = n - 1
  BY DEF m
<1>9. SearchIsPath'
  <2>1. /\ Len(path') = m /\ Len(untried') = m
        /\ \A i \in 1..m : path'[i] = path[i] /\ untried'[i] = untried[i]
    BY <1>3, <1>4, <1>8
  <2>2. /\ \A i \in 1..m : Waiting(path[i], untried[i])
        /\ \A i \in 1..m : path[i + 1] \in Calls(children, path[i])
        /\ \A i \in 1..m : Accounted(path[i], untried[i], {path[i + 1]})
    BY <1>5, <1>7, <1>8
  <2>3. \A i \in 1..m : i = m => Accounted(path[i], untried[i], {})
    <3> SUFFICES ASSUME NEW i \in 1..m, i = m
                 PROVE  Accounted(path[i], untried[i], {})
      OBVIOUS
    <3>1. Accounted(path[i], untried[i], {path[n]})
      BY <1>7, <2>2
    <3> QED
      BY <1>6, <3>1 DEF Accounted
  <2>4. \A i \in 1..m : Waiting(path'[i], untried'[i])
    BY <2>1, <2>2
  <2>5. \A i \in 1..m - 1 : path'[i + 1] \in Calls(children, path'[i])
    <3> SUFFICES ASSUME NEW i \in 1..m - 1
                 PROVE  path'[i + 1] \in Calls(children, path'[i])
      OBVIOUS
    <3>1. path'[i + 1] = path[i + 1] /\ path'[i] = path[i] /\ i \in 1..m
      BY <1>7, <2>1
    <3> QED
      BY <2>2, <3>1
  <2>6. \A i \in 1..m - 1 : Accounted(path'[i], untried'[i], {path'[i + 1]})
    <3> SUFFICES ASSUME NEW i \in 1..m - 1
                 PROVE  Accounted(path'[i], untried'[i], {path'[i + 1]})
      OBVIOUS
    <3>1. /\ path'[i + 1] = path[i + 1] /\ path'[i] = path[i] /\ i \in 1..m
          /\ untried'[i] = untried[i]
      BY <1>7, <2>1
    <3> QED
      BY <2>2, <3>1
  <2>7. \A i \in 1..m : i = m => Accounted(path'[i], untried'[i], {})
    BY <2>1, <2>3
  <2> QED
    BY <1>1, <1>7, <2>1, <2>4, <2>5, <2>6, <2>7, SearchKept
<1>10. searchRoots' \in Seq(Outer) /\ RootsInForest'
  <2>1. searchRoots \in Seq(Outer) /\ searchRoots # <<>>
    BY <1>1, <1>2 DEF ContractionTypeOK, RootsInForest
  <2>2. Tail(searchRoots) \in Seq(Outer) /\ ToSet(Tail(searchRoots)) \subseteq ToSet(searchRoots)
    BY <2>1, HeadAndTail
  <2>3. searchRoots' \in Seq(Outer) /\ ToSet(searchRoots') \subseteq ToSet(searchRoots)
    BY <1>1, <2>1, <2>2
  <2>4. path' # <<>> => searchRoots' # <<>>
    <3>1. path' = <<>> \/ Len(path) # 1
      BY <1>2, <1>3 DEF n
    <3> QED
      BY <1>1, <2>1, <3>1
  <2> QED
    BY <1>1, <2>3, <2>4, SameGraph DEF RootsInForest
<1> QED
  BY <1>1, <1>3, <1>4, <1>9, <1>10, SearchStep
-----------------------------------------------------------------------------
(* The contraction of a cycle.                                             *)
LEMMA CycleFacts ==
  ASSUME ContractionIInv, ChildToTry, NextChild \in ToSet(path), NEW n, n = Len(path)
  PROVE  /\ n \in Nat /\ Cycle \in Seq(Inner)
         /\ \E at \in 1..n : path[at] = NextChild /\ ToSet(Cycle) = {path[i] : i \in at..n}
         /\ \A i \in 1..n : path[i] \in OwnNodes
         /\ \A i \in 1..n - 1 : path[i + 1] \in Calls(children, path[i])
         /\ NextChild \in Calls(children, path[n]) /\ n \in 1..n
<1> DEFINE at == CHOOSE i \in DOMAIN path : path[i] = NextChild
<1>1. /\ ContractionTypeOK /\ SearchIsPath /\ Searching
  BY DEF ContractionIInv, Search, ChildToTry
<1>2. /\ n \in Nat /\ DOMAIN path = 1..n /\ n \in 1..n
      /\ \A i \in 1..n : path[i] \in Inner
  BY <1>1, PathFacts
<1>3. /\ at \in 1..n /\ path[at] = NextChild
  BY <1>2 DEF ToSet
<1>4. Cycle = SubSeq(path, at, n)
  BY DEF Cycle
<1> HIDE DEF at
<1>5. /\ at \in Int /\ n \in Int /\ at <= n
      /\ \A i \in at..n : i \in 1..n
      /\ \A i \in 1..n - at + 1 : at + i - 1 \in at..n
      /\ \A i \in at..n : i - at + 1 \in 1..n - at + 1 /\ at + (i - at + 1) - 1 = i
  BY <1>2, <1>3
<1> DEFINE s == SubSeq(path, at, n)
<1>6. /\ s \in Seq(Inner) /\ Len(s) = n - at + 1
      /\ \A i \in 1..n - at + 1 : s[i] = path[at + i - 1]
  BY <1>2, <1>5, SubSeqProperties
<1> HIDE DEF s
<1>7. ToSet(s) = {path[i] : i \in at..n}
  <2>1. DOMAIN s = 1..n - at + 1
    BY <1>6
  <2>2. ToSet(s) = {s[i] : i \in 1..n - at + 1}
    BY <2>1 DEF ToSet
  <2>3. ASSUME NEW i \in 1..n - at + 1
        PROVE  s[i] \in {path[j] : j \in at..n}
    BY <1>5, <1>6
  <2>4. ASSUME NEW i \in at..n
        PROVE  path[i] \in {s[j] : j \in 1..n - at + 1}
    <3> DEFINE k == i - at + 1
    <3>1. k \in 1..n - at + 1 /\ at + k - 1 = i
      BY <1>5
    <3> HIDE DEF k
    <3>2. s[k] = path[i]
      BY <1>6, <3>1
    <3> QED
      BY <3>1, <3>2
  <2> QED
    BY <2>2, <2>3, <2>4
<1>8. /\ \A i \in 1..n : path[i] \in OwnNodes
      /\ \A i \in 1..n - 1 : path[i + 1] \in Calls(children, path[i])
  BY <1>1 DEF SearchIsPath, Waiting
<1>9. NextChild \in Calls(children, path[n])
  BY <1>1, SearchTopFacts
<1> QED
  BY <1>2, <1>3, <1>4, <1>6, <1>7, <1>8, <1>9 DEF s

(* Going round the cycle, one leaves every part of it.                     *)
LEMMA RoundTheCycle ==
  ASSUME NEW n \in Nat, NEW at \in 1..n, NEW T, NEW f,
         \E i \in at..n : f[i] \in T,
         \E i \in at..n : f[i] \notin T
  PROVE  \/ \E i \in at..n - 1 : f[i] \in T /\ f[i + 1] \notin T
         \/ f[n] \in T /\ f[at] \notin T
<1> SUFFICES ASSUME f[n] \in T => f[at] \in T
             PROVE  \E i \in at..n - 1 : f[i] \in T /\ f[i + 1] \notin T
  OBVIOUS
<1>1. PICK a \in at..n : f[a] \in T /\ \E i \in a..n : f[i] \notin T
  <2>1. CASE f[n] \in T
    BY <2>1
  <2>2. CASE f[n] \notin T
    <3>1. PICK a \in at..n : f[a] \in T
      OBVIOUS
    <3>2. n \in a..n
      BY <3>1
    <3> QED
      BY <2>2, <3>1, <3>2
  <2> QED
    BY <2>1, <2>2
<1> DEFINE Out == {i \in a..n : f[i] \notin T}
<1>2. Out \in SUBSET Nat /\ Out # {}
  BY <1>1
<1>3. PICK b \in Out : \A y \in Out : b <= y
  <2> HIDE DEF Out
  <2> QED
    BY <1>2, Least
<1>4. /\ b \in a..n /\ f[b] \notin T /\ b # a
  BY <1>1, <1>3
<1> DEFINE k == b - 1
<1>5. /\ k \in at..n - 1 /\ k \in a..n /\ k + 1 = b /\ ~(b <= k)
  BY <1>1, <1>4
<1> HIDE DEF k
<1>6. f[k] \in T
  BY <1>3, <1>5
<1> QED
  BY <1>4, <1>5, <1>6

LEMMA CallOfGroups ==
  ASSUME NEW m \in OwnNodes, NEW n \in OwnNodes, n \in Calls(children, m)
  PROVE  <<Members(m), Members(n)>> \in GroupCalls
<1>1. <<m, n>> \in NodeCalls
  BY DEF NodeCalls
<1> QED
  BY <1>1 DEF GroupCalls

LEMMA CycleIsConnected ==
  ASSUME ContractionIInv, ChildToTry, NextChild \in ToSet(path)
  PROVE  Abs!StronglyConnected({Members(n) : n \in ToSet(Cycle)})
<1> DEFINE S == {Members(n) : n \in ToSet(Cycle)}
           n == Len(path)
<1>1. /\ n \in Nat /\ Cycle \in Seq(Inner)
      /\ \A i \in 1..n : path[i] \in OwnNodes
      /\ \A i \in 1..n - 1 : path[i + 1] \in Calls(children, path[i])
      /\ NextChild \in Calls(children, path[n]) /\ n \in 1..n
  BY CycleFacts
<1>2. PICK at \in 1..n :
        path[at] = NextChild /\ ToSet(Cycle) = {path[i] : i \in at..n}
  BY CycleFacts
<1> HIDE DEF n
<1> DEFINE f == [i \in 1..n |-> Members(path[i])]
<1>3. /\ at \in at..n /\ n \in at..n /\ \A i \in at..n : i \in 1..n
      /\ \A i \in at..n - 1 : i \in 1..n - 1 /\ i \in 1..n /\ i + 1 \in 1..n
                              /\ i \in at..n /\ i + 1 \in at..n
  BY <1>1, <1>2
<1>4. \A i \in 1..n : f[i] = Members(path[i])
  OBVIOUS
<1>5. S = {f[i] : i \in at..n}
  BY <1>2, <1>3
<1> HIDE DEF f, S
<1>6. <<f[n], f[at]>> \in GroupCalls
  BY <1>1, <1>2, <1>4, CallOfGroups
<1>7. \A i \in at..n - 1 : <<f[i], f[i + 1]>> \in GroupCalls
  BY <1>1, <1>3, <1>4, CallOfGroups
<1>8. S # {}
  BY <1>3, <1>5
<1>9. \A G \in S : S = {G} => <<G, G>> \in GroupCalls
  <2> SUFFICES ASSUME NEW G, S = {G}
               PROVE  <<G, G>> \in GroupCalls
    OBVIOUS
  <2>1. f[n] = G /\ f[at] = G
    BY <1>3, <1>5
  <2> QED
    BY <1>6, <2>1
<1>10. ASSUME NEW T \in SUBSET S, T # {}, T # S
       PROVE  \E G \in T, H \in S \ T : <<G, H>> \in GroupCalls
  <2>1. /\ \E i \in at..n : f[i] \in T
        /\ \E i \in at..n : f[i] \notin T
    BY <1>5, <1>10
  <2>2. CASE f[n] \in T /\ f[at] \notin T
    BY <1>3, <1>5, <1>6, <2>2
  <2>3. CASE \E i \in at..n - 1 : f[i] \in T /\ f[i + 1] \notin T
    <3>1. PICK i \in at..n - 1 : f[i] \in T /\ f[i + 1] \notin T
      BY <2>3
    <3>2. f[i + 1] \in S
      BY <1>3, <1>5
    <3> QED
      BY <1>7, <3>1, <3>2
  <2> QED
    BY <1>1, <1>2, <2>1, <2>2, <2>3, RoundTheCycle
<1> QED
  BY <1>8, <1>9, <1>10 DEF Abs!StronglyConnected, S
LEMMA ContractFacts ==
  ASSUME ContractionIInv, Contract, NEW nodes, nodes = ToSet(Cycle),
         NEW new, new = CombinedNode(Cycle), ~HasId(forest, new)
  PROVE  /\ nodes \subseteq OwnNodes /\ nodes # {} /\ new \in Combined
         /\ Members(new) = UNION {Members(n) : n \in nodes} /\ new \notin OwnNodes
         /\ forest' \in Seq(Outer) /\ OwnNodes' = (OwnNodes \ nodes) \cup {new}
         /\ InForest' = (InForest \ nodes) \cup {new}
         /\ children' \in [Node -> Seq(Node)]
         /\ \A m \in Inner :
              m \in Calls(children', new) <=>
                m \notin nodes /\ \E n \in nodes : m \in Calls(children, n)
         /\ \A n \in OwnNodes \ nodes :
              Calls(children', n) =
                IF Calls(children, n) \cap nodes = {} THEN Calls(children, n)
                ELSE (Calls(children, n) \ nodes) \cup {new}
         /\ \A n \in Node : n \notin OwnNodes' => children'[n] = children[n]
         /\ reasons' \in [Node -> SUBSET Callable]
         /\ \A c \in Calls(children', new) : \E n \in nodes : c \in Calls(children, n)
         /\ \A n \in nodes : \A c \in Calls(children, n) :
              c \in nodes \/ HasId(children'[new], Id(c))
         /\ reasons' = [reasons EXCEPT ![new] = UNION {reasons[n] : n \in nodes}]
<1>1. /\ ChildToTry /\ NextChild \in ToSet(path)
      /\ forest' = Append(Without(forest, nodes), new)
      /\ reasons' = [reasons EXCEPT ![new] = UNION {reasons[n] : n \in nodes}]
      /\ children' = [n \in Node |->
                        IF n = new THEN OuterChildren(Cycle)
                        ELSE IF n \in InForest \ nodes
                             THEN Redirect(children[n], nodes, new)
                             ELSE children[n]]
  BY DEF Contract
<1>2. /\ forest \in Seq(Outer) /\ ChildrenOK /\ reasons \in [Node -> SUBSET Callable]
  BY DEF ContractionIInv, ContractionTypeOK
<1>3. Cycle \in Seq(Inner) /\ nodes \subseteq OwnNodes /\ nodes # {}
  <2> DEFINE n == Len(path)
  <2>1. /\ n \in Nat /\ Cycle \in Seq(Inner)
        /\ \A i \in 1..n : path[i] \in OwnNodes
    BY <1>1, CycleFacts
  <2>2. PICK at \in 1..n : path[at] = NextChild /\ nodes = {path[i] : i \in at..n}
    BY <1>1, CycleFacts
  <2> HIDE DEF n
  <2>3. at \in at..n /\ \A i \in at..n : i \in 1..n
    BY <2>1, <2>2
  <2> QED
    BY <2>1, <2>2, <2>3
<1>4. OwnNodes \subseteq Inner /\ \A n \in OwnNodes : n \in Node
  BY <1>2, InnerFacts DEF OwnNodes, InForest, ToSet, Outer
<1> DEFINE S == UNION {Members(n) : n \in nodes}
<1>5. new = [of |-> S] /\ S \subseteq Defined /\ S # {}
  <2>1. \A n \in nodes : Members(n) # {} /\ Members(n) \subseteq Defined
    BY <1>3, <1>4, InnerFacts
  <2> QED
    BY <1>3, <2>1 DEF CombinedNode
<1> HIDE DEF S
<1>6. new \in Combined /\ Members(new) = S
  BY <1>5 DEF Combined, Members
<1>7. new \in Inner /\ new \in Node /\ Id(new) = new
  BY <1>6, InnerFacts DEF Inner
<1>8. new \notin OwnNodes
  <2>1. forest \in Seq(Node)
    BY <1>2, InnerFacts
  <2> QED
    BY <1>7, <2>1, HasIdInner DEF OwnNodes, InForest
<1>9. /\ forest' \in Seq(Outer) /\ InForest' = (InForest \ nodes) \cup {new}
      /\ OwnNodes' = (OwnNodes \ nodes) \cup {new}
  <2>1. Without(forest, nodes) \in Seq(Outer)
        /\ ToSet(Without(forest, nodes)) = InForest \ nodes
    BY <1>2, WithoutFacts DEF InForest
  <2>2. new \in Outer /\ new \notin Import
    BY <1>7, InnerFacts DEF Outer
  <2>3. /\ Append(Without(forest, nodes), new) \in Seq(Outer)
        /\ ToSet(Append(Without(forest, nodes), new)) = (InForest \ nodes) \cup {new}
    BY <2>1, <2>2, AppendFacts
  <2>4. InForest' = ToSet(forest')
    BY DEF InForest
  <2>5. InForest' = (InForest \ nodes) \cup {new}
    BY <1>1, <2>3, <2>4
  <2>6. OwnNodes' = (OwnNodes \ nodes) \cup {new}
    BY <2>2, <2>5 DEF OwnNodes
  <2> QED
    BY <1>1, <2>3, <2>5, <2>6
<1>10. /\ OuterChildren(Cycle) \in Seq(Node)
       /\ \A m \in Inner :
            m \in ToSet(OuterChildren(Cycle)) <=>
              m \notin nodes /\ \E n \in nodes : m \in Calls(children, n)
       /\ \A m \in ToSet(OuterChildren(Cycle)) :
            \E n \in nodes : m \in Calls(children, n)
       /\ \A n \in nodes : \A c \in Calls(children, n) :
            c \in nodes \/ HasId(OuterChildren(Cycle), Id(c))
  BY <1>2, <1>3, OuterFacts
<1>11. \A n \in Node : children[n] \in Seq(Node)
  BY <1>2 DEF ChildrenOK
<1>12. \A n \in Node :
         /\ Redirect(children[n], nodes, new) \in Seq(Node)
         /\ ToSet(Redirect(children[n], nodes, new)) =
              IF Calls(children, n) \cap nodes = {} THEN Calls(children, n)
              ELSE (Calls(children, n) \ nodes) \cup {new}
  <2> SUFFICES ASSUME NEW n \in Node
               PROVE  /\ Redirect(children[n], nodes, new) \in Seq(Node)
                      /\ ToSet(Redirect(children[n], nodes, new)) =
                           IF Calls(children, n) \cap nodes = {}
                           THEN Calls(children, n)
                           ELSE (Calls(children, n) \ nodes) \cup {new}
    OBVIOUS
  <2> DEFINE kids == children[n]
  <2>1. kids \in Seq(Node) /\ Calls(children, n) = ToSet(kids)
    BY <1>11 DEF Calls
  <2> HIDE DEF kids
  <2>2. /\ Redirect(kids, nodes, new) \in Seq(Node)
        /\ ToSet(Redirect(kids, nodes, new)) =
             IF ToSet(kids) \cap nodes = {} THEN ToSet(kids)
             ELSE (ToSet(kids) \ nodes) \cup {new}
    BY <1>6, <2>1, RedirectFacts
  <2> QED
    BY <2>1, <2>2 DEF kids
<1>13. \A n \in Node :
         children'[n] = IF n = new THEN OuterChildren(Cycle)
                        ELSE IF n \in OwnNodes \ nodes
                             THEN Redirect(children[n], nodes, new)
                             ELSE children[n]
  <2> SUFFICES ASSUME NEW n \in Node, n # new, n \in (InForest \cap Import) \ nodes
               PROVE  Redirect(children[n], nodes, new) = children[n]
    BY <1>1 DEF OwnNodes
  <2>1. children[n] = <<>>
    BY InnerFacts DEF ContractionIInv, Leaves
  <2>2. ToSet(children[n]) = {}
    BY <2>1 DEF ToSet
  <2> QED
    BY <2>2 DEF Redirect
<1>14. children' \in [Node -> Seq(Node)]
  <2>1. DOMAIN children' = Node
    BY <1>1
  <2>4. OuterChildren(Cycle) \in Seq(Node)
    BY <1>10
  <2>5. \A n \in Node : Redirect(children[n], nodes, new) \in Seq(Node)
    BY <1>12
  <2>2. \A n \in Node : children'[n] \in Seq(Node)
    BY <1>11, <1>13, <2>4, <2>5
  <2>3. children' = [n \in Node |-> children'[n]]
    BY <1>1
  <2> QED
    BY <2>2, <2>3
<1>15. \A m \in Inner :
         m \in Calls(children', new) <=>
           m \notin nodes /\ \E n \in nodes : m \in Calls(children, n)
  BY <1>7, <1>10, <1>13 DEF Calls
<1>16. \A n \in OwnNodes \ nodes :
         Calls(children', n) =
           IF Calls(children, n) \cap nodes = {} THEN Calls(children, n)
           ELSE (Calls(children, n) \ nodes) \cup {new}
  <2> SUFFICES ASSUME NEW n \in OwnNodes \ nodes
               PROVE  Calls(children', n) =
                        IF Calls(children, n) \cap nodes = {} THEN Calls(children, n)
                        ELSE (Calls(children, n) \ nodes) \cup {new}
    OBVIOUS
  <2>1. children'[n] = Redirect(children[n], nodes, new)
    BY <1>4, <1>8, <1>13
  <2>2. Calls(children', n) = ToSet(Redirect(children[n], nodes, new))
    BY <2>1 DEF Calls
  <2> QED
    BY <1>4, <1>12, <2>2
<1>17. \A n \in Node : n \notin OwnNodes' => children'[n] = children[n]
  BY <1>9, <1>13
<1>18. reasons' \in [Node -> SUBSET Callable]
  <2>1. UNION {reasons[n] : n \in nodes} \in SUBSET Callable
    BY <1>2, <1>3, <1>4
  <2> QED
    BY <1>1, <1>2, <1>7, <2>1
<1>19. children'[new] = OuterChildren(Cycle)
  BY <1>7, <1>13
<1>20. /\ \A c \in Calls(children', new) : \E n \in nodes : c \in Calls(children, n)
       /\ \A n \in nodes : \A c \in Calls(children, n) :
            c \in nodes \/ HasId(children'[new], Id(c))
  BY <1>10, <1>19 DEF Calls
<1> QED
  BY <1>1, <1>3, <1>6, <1>8, <1>9, <1>14, <1>15, <1>16, <1>17, <1>18, <1>20 DEF S

LEMMA ContractKeeps ==
  ASSUME ContractionIInv, Contract
  PROVE  ContractionIInv'
<1>0. PICK nodes, new : nodes = ToSet(Cycle) /\ new = CombinedNode(Cycle)
  OBVIOUS
<1>1. /\ ChildToTry /\ NextChild \in ToSet(path)
      /\ removed' = removed \cup nodes /\ path' = <<>> /\ untried' = <<>>
      /\ searchRoots' = Tail(searchRoots) /\ built' = built
  BY <1>0 DEF Contract
<1>2. /\ ContractionTypeOK /\ Apart /\ NoOldNodes /\ Leaves /\ RootsInForest
      /\ searchRoots \in Seq(Outer) /\ forest \in Seq(Outer)
  BY DEF ContractionIInv, Search, ContractionTypeOK
<1>3. searchRoots' \in Seq(Outer) /\ ToSet(searchRoots') \subseteq OwnNodes \cup removed \cup Import
  <2>1. searchRoots # <<>>
    BY <1>1, <1>2 DEF ChildToTry, Searching, RootsInForest
  <2>2. Tail(searchRoots) \in Seq(Outer) /\ ToSet(Tail(searchRoots)) \subseteq ToSet(searchRoots)
    BY <1>2, <2>1, HeadAndTail
  <2> QED
    BY <1>1, <1>2, <2>2 DEF RootsInForest
<1>4. nodes \subseteq Inner
  <2> DEFINE n == Len(path)
  <2>1. Cycle \in Seq(Inner)
    BY <1>1, CycleFacts
  <2> QED
    BY <1>0, <2>1 DEF ToSet
<1>5. SearchIsPath'
  BY <1>1 DEF SearchIsPath
<1>6. built' \in [Node -> Seq(Node)] /\ removed' \subseteq Inner
      /\ path' \in Seq(Inner) /\ untried' \in Seq(Seq(Node))
  BY <1>1, <1>2, <1>4 DEF ContractionTypeOK
<1>7. CASE HasId(forest, new)
  <2>1. UNCHANGED <<forest, children, reasons>>
    BY <1>0, <1>7 DEF Contract
  <2>2. ContractionTypeOK'
    BY <1>2, <1>3, <1>6, <2>1 DEF ContractionTypeOK, ChildrenOK
  <2>3. RootsInForest'
    BY <1>1, <1>3, <2>1 DEF RootsInForest, OwnNodes, InForest
  <2>4. Apart' /\ NoOldNodes' /\ Leaves'
    BY <1>2, <2>1, SameGraph
  <2> QED
    BY <1>5, <2>2, <2>3, <2>4 DEF ContractionIInv, Search
<1>8. CASE ~HasId(forest, new)
  <2>1. /\ nodes \subseteq OwnNodes /\ nodes # {} /\ new \in Combined
        /\ Members(new) = UNION {Members(n) : n \in nodes} /\ new \notin OwnNodes
        /\ forest' \in Seq(Outer) /\ OwnNodes' = (OwnNodes \ nodes) \cup {new}
        /\ children' \in [Node -> Seq(Node)]
        /\ \A m \in Inner :
             m \in Calls(children', new) <=>
               m \notin nodes /\ \E n \in nodes : m \in Calls(children, n)
        /\ \A n \in OwnNodes \ nodes :
             Calls(children', n) =
               IF Calls(children, n) \cap nodes = {} THEN Calls(children, n)
               ELSE (Calls(children, n) \ nodes) \cup {new}
        /\ \A n \in Node : n \notin OwnNodes' => children'[n] = children[n]
        /\ reasons' \in [Node -> SUBSET Callable]
    BY <1>0, <1>8, ContractFacts
  <2>2. ContractionTypeOK'
    BY <1>2, <1>3, <1>6, <2>1 DEF ContractionTypeOK, ChildrenOK
  <2>3. RootsInForest'
    BY <1>1, <1>3, <2>1 DEF RootsInForest
  <2>4. Apart'
    <3>1. \A m \in OwnNodes \ nodes : Members(m) \cap Members(new) = {}
      BY <1>2, <2>1 DEF Apart
    <3> QED
      BY <1>2, <2>1, <3>1 DEF Apart
  <2>5. NoOldNodes'
    <3> SUFFICES ASSUME NEW n \in OwnNodes', NEW c \in Calls(children', n), c \in Inner
                 PROVE  c \in OwnNodes'
      BY DEF NoOldNodes
    <3>1. CASE n = new
      BY <1>2, <2>1, <3>1 DEF NoOldNodes
    <3>2. CASE n \in OwnNodes \ nodes
      BY <1>2, <2>1, <3>2 DEF NoOldNodes
    <3> QED
      BY <2>1, <3>1, <3>2
  <2>6. Leaves'
    <3>1. \A n \in Node \ Inner : n \notin OwnNodes'
      <4>1. OwnNodes \subseteq Inner /\ new \in Inner
        BY <1>2, <2>1 DEF OwnNodes, InForest, ToSet, Inner, Outer
      <4> QED
        BY <2>1, <4>1
    <3> QED
      BY <1>2, <2>1, <3>1 DEF Leaves
  <2> QED
    BY <1>5, <2>2, <2>3, <2>4, <2>5, <2>6 DEF ContractionIInv, Search
<1> QED
  BY <1>7, <1>8

LEMMA ContractionStep == ContractionIInv /\ [ContractionNext]_contractionVars => ContractionIInv'
<1> SUFFICES ASSUME ContractionIInv, [ContractionNext]_contractionVars
             PROVE  ContractionIInv'
  OBVIOUS
<1>1. CASE SkipRoot
  BY <1>1, SkipRootKeeps
<1>2. CASE StartSearch
  BY <1>2, StartSearchKeeps
<1>3. CASE TryLeaf
  BY <1>3, TryLeafKeeps
<1>4. CASE Descend
  BY <1>4, DescendKeeps
<1>5. CASE Backtrack
  BY <1>5, BacktrackKeeps
<1>6. CASE Contract
  BY <1>6, ContractKeeps
<1>7. CASE UNCHANGED contractionVars
  <2>1. UNCHANGED <<forest, children, reasons, removed, searchRoots, path, untried, built>>
    BY <1>7 DEF contractionVars
  <2>2. ContractionTypeOK' /\ RootsInForest'
    BY <2>1 DEF ContractionIInv, Search, ContractionTypeOK, ChildrenOK,
            RootsInForest, OwnNodes, InForest
  <2>3. SearchIsPath'
    <3>1. SearchIsPath /\ Len(path) \in Nat /\ Len(untried) = Len(path)
      BY PathFacts DEF ContractionIInv, Search
    <3> QED
      BY <2>1, <3>1, SearchKept DEF SearchIsPath
  <2> QED
    BY <2>1, <2>2, <2>3, SameGraph DEF ContractionIInv, Search
<1> QED
  BY <1>1, <1>2, <1>3, <1>4, <1>5, <1>6, <1>7 DEF ContractionNext

LEMMA ContractionInductive == ContractionSpec => []ContractionIInv
<1>1. ContractionInit => ContractionIInv
  BY ContractionInitIsStart, ContractionStarts
<1> QED
  BY <1>1, ContractionStep, PTL DEF ContractionSpec

(* The forest, the children and the search keep their types: what is       *)
(* flattened into a combined node is a non-empty set of functions.         *)
THEOREM ContractionTypeCorrect == ContractionSpec => []ContractionTypeOK
BY ContractionInductive, PTL DEF ContractionIInv

(* A search that comes back without a cycle has overlooked none, although  *)
(* it prunes nothing but leaves (_test_cgn_for_cycles).                    *)
THEOREM SearchIsThorough == ContractionSpec => EmptySearchMeansNoCycle
<1>1. ASSUME ContractionIInv, Backtrack, Len(path) = 1
      PROVE  \A n \in Below(children, OwnNodes, path[1]) :
               ~OnCycle(children, OwnNodes, n)
  BY <1>1, EmptySearch DEF Backtrack, NoCycleBelow
<1>2. ContractionIInv /\ [ContractionNext]_contractionVars =>
        [Backtrack /\ Len(path) = 1 =>
           \A n \in Below(children, OwnNodes, path[1]) :
             ~OnCycle(children, OwnNodes, n)]_contractionVars
  BY <1>1
<1> QED
  BY <1>2, ContractionInductive, PTL DEF ContractionSpec, EmptySearchMeansNoCycle
-----------------------------------------------------------------------------
LEMMA GroupFacts ==
  ASSUME ContractionIInv
  PROVE  /\ \A m, n \in OwnNodes : Members(m) = Members(n) => m = n
         /\ \A n \in OwnNodes : n \in Inner /\ Members(n) \in Groups
         /\ \A m, n \in OwnNodes : m # n => Members(m) \cap Members(n) = {}
         /\ \A n \in OwnNodes : Members(n) # {}
<1>1. OwnNodes \subseteq Inner
  BY DEF ContractionIInv, ContractionTypeOK, OwnNodes, InForest, ToSet, Outer
<1>2. \A n \in OwnNodes : Members(n) # {}
  BY <1>1, InnerFacts
<1>3. \A m, n \in OwnNodes : m # n => Members(m) \cap Members(n) = {}
  BY DEF ContractionIInv, Apart
<1> QED
  BY <1>1, <1>2, <1>3 DEF Groups
-----------------------------------------------------------------------------
(* What does not concern the cycles: what a node is to blame for is what   *)
(* its members are, and their calls of imported functions and builtins are *)
(* calls of the node, of those with one id one.                            *)
BlameAddsUp(own) ==
  /\ \A n \in OwnNodes : reasons[n] = UNION {own[f] : f \in Members(n)}
  /\ \A n \in Import : reasons[n] = {}
OutsideCallsStay ==
  /\ \A n \in OwnNodes : \A f \in Members(n) :
       \A c \in Calls(built, f) \ Inner : HasId(children[n], Id(c))
  /\ \A n \in OwnNodes : Calls(children, n) \cap Import \subseteq InForest

LEMMA OutsideCallsStart ==
  ASSUME StartContraction, WellBuilt([forest |-> forest, children |-> children]),
         built = children, reasons \in [Node -> SUBSET Callable]
  PROVE  OutsideCallsStay
<1>1. OwnNodes = Defined
  BY ContractionStarts
<1>2. \A n \in Defined : n \in Node /\ Members(n) = {n}
  BY InnerFacts DEF Node
<1>3. \A n \in Node : Calls(children, n) \subseteq InForest \cup Builtin
  BY DEF WellBuilt, InForest
<1>4. \A n \in Defined : Calls(children, n) \cap Import \subseteq InForest
  <2>1. Import \cap Builtin = {}
    <3> DEFINE kind == <<Function, Class, Import, Builtin, Parameter, Other>>
    <3>1. \A i, j \in 1..6 : i # j => kind[i] \cap kind[j] = {}
      BY SymbolKinds
    <3> QED
      BY <3>1
  <2> QED
    BY <1>2, <1>3, <2>1
<1>5. \A n \in Defined : \A c \in Calls(built, n) : HasId(children[n], Id(c))
  BY DEF Calls, HasId
<1> QED
  BY <1>1, <1>2, <1>4, <1>5 DEF OutsideCallsStay

LEMMA CallsAreNodes ==
  ASSUME ContractionIInv, NEW n \in Node
  PROVE  Calls(built, n) \subseteq Node /\ Calls(children, n) \subseteq Node
<1>1. built[n] \in Seq(Node) /\ children[n] \in Seq(Node)
  BY DEF ContractionIInv, ContractionTypeOK, ChildrenOK
<1> QED
  BY <1>1 DEF Calls, ToSet

LEMMA OutsideStep ==
  ASSUME ContractionIInv, NEW own, BlameAddsUp(own), OutsideCallsStay,
         [ContractionNext]_contractionVars
  PROVE  BlameAddsUp(own)' /\ OutsideCallsStay' /\ InForest' \cap Import = InForest \cap Import
<1>1. CASE UNCHANGED <<built, forest, children, reasons>>
  <2>1. OwnNodes' = OwnNodes /\ InForest' = InForest
    BY <1>1 DEF OwnNodes, InForest
  <2>2. BlameAddsUp(own)'
    BY <1>1, <2>1 DEF BlameAddsUp
  <2>3. OutsideCallsStay'
    BY <1>1, <2>1 DEF OutsideCallsStay
  <2> QED
    BY <2>1, <2>2, <2>3
<1>2. CASE Contract /\ ~HasId(forest, CombinedNode(Cycle))
  <2> DEFINE nodes == ToSet(Cycle)
             new == CombinedNode(Cycle)
  <2> HIDE DEF nodes, new
  <2>1. /\ nodes \subseteq OwnNodes /\ new \in Combined
        /\ Members(new) = UNION {Members(n) : n \in nodes} /\ new \notin OwnNodes
        /\ OwnNodes' = (OwnNodes \ nodes) \cup {new}
        /\ InForest' = (InForest \ nodes) \cup {new}
        /\ \A n \in OwnNodes \ nodes :
              Calls(children', n) =
                IF Calls(children, n) \cap nodes = {} THEN Calls(children, n)
                ELSE (Calls(children, n) \ nodes) \cup {new}
        /\ \A c \in Calls(children', new) : \E n \in nodes : c \in Calls(children, n)
        /\ \A n \in nodes : \A c \in Calls(children, n) :
              c \in nodes \/ HasId(children'[new], Id(c))
        /\ reasons' = [reasons EXCEPT ![new] = UNION {reasons[n] : n \in nodes}]
    BY <1>2, ContractFacts DEF nodes, new
  <2>2. OwnNodes \subseteq Inner /\ new \in Inner /\ new \notin Import /\ new \in Node
    BY <2>1, GroupFacts, InnerFacts DEF Inner
  <2>3. nodes \cap Import = {} /\ built' = built
    BY <1>2, <2>1 DEF OwnNodes, Contract
  <2>4. InForest' \cap Import = InForest \cap Import
    BY <2>1, <2>2, <2>3
  <2>5. /\ reasons'[new] = UNION {reasons[n] : n \in nodes}
        /\ \A n \in Node : n # new => reasons'[n] = reasons[n]
    BY <2>1, <2>2 DEF ContractionIInv, ContractionTypeOK
  <2>6. BlameAddsUp(own)'
    <3>1. \A n \in OwnNodes : reasons[n] = UNION {own[f] : f \in Members(n)}
      BY DEF BlameAddsUp
    <3>2. reasons'[new] = UNION {own[f] : f \in Members(new)}
      <4>1. ASSUME NEW r
            PROVE  r \in UNION {reasons[n] : n \in nodes}
                     <=> \E n \in nodes : \E f \in Members(n) : r \in own[f]
        BY <2>1, <3>1
      <4>2. ASSUME NEW r
            PROVE  r \in UNION {own[f] : f \in Members(new)}
                     <=> \E n \in nodes : \E f \in Members(n) : r \in own[f]
        BY <2>1
      <4> QED
        BY <2>5, <4>1, <4>2
    <3>3. \A n \in OwnNodes' : reasons'[n] = UNION {own[f] : f \in Members(n)}
      BY <2>1, <2>2, <2>5, <3>1, <3>2, InnerFacts
    <3>4. \A n \in Import : reasons'[n] = {}
      BY <2>2, <2>5 DEF BlameAddsUp, Node
    <3> QED
      BY <3>3, <3>4 DEF BlameAddsUp
  <2>7. ASSUME NEW n \in OwnNodes', NEW f \in Members(n), NEW c \in Calls(built, f) \ Inner
        PROVE  HasId(children'[n], Id(c))
    <3>3. n \in Inner
      BY <2>1, <2>2
    <3>4. f \in Defined /\ f \in Node
      BY <3>3, InnerFacts DEF Node
    <3>5. c \in Node \ Inner
      BY <2>7, <3>4, CallsAreNodes
    <3>1. CASE n = new
      <4>1. PICK m \in nodes : f \in Members(m)
        BY <2>1, <2>7, <3>1
      <4>2. PICK d \in Calls(children, m) : Id(d) = Id(c)
        BY <2>1, <4>1 DEF OutsideCallsStay, HasId, Calls
      <4>3. CASE d \in nodes
        <5>1. d \in Inner /\ d \in Node
          BY <2>1, <2>2, <4>3, InnerFacts
        <5> QED
          BY <3>5, <4>2, <5>1, OutsideIds
      <4>4. CASE d \notin nodes
        BY <2>1, <3>1, <4>2, <4>4
      <4> QED
        BY <4>3, <4>4
    <3>2. CASE n \in OwnNodes \ nodes
      <4>1. PICK d \in Calls(children, n) : Id(d) = Id(c)
        BY <3>2 DEF OutsideCallsStay, HasId, Calls
      <4>2. d \notin nodes
        <5>1. nodes \subseteq Inner /\ Inner \subseteq Node
          BY <2>1, <2>2, InnerFacts
        <5> QED
          BY <3>5, <4>1, <5>1, OutsideIds
      <4>3. d \in Calls(children', n)
        BY <2>1, <3>2, <4>1, <4>2
      <4> QED
        BY <4>1, <4>3 DEF HasId, Calls
    <3> QED
      BY <2>1, <2>7, <3>1, <3>2
  <2>8. ASSUME NEW n \in OwnNodes', NEW c \in Calls(children', n) \cap Import
        PROVE  c \in InForest
    <3>1. CASE n = new
      BY <2>1, <2>8, <3>1 DEF OutsideCallsStay
    <3>2. CASE n \in OwnNodes \ nodes
      BY <2>1, <2>2, <2>8, <3>2 DEF OutsideCallsStay
    <3> QED
      BY <2>1, <2>8, <3>1, <3>2
  <2>9. OutsideCallsStay'
    BY <2>3, <2>4, <2>7, <2>8 DEF OutsideCallsStay
  <2> QED
    BY <2>4, <2>6, <2>9
<1>3. CASE Contract /\ HasId(forest, CombinedNode(Cycle))
  BY <1>1, <1>3 DEF Contract
<1>4. CASE SkipRoot \/ StartSearch \/ TryLeaf \/ Descend \/ Backtrack
  BY <1>1, <1>4 DEF SkipRoot, StartSearch, TryLeaf, Descend, Backtrack
<1> QED
  BY <1>1, <1>2, <1>3, <1>4 DEF ContractionNext, contractionVars

(* However cycles are contracted, a node keeps the reasons of all its      *)
(* members and calls of imported functions and builtins (_contract_cycle). *)
THEOREM NothingLeftBehind ==
  ContractionSpec =>
    [](OutsideCallsStay /\ BlameAddsUp([f \in Defined |-> {f}]))
<1> DEFINE own == [f \in Defined |-> {f}]
<1>1. ContractionInit => OutsideCallsStay /\ BlameAddsUp(own)
  <2> SUFFICES ASSUME ContractionInit
               PROVE  OutsideCallsStay /\ BlameAddsUp(own)
    OBVIOUS
  <2>1. OutsideCallsStay /\ OwnNodes = Defined
    BY ContractionInitIsStart, OutsideCallsStart, ContractionStarts
  <2>4. reasons = [n \in Node |-> IF n \in Defined THEN {n} ELSE {}]
    BY DEF ContractionInit
  <2>2. \A n \in Defined : reasons[n] = {n} /\ Members(n) = {n}
    BY <2>4, InnerFacts DEF Node
  <2>3. \A n \in Import : reasons[n] = {}
    BY <2>4, InnerFacts DEF Node, Inner
  <2>5. \A n \in Defined : UNION {own[f] : f \in {n}} = own[n] /\ own[n] = {n}
    OBVIOUS
  <2> HIDE DEF own
  <2>6. \A n \in OwnNodes : reasons[n] = UNION {own[f] : f \in Members(n)}
    BY <2>1, <2>2, <2>5
  <2> QED
    BY <2>1, <2>3, <2>6 DEF BlameAddsUp
<1>2. ContractionIInv /\ OutsideCallsStay /\ BlameAddsUp(own)
        /\ [ContractionNext]_contractionVars
          => OutsideCallsStay' /\ BlameAddsUp(own)'
  BY OutsideStep
<1> QED
  BY <1>1, <1>2, ContractionInductive, PTL DEF ContractionSpec
-----------------------------------------------------------------------------
(* The refinement of Condensation: what a group and a call between groups  *)
(* is in the forest.                                                       *)
LEMMA StartRefines ==
  ASSUME StartContraction, WellBuilt([forest |-> forest, children |-> children]),
         built = children, reasons \in [Node -> SUBSET Callable]
  PROVE  Abs!Init
<1>2. OwnNodes = Defined /\ built = children
  BY ContractionStarts
<1>3. \A n \in Defined : Members(n) = {n}
  BY InnerFacts
<1>4. BuiltCalls \in SUBSET (Defined \X Defined)
  BY DEF BuiltCalls
<1>5. Groups = {{v} : v \in Defined}
  BY <1>2, <1>3 DEF Groups
<1>6. NodeCalls = BuiltCalls
  BY <1>2 DEF NodeCalls, BuiltCalls
<1>7. GroupCalls = {<<{e[1]}, {e[2]}>> : e \in BuiltCalls}
  <2>1. \A e \in BuiltCalls : <<Members(e[1]), Members(e[2])>> = <<{e[1]}, {e[2]}>>
    BY <1>3, <1>4
  <2> QED
    BY <1>6, <2>1 DEF GroupCalls
<1> QED
  BY <1>4, <1>5, <1>7 DEF Abs!Init

LEMMA ContractMerges ==
  ASSUME ContractionIInv, Contract, NEW nodes, nodes = ToSet(Cycle),
         NEW new, new = CombinedNode(Cycle), ~HasId(forest, new)
  PROVE  Abs!Merge({Members(n) : n \in nodes})
<1> DEFINE S == {Members(n) : n \in nodes}
           G == UNION S
           After == {<<Abs!Image(S, e[1]), Abs!Image(S, e[2])>> :
                       e \in GroupCalls} \ {<<G, G>>}
<1>1. /\ nodes \subseteq OwnNodes /\ nodes # {} /\ new \in Combined
      /\ Members(new) = G /\ new \notin OwnNodes
      /\ OwnNodes' = (OwnNodes \ nodes) \cup {new}
      /\ \A m \in Inner :
           m \in Calls(children', new) <=>
             m \notin nodes /\ \E n \in nodes : m \in Calls(children, n)
      /\ \A n \in OwnNodes \ nodes :
           Calls(children', n) =
             IF Calls(children, n) \cap nodes = {} THEN Calls(children, n)
             ELSE (Calls(children, n) \ nodes) \cup {new}
  BY ContractFacts
<1>2. /\ \A m, n \in OwnNodes : Members(m) = Members(n) => m = n
      /\ \A n \in OwnNodes : n \in Inner
      /\ \A m, n \in OwnNodes : m # n => Members(m) \cap Members(n) = {}
      /\ \A n \in OwnNodes : Members(n) # {}
  BY GroupFacts
<1>3. new \in Inner
  BY <1>1 DEF Inner
<1>4. \A n \in OwnNodes : new \notin Calls(children, n)
  BY <1>1, <1>3 DEF ContractionIInv, NoOldNodes
<1>5. \A n \in OwnNodes : Members(n) \in S <=> n \in nodes
  BY <1>1, <1>2
<1>6. /\ \A n \in nodes : Abs!Image(S, Members(n)) = G
      /\ \A n \in OwnNodes \ nodes : Abs!Image(S, Members(n)) = Members(n)
  BY <1>1, <1>5 DEF Abs!Image
<1>7. \A n \in OwnNodes \ nodes : Members(n) # G
  BY <1>1, <1>2
<1>8. Groups' = Abs!GroupsAfter(S)
  <2>1. Groups' = {Members(n) : n \in OwnNodes'}
    BY DEF Groups
  <2>2. Groups \ S = {Members(n) : n \in OwnNodes \ nodes}
    BY <1>5 DEF Groups
  <2> DEFINE A == OwnNodes \ nodes
  <2>3. Groups' = (Groups \ S) \cup {G}
    <3>1. OwnNodes' = A \cup {new} /\ Members(new) = G
      BY <1>1
    <3> HIDE DEF A, S, G
    <3>2. {Members(n) : n \in A \cup {new}} = {Members(n) : n \in A} \cup {Members(new)}
      OBVIOUS
    <3>3. Groups' = {Members(n) : n \in A \cup {new}}
      BY <2>1, <3>1
    <3>4. Groups \ S = {Members(n) : n \in A}
      BY <2>2 DEF A
    <3> QED
      BY <3>1, <3>2, <3>3, <3>4
  <2> QED
    BY <2>3 DEF Abs!GroupsAfter
<1> HIDE DEF G, S
<1>9. \A a, b : <<a, b>> \in GroupCalls <=>
                  \E m, n \in OwnNodes : /\ n \in Calls(children, m)
                                         /\ a = Members(m) /\ b = Members(n)
  <2>1. ASSUME NEW e \in NodeCalls
        PROVE  /\ e[1] \in OwnNodes /\ e[2] \in OwnNodes
               /\ e[2] \in Calls(children, e[1])
    BY DEF NodeCalls
  <2> QED
    BY <2>1, CallOfGroups DEF GroupCalls
<1>10. \A a, b : <<a, b>> \in GroupCalls' <=>
                   \E m, n \in OwnNodes' : /\ n \in Calls(children', m)
                                           /\ a = Members(m) /\ b = Members(n)
  <2>1. /\ NodeCalls' = {e \in OwnNodes' \X OwnNodes' : e[2] \in Calls(children', e[1])}
        /\ GroupCalls' = {<<Members(e[1]), Members(e[2])>> : e \in NodeCalls'}
    BY DEF NodeCalls, GroupCalls
  <2>2. ASSUME NEW e \in NodeCalls'
        PROVE  /\ e[1] \in OwnNodes' /\ e[2] \in OwnNodes'
               /\ e[2] \in Calls(children', e[1])
    BY <2>1
  <2>3. ASSUME NEW m \in OwnNodes', NEW n \in OwnNodes', n \in Calls(children', m)
        PROVE  <<Members(m), Members(n)>> \in GroupCalls'
    <3>1. <<m, n>> \in NodeCalls'
      BY <2>1, <2>3
    <3> QED
      BY <2>1, <3>1
  <2> QED
    BY <2>1, <2>2, <2>3
<1> DEFINE Made(a, b) == \E m, n \in OwnNodes :
                           /\ n \in Calls(children, m)
                           /\ a = Abs!Image(S, Members(m))
                           /\ b = Abs!Image(S, Members(n))
<1>11. ASSUME NEW a, NEW b
       PROVE  <<a, b>> \in After <=> ~(a = G /\ b = G) /\ Made(a, b)
  <2> DEFINE All == {<<Abs!Image(S, e[1]), Abs!Image(S, e[2])>> : e \in GroupCalls}
             Some == \E e \in GroupCalls : /\ a = Abs!Image(S, e[1])
                                          /\ b = Abs!Image(S, e[2])
  <2>1. ASSUME NEW e \in GroupCalls
        PROVE  e = <<e[1], e[2]>>
    BY DEF GroupCalls
  <2>2. ASSUME NEW m \in OwnNodes, NEW n \in OwnNodes, n \in Calls(children, m)
        PROVE  \E e \in GroupCalls : e[1] = Members(m) /\ e[2] = Members(n)
    <3> DEFINE e == <<Members(m), Members(n)>>
    <3>1. e \in GroupCalls
      BY <1>9, <2>2
    <3>2. e[1] = Members(m) /\ e[2] = Members(n)
      OBVIOUS
    <3> HIDE DEF e
    <3> QED
      BY <3>1, <3>2
  <2>3. ASSUME NEW e \in GroupCalls
        PROVE  \E m, n \in OwnNodes : /\ n \in Calls(children, m)
                                      /\ e[1] = Members(m) /\ e[2] = Members(n)
    BY <1>9, <2>1
  <2>4. Some <=> Made(a, b)
    BY <2>2, <2>3
  <2>5. <<a, b>> \in All <=> Some
    OBVIOUS
  <2>6. After = All \ {<<G, G>>}
    OBVIOUS
  <2>7. <<a, b>> = <<G, G>> <=> a = G /\ b = G
    OBVIOUS
  <2> HIDE DEF All, Some, After, Made
  <2> QED
    BY <2>4, <2>5, <2>6, <2>7
<1> HIDE DEF After
<1>12. ASSUME NEW a, NEW b, <<a, b>> \in GroupCalls'
       PROVE  <<a, b>> \in After
  <2>1. PICK m \in OwnNodes', n \in OwnNodes' :
          n \in Calls(children', m) /\ a = Members(m) /\ b = Members(n)
    BY <1>10, <1>12
  <2>2. CASE m = new
    <3>1. n \in Inner /\ n # new /\ n \in OwnNodes \ nodes
      BY <1>1, <1>2, <1>3, <1>4, <2>1, <2>2
    <3>2. PICK c \in nodes : n \in Calls(children, c)
      BY <1>1, <2>1, <2>2, <3>1
    <3>3. c \in OwnNodes /\ a = Abs!Image(S, Members(c))
          /\ b = Abs!Image(S, Members(n)) /\ b # G
      BY <1>1, <1>6, <1>7, <2>1, <2>2, <3>1, <3>2
    <3> QED
      BY <1>11, <3>1, <3>2, <3>3
  <2>3. CASE m \in OwnNodes \ nodes /\ n = new
    <3>1. PICK c \in nodes : c \in Calls(children, m)
      BY <1>1, <1>4, <2>1, <2>3
    <3>2. c \in OwnNodes /\ b = Abs!Image(S, Members(c))
          /\ a = Abs!Image(S, Members(m)) /\ a # G
      BY <1>1, <1>6, <1>7, <2>1, <2>3, <3>1
    <3> QED
      BY <1>11, <2>3, <3>1, <3>2
  <2>4. CASE m \in OwnNodes \ nodes /\ n \in OwnNodes \ nodes
    <3>1. n \in Calls(children, m)
      BY <1>1, <2>1, <2>4
    <3>2. b = Abs!Image(S, Members(n))
          /\ a = Abs!Image(S, Members(m)) /\ a # G
      BY <1>6, <1>7, <2>1, <2>4
    <3> QED
      BY <1>11, <2>4, <3>1, <3>2
  <2> QED
    BY <1>1, <2>1, <2>2, <2>3, <2>4
<1>13. ASSUME NEW a, NEW b, <<a, b>> \in After
       PROVE  <<a, b>> \in GroupCalls'
  <2>1. /\ ~(a = G /\ b = G)
        /\ \E m, n \in OwnNodes : /\ n \in Calls(children, m)
                                  /\ a = Abs!Image(S, Members(m))
                                  /\ b = Abs!Image(S, Members(n))
    BY <1>11, <1>13
  <2>2. PICK m \in OwnNodes, n \in OwnNodes :
          /\ n \in Calls(children, m)
          /\ a = Abs!Image(S, Members(m)) /\ b = Abs!Image(S, Members(n))
    BY <2>1
  <2>3. CASE m \in nodes /\ n \in nodes
    BY <1>6, <2>1, <2>2, <2>3
  <2>4. CASE m \in nodes /\ n \notin nodes
    <3>1. n \in Calls(children', new) /\ new \in OwnNodes' /\ n \in OwnNodes'
      BY <1>1, <1>2, <2>2, <2>4
    <3>2. a = Members(new) /\ b = Members(n)
      BY <1>1, <1>6, <2>2, <2>4
    <3> QED
      BY <1>10, <3>1, <3>2
  <2>5. CASE m \notin nodes /\ n \in nodes
    <3>1. new \in Calls(children', m) /\ new \in OwnNodes' /\ m \in OwnNodes'
      BY <1>1, <2>2, <2>5
    <3>2. a = Members(m) /\ b = Members(new)
      BY <1>1, <1>6, <2>2, <2>5
    <3> QED
      BY <1>10, <3>1, <3>2
  <2>6. CASE m \notin nodes /\ n \notin nodes
    <3>1. n \in Calls(children', m) /\ n \in OwnNodes' /\ m \in OwnNodes'
      BY <1>1, <2>2, <2>6
    <3>2. a = Members(m) /\ b = Members(n)
      BY <1>6, <2>2, <2>6
    <3> QED
      BY <1>10, <3>1, <3>2
  <2> QED
    BY <2>3, <2>4, <2>5, <2>6
<1>14. GroupCalls' = Abs!CallsAfter(S)
  <2>1. \A e \in GroupCalls' : e = <<e[1], e[2]>>
    BY DEF GroupCalls
  <2>2. \A e \in After : e = <<e[1], e[2]>>
    BY DEF After
  <2>3. GroupCalls' = After
    BY <1>12, <1>13, <2>1, <2>2
  <2> QED
    BY <2>3 DEF After, G, Abs!CallsAfter
<1>15. BuiltCalls' = BuiltCalls
  <2>1. built' = built
    BY DEF Contract
  <2> QED
    BY <2>1 DEF BuiltCalls
<1> QED
  BY <1>8, <1>14, <1>15 DEF Abs!Merge, S

LEMMA StepRefines == ContractionIInv /\ [ContractionNext]_contractionVars => [Abs!Next]_(Abs!vars)
<1> SUFFICES ASSUME ContractionIInv, [ContractionNext]_contractionVars
             PROVE  Abs!Next \/ UNCHANGED <<BuiltCalls, Groups, GroupCalls>>
  BY DEF Abs!vars
<1>1. CASE UNCHANGED <<built, forest, children>>
  BY <1>1 DEF BuiltCalls, Groups, GroupCalls, NodeCalls, OwnNodes, InForest
<1>2. CASE Contract /\ ~HasId(forest, CombinedNode(Cycle))
  <2> DEFINE nodes == ToSet(Cycle)
             new == CombinedNode(Cycle)
             S == {Members(n) : n \in nodes}
  <2> HIDE DEF new
  <2>1. Abs!Merge(S)
    BY <1>2, ContractMerges DEF new
  <2>2. Abs!StronglyConnected(S)
    BY <1>2, CycleIsConnected DEF Contract
  <2>3. S \in SUBSET Groups
    <3>1. nodes \subseteq OwnNodes
      BY <1>2, ContractFacts DEF new
    <3> QED
      BY <3>1 DEF Groups
  <2> HIDE DEF S
  <2> QED
    BY <2>1, <2>2, <2>3 DEF Abs!Next
<1>3. CASE Contract /\ HasId(forest, CombinedNode(Cycle))
  BY <1>1, <1>3 DEF Contract
<1>4. CASE SkipRoot \/ StartSearch \/ TryLeaf \/ Descend \/ Backtrack
  BY <1>1, <1>4 DEF SkipRoot, StartSearch, TryLeaf, Descend, Backtrack
<1> QED
  BY <1>1, <1>2, <1>3, <1>4 DEF ContractionNext, contractionVars

(* The code merges one cycle after the other, and nothing but groups of    *)
(* functions that call each other (_contract_cycle, _update_pointers): it  *)
(* implements Condensation.                                                *)
THEOREM Refinement == ContractionSpec => ImplementsCondensation
<1>1. ContractionInit => Abs!Init
  BY ContractionInitIsStart, StartRefines
<1> QED
  BY <1>1, StepRefines, ContractionInductive, PTL DEF ContractionSpec, ImplementsCondensation, Abs!Spec
-----------------------------------------------------------------------------
(* What Condensation promises, and so _handle_cycles keeps.                *)
Condensed ==
  /\ Abs!TypeOK /\ Abs!Partition /\ Abs!CallsKept /\ Abs!CallsReal
  /\ Abs!GroupsCallEachOther

LEMMA CondensedInitially ==
  ASSUME Abs!Init
  PROVE  Condensed
<1>1. Abs!TypeOK
  BY DEF Abs!Init, Abs!TypeOK
<1>2. Abs!Partition
  BY DEF Abs!Init, Abs!Partition
<1>3. Abs!CallsKept
  BY DEF Abs!Init, Abs!CallsKept
<1>4. Abs!CallsReal
  <2>1. ASSUME NEW e \in BuiltCalls
        PROVE  e = <<e[1], e[2]>>
    BY DEF Abs!Init
  <2> QED
    BY <2>1 DEF Abs!Init, Abs!CallsReal
<1>5. Abs!GroupsCallEachOther
  BY DEF Abs!Init, Abs!GroupsCallEachOther
<1> QED
  BY <1>1, <1>2, <1>3, <1>4, <1>5 DEF Condensed

LEMMA MergeTypeOK ==
  ASSUME Abs!TypeOK, NEW S \in SUBSET Groups, Abs!Merge(S)
  PROVE  /\ Abs!TypeOK'
         /\ GroupCalls' = {<<Abs!Image(S, e[1]), Abs!Image(S, e[2])>> : e \in GroupCalls}
                       \ {<<UNION S, UNION S>>}
         /\ \A G \in Groups : Abs!Image(S, G) \in Groups' /\ G \subseteq Abs!Image(S, G)
         /\ Groups' = (Groups \ S) \cup {UNION S} /\ BuiltCalls' = BuiltCalls
<1>1. /\ GroupCalls' = {<<Abs!Image(S, e[1]), Abs!Image(S, e[2])>> : e \in GroupCalls}
                    \ {<<UNION S, UNION S>>}
      /\ Groups' = (Groups \ S) \cup {UNION S} /\ BuiltCalls' = BuiltCalls
  BY DEF Abs!Merge, Abs!GroupsAfter, Abs!CallsAfter
<1>2. \A G \in Groups : Abs!Image(S, G) \in Groups' /\ G \subseteq Abs!Image(S, G)
  BY <1>1 DEF Abs!Image
<1>3. Abs!TypeOK'
  <2>1. Groups' \subseteq SUBSET Defined
    BY <1>1 DEF Abs!TypeOK
  <2>2. GroupCalls' \subseteq Groups' \X Groups'
    BY <1>1, <1>2 DEF Abs!TypeOK
  <2> QED
    BY <1>1, <2>1, <2>2 DEF Abs!TypeOK
<1> QED
  BY <1>1, <1>2, <1>3

LEMMA MergePartition ==
  ASSUME Abs!TypeOK, Abs!Partition, NEW S \in SUBSET Groups, Abs!Merge(S)
  PROVE  Abs!Partition'
<1>1. Groups' = (Groups \ S) \cup {UNION S}
  BY MergeTypeOK
<1>2. UNION Groups' = Defined
  <2>1. ASSUME NEW v
        PROVE  v \in UNION Groups' <=> v \in UNION Groups
    BY <1>1
  <2>2. UNION Groups' = UNION Groups
    BY <2>1
  <2> QED
    BY <2>2 DEF Abs!Partition
<1>3. ASSUME NEW G \in Groups \ S
      PROVE  G \cap UNION S = {}
  BY DEF Abs!Partition
<1> QED
  BY <1>1, <1>2, <1>3 DEF Abs!Partition

(* The group of a function after the merge is the image of its group.      *)
LEMMA GroupOfMember ==
  ASSUME Abs!TypeOK, Abs!Partition, NEW S \in SUBSET Groups, Abs!Merge(S),
         NEW f, NEW G \in Groups, f \in G, NEW H \in Groups', f \in H
  PROVE  H = Abs!Image(S, G)
<1>1. Abs!Partition'
  BY MergePartition
<1>2. Abs!Image(S, G) \in Groups' /\ f \in Abs!Image(S, G)
  BY MergeTypeOK
<1> QED
  BY <1>1, <1>2 DEF Abs!Partition

LEMMA MergeCallsKept ==
  ASSUME Condensed, NEW S \in SUBSET Groups, Abs!Merge(S)
  PROVE  Abs!CallsKept'
<1> USE DEF Condensed
<1> SUFFICES ASSUME NEW e \in BuiltCalls', NEW G \in Groups', NEW H \in Groups',
                    e[1] \in G, e[2] \in H, G # H
             PROVE  <<G, H>> \in GroupCalls'
  BY DEF Abs!CallsKept
<1>1. e \in BuiltCalls /\ e[1] \in Defined /\ e[2] \in Defined
  BY MergeTypeOK DEF Abs!TypeOK
<1>2. PICK G0 \in Groups : e[1] \in G0
  BY <1>1 DEF Abs!Partition
<1>3. PICK H0 \in Groups : e[2] \in H0
  BY <1>1 DEF Abs!Partition
<1>4. G = Abs!Image(S, G0) /\ H = Abs!Image(S, H0)
  BY <1>2, <1>3, GroupOfMember
<1>5. <<G0, H0>> \in GroupCalls
  BY <1>1, <1>2, <1>3, <1>4 DEF Abs!CallsKept
<1>6. <<Abs!Image(S, G0), Abs!Image(S, H0)>>
        \in {<<Abs!Image(S, c[1]), Abs!Image(S, c[2])>> : c \in GroupCalls}
  BY <1>5
<1>7. <<G, H>> # <<UNION S, UNION S>>
  OBVIOUS
<1>8. GroupCalls' = {<<Abs!Image(S, c[1]), Abs!Image(S, c[2])>> : c \in GroupCalls}
                 \ {<<UNION S, UNION S>>}
  BY MergeTypeOK
<1> QED
  BY <1>4, <1>6, <1>7, <1>8

LEMMA MergeCallsReal ==
  ASSUME Condensed, NEW S \in SUBSET Groups, Abs!Merge(S)
  PROVE  Abs!CallsReal'
<1> USE DEF Condensed
<1> SUFFICES ASSUME NEW c \in GroupCalls'
             PROVE  \E f \in c[1], g \in c[2] : <<f, g>> \in BuiltCalls'
  BY DEF Abs!CallsReal
<1>1. PICK e \in GroupCalls : c = <<Abs!Image(S, e[1]), Abs!Image(S, e[2])>>
  BY MergeTypeOK
<1>2. e[1] \in Groups /\ e[2] \in Groups
  BY DEF Abs!TypeOK
<1>3. PICK f \in e[1], g \in e[2] : <<f, g>> \in BuiltCalls
  BY DEF Abs!CallsReal
<1>4. f \in Abs!Image(S, e[1]) /\ g \in Abs!Image(S, e[2]) /\ BuiltCalls' = BuiltCalls
  BY <1>2, <1>3, MergeTypeOK
<1> QED
  BY <1>1, <1>3, <1>4

(* If a closed set held only a part of the merged group, some of the       *)
(* groups in S would be inside it and some outside; a call leads from the  *)
(* ones to the others, and with it out of the closed set.                  *)
LEMMA MergeGroups ==
  ASSUME Condensed, NEW S \in SUBSET Groups, Abs!StronglyConnected(S), Abs!Merge(S)
  PROVE  Abs!GroupsCallEachOther'
<1> USE DEF Condensed
<1>1. Groups' = (Groups \ S) \cup {UNION S} /\ BuiltCalls' = BuiltCalls
  BY MergeTypeOK
<1> SUFFICES ASSUME NEW X \in SUBSET Defined, Abs!Closed(X),
                    NEW f \in X, f \in UNION S,
                    NEW h \in UNION S, h \notin X
             PROVE  FALSE
  <2>1. ASSUME NEW X \in SUBSET Defined
        PROVE  Abs!Closed(X)' <=> Abs!Closed(X)
    BY <1>1 DEF Abs!Closed
  <2>2. ASSUME NEW X \in SUBSET Defined, Abs!Closed(X), NEW G \in Groups \ S
        PROVE  G \subseteq X \/ G \cap X = {}
    BY <2>2 DEF Abs!GroupsCallEachOther
  <2> QED
    BY <1>1, <2>1, <2>2 DEF Abs!GroupsCallEachOther
<1> DEFINE T == {G \in S : G \subseteq X}
<1>2. \A G \in S : G \subseteq X \/ G \cap X = {}
  BY DEF Abs!GroupsCallEachOther
<1>3. T # {} /\ T # S /\ T \in SUBSET S
  BY <1>2
<1>4. PICK G \in T, H \in S \ T : <<G, H>> \in GroupCalls
  BY <1>3 DEF Abs!StronglyConnected
<1>5. PICK a \in G, b \in H : <<a, b>> \in BuiltCalls
  BY <1>4 DEF Abs!CallsReal
<1>6. b \in X
  BY <1>4, <1>5 DEF Abs!Closed
<1> QED
  BY <1>2, <1>4, <1>5, <1>6

LEMMA CondensedNext ==
  ASSUME Condensed, [Abs!Next]_(Abs!vars)
  PROVE  Condensed'
<1>1. ASSUME NEW S \in SUBSET Groups, Abs!StronglyConnected(S),
             Abs!Merge(S)
      PROVE  Condensed'
  <2>1. Abs!TypeOK' /\ Abs!Partition'
    BY <1>1, MergeTypeOK, MergePartition DEF Condensed
  <2>2. Abs!CallsKept' /\ Abs!CallsReal' /\ Abs!GroupsCallEachOther'
    BY <1>1, MergeCallsKept, MergeCallsReal, MergeGroups
  <2> QED
    BY <2>1, <2>2 DEF Condensed
<1>2. CASE BuiltCalls' = BuiltCalls /\ Groups' = Groups /\ GroupCalls' = GroupCalls
  <2>1. Abs!TypeOK' /\ Abs!Partition'
    BY <1>2 DEF Condensed, Abs!TypeOK, Abs!Partition
  <2>2. Abs!CallsKept' /\ Abs!CallsReal'
    BY <1>2 DEF Condensed, Abs!CallsKept, Abs!CallsReal
  <2>3. Abs!GroupsCallEachOther'
    BY <1>2 DEF Condensed, Abs!GroupsCallEachOther, Abs!Closed
  <2> QED
    BY <2>1, <2>2, <2>3 DEF Condensed
<1> QED
  BY <1>1, <1>2 DEF Abs!Next, Abs!vars

LEMMA CondensedInductive == ContractionSpec => []Condensed
<1>1. ContractionInit => Condensed
  BY ContractionInitIsStart, StartRefines, CondensedInitially
<1>2. ContractionIInv /\ Condensed /\ [ContractionNext]_contractionVars => Condensed'
  BY StepRefines, CondensedNext
<1> QED
  BY <1>1, <1>2, ContractionInductive, PTL DEF ContractionSpec

(* Combining nodes loses no function and puts none into two nodes: what    *)
(* delete_graph takes out of the forest, the combined node stands for.     *)
THEOREM OneGroupEach == ContractionSpec => [](Abs!TypeOK /\ Abs!Partition)
BY CondensedInductive, PTL DEF Condensed

(* Contraction forgets no call of the call graph and invents none          *)
(* (_contract_cycle and _update_pointers move every pointer).              *)
THEOREM CallsSurviveMerging == ContractionSpec => [](Abs!CallsKept /\ Abs!CallsReal)
BY CondensedInductive, PTL DEF Condensed

(* Whatever one function of a combined node can lead to, every function of *)
(* it can lead to: sharing one purity result blames nobody falsely.        *)
THEOREM SharedBlameIsDeserved == ContractionSpec => []Abs!GroupsCallEachOther
BY CondensedInductive, PTL DEF Condensed

-----------------------------------------------------------------------------
(* An activation of _process_node.                                         *)
Frame == [node : Node, next : Nat, acc : SUBSET Reason]

-----------------------------------------------------------------------------
(* The kinds of symbols and nodes do not overlap.                          *)
LEMMA Kinds ==
  /\ Function \cap Class = {} /\ Defined \cap External = {}
  /\ Combined \cap External = {} /\ Combined \cap Defined = {}
  /\ External \subseteq Node /\ Node = Defined \cup External \cup Combined
  /\ Import \cap Builtin = {} /\ External \subseteq Reason
<1> DEFINE kind == <<Function, Class, Import, Builtin, Parameter, Other>>
<1>1. \A i, j \in 1..6 : i # j => kind[i] \cap kind[j] = {}
  BY SymbolKinds
<1>2. /\ Function \cap Class = {} /\ Function \cap Import = {}
      /\ Function \cap Builtin = {} /\ Class \cap Import = {}
      /\ Class \cap Builtin = {} /\ Import \cap Builtin = {}
  BY <1>1
<1>3. Callable \cap Combined = {} /\ Unknown \notin Callable
  BY SymbolKinds, InferenceInputs
<1> QED
  BY <1>2, <1>3 DEF Defined, External, Node, Reason, Callable

LEMMA RootsHeadAndTail ==
  ASSUME NEW s \in Seq(Node), s # <<>>
  PROVE  ToSet(s) = {Head(s)} \cup ToSet(Tail(s)) /\ Head(s) \in ToSet(s)
<1> DEFINE n == Len(s)
           t == Tail(s)
<1>1. /\ n \in Nat \ {0} /\ DOMAIN s = 1..n /\ Head(s) = s[1]
      /\ DOMAIN t = 1..n - 1 /\ \A i \in 1..n - 1 : t[i] = s[i + 1]
  OBVIOUS
<1> HIDE DEF n, t
<1>2. /\ \A i \in 1..n : i = 1 \/ (i - 1 \in 1..n - 1 /\ i - 1 + 1 = i)
      /\ \A i \in 1..n - 1 : i + 1 \in 1..n
      /\ 1 \in 1..n
  BY <1>1
<1>3. ToSet(s) \subseteq {s[1]} \cup ToSet(t)
  <2> SUFFICES ASSUME NEW i \in 1..n, i # 1
               PROVE  s[i] \in ToSet(t)
    BY <1>1 DEF ToSet
  <2> DEFINE j == i - 1
  <2>1. j \in 1..n - 1 /\ j + 1 = i
    BY <1>2
  <2> HIDE DEF j
  <2>2. t[j] = s[i]
    BY <1>1, <2>1
  <2> QED
    BY <1>1, <2>1, <2>2 DEF ToSet
<1>4. {s[1]} \cup ToSet(t) \subseteq ToSet(s)
  <2>1. s[1] \in ToSet(s)
    BY <1>1, <1>2 DEF ToSet
  <2>2. ASSUME NEW i \in 1..n - 1
        PROVE  t[i] \in ToSet(s)
    <3>1. t[i] = s[i + 1] /\ i + 1 \in 1..n
      BY <1>1, <1>2
    <3> QED
      BY <1>1, <3>1 DEF ToSet
  <2> QED
    BY <1>1, <2>1, <2>2 DEF ToSet
<1> QED
  BY <1>1, <1>3, <1>4 DEF t, ToSet

LEMMA AppendFrame ==
  ASSUME NEW s \in Seq(Frame), NEW f \in Frame
  PROVE  /\ Append(s, f) \in Seq(Frame) /\ Len(Append(s, f)) = Len(s) + 1
         /\ \A i \in 1..Len(s) : Append(s, f)[i] = s[i]
         /\ Append(s, f)[Len(s) + 1] = f
  OBVIOUS

LEMMA FrontOfStack ==
  ASSUME NEW s \in Seq(Frame), s # <<>>
  PROVE  /\ Front(s) \in Seq(Frame) /\ Len(Front(s)) = Len(s) - 1
         /\ \A i \in 1..Len(s) - 1 : Front(s)[i] = s[i]
         /\ Last(s) = s[Len(s)] /\ Last(s) \in Frame
<1> DEFINE k == Len(s) - 1
           t == SubSeq(s, 1, k)
<1>1. k \in Nat /\ Len(s) \in 1..Len(s) /\ \A i \in 1..Len(s) : s[i] \in Frame
  OBVIOUS
<1>2. \A i \in 1..k : s[i] \in Frame
  BY <1>1
<1>3. /\ t \in Seq(Frame) /\ Len(t) = IF 1 <= k THEN k - 1 + 1 ELSE 0
      /\ \A i \in 1..k - 1 + 1 : t[i] = s[1 + i - 1]
  <2> HIDE DEF k
  <2> QED
    BY <1>1, <1>2, SubSeqProperties
<1>4. Len(t) = k /\ \A i \in 1..k : t[i] = s[i]
  <2> HIDE DEF k, t
  <2> QED
    BY <1>1, <1>3
<1>5. Front(s) = t /\ Last(s) = s[Len(s)]
  BY DEF Front, Last
<1> QED
  BY <1>1, <1>3, <1>4, <1>5

LEMMA AdvanceFrame ==
  ASSUME NEW s \in Seq(Frame), s # <<>>, NEW R \in SUBSET Reason
  PROVE  /\ Advance(s, R) \in Seq(Frame) /\ Len(Advance(s, R)) = Len(s)
         /\ \A i \in 1..Len(s) - 1 : Advance(s, R)[i] = s[i]
         /\ Advance(s, R)[Len(s)] =
              [node |-> s[Len(s)].node, next |-> s[Len(s)].next + 1,
               acc |-> s[Len(s)].acc \cup R]
<1> DEFINE n == Len(s)
           f == [node |-> s[n].node, next |-> s[n].next + 1,
                 acc |-> s[n].acc \cup R]
<1>1. n \in 1..Len(s) /\ s[n] \in Frame
  OBVIOUS
<1>2. f \in Frame
  BY <1>1 DEF Frame
<1>3. Advance(s, R) = [s EXCEPT ![n] = f]
  BY DEF Advance
<1> HIDE DEF f
<1>4. [s EXCEPT ![n] = f] \in Seq(Frame) /\ Len([s EXCEPT ![n] = f]) = Len(s)
  BY <1>1, <1>2, ExceptSeq
<1> QED
  BY <1>1, <1>2, <1>3, <1>4, ExceptSeq DEF f

-----------------------------------------------------------------------------
(* The inductive invariant.                                                *)
GraphOK ==
  WellContracted([forest |-> forest, children |-> children, reasons |-> reasons])

RootsOK == \A i \in DOMAIN roots : roots[i] \in InForest

RootWaits == stack # <<>> => roots # <<>>

OneFrameEach ==
  \A i, j \in DOMAIN stack : stack[i].node = stack[j].node => i = j

InferenceIInv ==
  /\ InferenceTypeOK /\ GraphOK /\ RootsOK /\ RootWaits /\ OneFrameEach
  /\ FramesInStep /\ NothingHidden

(* What the rest of the proofs uses of a well-formed call graph.           *)
LEMMA GraphFacts ==
  ASSUME GraphOK
  PROVE  /\ InForest \subseteq Node \ Builtin
         /\ reasons \in [Node -> SUBSET Reason]
         /\ \A n \in InForest : Unknown \notin reasons[n]
         /\ \A n \in InForest \cap Import :
              reasons[n] = {} /\ Calls(children, n) = {}
         /\ \A n \in InForest : n \in Combined => n.of \cap InForest = {}
         /\ \A n \in InForest :
              /\ Len(children[n]) \in Nat
              /\ Calls(children, n) = {children[n][j] : j \in 1..Len(children[n])}
              /\ \A j \in 1..Len(children[n]) :
                   children[n][j] \in InForest \cup Builtin
<1> DEFINE in == [forest |-> forest, children |-> children, reasons |-> reasons]
<1>1. /\ forest \in Seq(Node \ Builtin) /\ children \in [Node -> Seq(Node)]
      /\ reasons \in [Node -> SUBSET Callable]
      /\ \A n \in InForest : Calls(children, n) \subseteq InForest \cup Builtin
      /\ \A m, n \in InForest : m = n \/ Members(m) \cap Members(n) = {}
  BY DEF GraphOK, WellContracted, InForest
<1>6. ASSUME NEW n \in InForest, n \in Combined
      PROVE  n.of \cap InForest = {}
  <2> SUFFICES ASSUME NEW f \in n.of, f \in InForest
               PROVE  FALSE
    OBVIOUS
  <2>1. f \in Defined /\ f \notin Combined
    BY <1>6, Kinds DEF Combined
  <2>2. f \in Members(n) /\ f \in Members(f) /\ f # n
    BY <1>6, <2>1 DEF Members
  <2> QED
    BY <1>1, <1>6, <2>2
<1>2. InForest \subseteq Node \ Builtin
  BY <1>1 DEF InForest, ToSet
<1>3. ASSUME NEW n \in InForest
      PROVE  /\ Len(children[n]) \in Nat
             /\ Calls(children, n) = {children[n][j] : j \in 1..Len(children[n])}
             /\ \A j \in 1..Len(children[n]) :
                  children[n][j] \in InForest \cup Builtin
  <2>1. children[n] \in Seq(Node)
    BY <1>1, <1>2
  <2>2. Calls(children, n) = {children[n][j] : j \in 1..Len(children[n])}
    BY <2>1 DEF Calls, ToSet
  <2> QED
    BY <1>1, <2>1, <2>2
<1>4. /\ reasons \in [Node -> SUBSET Reason]
      /\ \A n \in InForest : Unknown \notin reasons[n]
  BY <1>1, <1>2, InferenceInputs DEF Reason
<1>5. \A n \in InForest \cap Import : reasons[n] = {} /\ Calls(children, n) = {}
  BY DEF GraphOK, WellContracted, InForest
<1> QED
  BY <1>1, <1>2, <1>3, <1>4, <1>5, <1>6

(* separate() leaves the results of the nodes in the forest alone.         *)
LEMMA SeparateKeepsForest ==
  ASSUME GraphOK, separated \subseteq Defined,
         NEW n \in InForest \cup Builtin, NEW known \in SUBSET Node,
         NEW res \in [Node -> SUBSET Reason], Separate(n, known, res)
  PROVE  /\ separated' \subseteq Defined /\ inferred' \subseteq Node
         /\ result' \in [Node -> SUBSET Reason]
         /\ \A m \in InForest :
              (m \in inferred' <=> m \in known) /\ result'[m] = res[m]
<1> DEFINE members == IF n \in Combined THEN n.of ELSE {}
<1>1. /\ separated' = separated \cup members
      /\ inferred' = IF n \in known THEN known \cup members ELSE known \ members
      /\ result' = [m \in Node |-> IF m \in members THEN res[n] ELSE res[m]]
  BY DEF Separate
<1>2. members \subseteq Defined
  BY DEF Combined
<1>3. members \cap InForest = {}
  BY GraphFacts, Kinds DEF External
<1>4. n \in Node /\ InForest \subseteq Node /\ Defined \subseteq Node
  BY GraphFacts, Kinds DEF External
<1> QED
  BY <1>1, <1>2, <1>3, <1>4

(* No node of the forest loses or changes its result.                      *)
ResultsKept ==
  \A m \in InForest : m \in inferred => m \in inferred' /\ result'[m] = result[m]

HidesNothing(n) ==
  /\ Unknown \in result[n] \/ reasons[n] \subseteq result[n]
  /\ \A c \in Calls(children, n) : Covers(result[n], c)

(* Only new results need a proof that they hide nothing.                   *)
LEMMA HiddenKept ==
  ASSUME GraphOK, UNCHANGED graph, ResultsKept, NothingHidden,
         \A m \in InForest : m \in inferred' /\ m \notin inferred => HidesNothing(m)'
  PROVE  NothingHidden'
<1>1. /\ InForest' = InForest /\ reasons' = reasons
      /\ \A n : Calls(children, n)' = Calls(children, n)
  BY DEF graph, InForest, Calls
<1>2. ASSUME NEW n \in InForest, n \in inferred PROVE HidesNothing(n)'
  <2>1. n \in inferred' /\ result'[n] = result[n] /\ HidesNothing(n)
    BY <1>2 DEF ResultsKept, NothingHidden, Inferred, HidesNothing
  <2>2. ASSUME NEW c \in Calls(children, n) PROVE Covers(result[n], c)'
    BY <2>1, GraphFacts DEF HidesNothing, Covers, ResultsKept, External
  <2> QED
    BY <1>1, <2>1, <2>2 DEF HidesNothing
<1> QED
  BY <1>1, <1>2 DEF NothingHidden, Inferred, HidesNothing

-----------------------------------------------------------------------------
(* FramesInStep, one activation at a time.                                 *)
FrameOK(i) ==
  LET frame == stack[i]
      kids == children[frame.node]
  IN  /\ frame.node \in visited \cap (InForest \ External)
      /\ frame.node \notin inferred
      /\ frame.next \in 1..Len(kids) + 1
      /\ \A j \in 1..frame.next - 1 : Covers(frame.acc, kids[j])

LinkOK(i) ==
  /\ stack[i].next <= Len(children[stack[i].node])
  /\ children[stack[i].node][stack[i].next] = stack[i + 1].node

LEMMA FrameByFrame ==
  FramesInStep <=> \A i \in DOMAIN stack : FrameOK(i) /\ (i < Len(stack) => LinkOK(i))
BY DEF FramesInStep, FrameOK, LinkOK

(* An activation that is not the top one, or only covers more, stays in    *)
(* step when results are kept.                                             *)
LEMMA FrameKept ==
  ASSUME GraphOK, UNCHANGED graph, ResultsKept, visited \subseteq visited',
         NEW i, FrameOK(i), stack'[i] = stack[i], stack[i].node \notin inferred'
  PROVE  FrameOK(i)'
<1>1. /\ InForest' = InForest /\ children' = children
  BY DEF graph, InForest
<1> DEFINE frame == stack[i]
           kids == children[frame.node]
<1>2. /\ frame.node \in InForest /\ frame.next \in 1..Len(kids) + 1
      /\ Len(kids) \in Nat
      /\ \A j \in 1..frame.next - 1 : kids[j] \in InForest \cup Builtin
  BY GraphFacts DEF FrameOK
<1>3. ASSUME NEW j \in 1..frame.next - 1
      PROVE  Covers(frame.acc, kids[j])'
  BY <1>1, <1>2 DEF FrameOK, Covers, ResultsKept, External
<1> QED
  BY <1>1, <1>2, <1>3 DEF FrameOK

(* The top activation moves on to the next child, once the reasons it adds *)
(* cover the current one.                                                  *)
LEMMA FrameAdvanced ==
  ASSUME GraphOK, UNCHANGED graph, ResultsKept, visited \subseteq visited',
         NEW i, FrameOK(i), stack[i].node \notin inferred',
         stack[i].next <= Len(children[stack[i].node]),
         NEW R,
         stack'[i] = [node |-> stack[i].node, next |-> stack[i].next + 1,
                      acc |-> stack[i].acc \cup R],
         NEW c, c = children[stack[i].node][stack[i].next],
         \/ Unknown \in R
         \/ IF c \in External THEN c \in R
            ELSE c \in inferred' /\ result'[c] \subseteq R
  PROVE  FrameOK(i)'
<1>1. /\ InForest' = InForest /\ children' = children
  BY DEF graph, InForest
<1> DEFINE frame == stack[i]
           kids == children[frame.node]
<1>2. /\ frame.node \in visited \cap (InForest \ External)
      /\ frame.next \in 1..Len(kids) /\ Len(kids) \in Nat
      /\ \A j \in 1..frame.next : kids[j] \in InForest \cup Builtin
  BY GraphFacts, SMTT(30) DEF FrameOK
<1>3. /\ stack'[i].node = frame.node /\ stack'[i].next = frame.next + 1
      /\ stack'[i].acc = frame.acc \cup R
  OBVIOUS
<1>4. ASSUME NEW j \in 1..frame.next
      PROVE  \/ Unknown \in frame.acc \cup R
             \/ IF kids[j] \in External THEN kids[j] \in frame.acc \cup R
                ELSE /\ kids[j] \in inferred'
                     /\ result'[kids[j]] \subseteq frame.acc \cup R
  <2>1. CASE j = frame.next
    BY <2>1
  <2>2. CASE j \in 1..frame.next - 1
    BY <1>2, <2>2 DEF FrameOK, Covers, ResultsKept, External
  <2> QED
    BY <1>2, <2>1, <2>2, SMTT(30)
<1>5. frame.next \in 1..Len(kids) /\ stack'[i].next \in 1..Len(kids) + 1
      /\ stack'[i].next - 1 = frame.next
  <2> HIDE DEF frame, kids
  <2> QED
    BY <1>2, <1>3
<1>6. children'[stack'[i].node] = kids
  BY <1>1, <1>3
<1>7. \A j \in 1..stack'[i].next - 1 :
        \/ Unknown \in stack'[i].acc
        \/ IF kids[j] \in External THEN kids[j] \in stack'[i].acc
           ELSE kids[j] \in inferred' /\ result'[kids[j]] \subseteq stack'[i].acc
  BY <1>3, <1>4, <1>5
<1>8. stack'[i].node \in visited' \cap (InForest' \ External) /\ stack'[i].node \notin inferred'
  BY <1>1, <1>2, <1>3
<1> HIDE DEF frame, kids
<1>9. /\ stack'[i].next \in 1..Len(children'[stack'[i].node]) + 1
      /\ \A j \in 1..stack'[i].next - 1 :
           \/ Unknown \in stack'[i].acc
           \/ IF children'[stack'[i].node][j] \in External
              THEN children'[stack'[i].node][j] \in stack'[i].acc
              ELSE /\ children'[stack'[i].node][j] \in inferred'
                   /\ result'[children'[stack'[i].node][j]] \subseteq stack'[i].acc
  BY <1>5, <1>6, <1>7
<1> QED
  BY <1>8, <1>9, Zenon DEF FrameOK, Covers

(* The answer of _process_node covers the child it is about.               *)
LEMMA AnswerCovers ==
  ASSUME NEW c, Known(c), NEW S, Answer(c) \subseteq S
  PROVE  Covers(S, c)
BY DEF Known, Answer, Covers

LEMMA AnswerType ==
  ASSUME InferenceTypeOK, NEW c \in Node
  PROVE  Answer(c) \subseteq Reason
BY Kinds DEF Answer, InferenceTypeOK, Reason

(* Entering _process_node for a node of the forest keeps the invariant.    *)
LEMMA PushKeeps ==
  ASSUME InferenceIInv, NEW n \in InForest, ~Known(n), Push(n),
         roots # <<>>, stack # <<>> => ChildrenLeft /\ Child = n
  PROVE  InferenceIInv'
<1> USE DEF InferenceIInv
<1> DEFINE f == [node |-> n, next |-> 1, acc |-> {}]
<1>1. /\ visited' = visited \cup {n} /\ stack' = Append(stack, f)
      /\ UNCHANGED <<graph, inferred, result, roots, separated, recorded,
                     marked, outcome>>
  BY DEF Push
<1>2. n \in Node /\ n \notin External /\ n \notin inferred /\ n \notin visited
  BY GraphFacts DEF Known
<1>3. f \in Frame /\ stack \in Seq(Frame)
  BY <1>2 DEF Frame, InferenceTypeOK
<1> HIDE DEF f
<1>4. /\ stack' \in Seq(Frame) /\ Len(stack') = Len(stack) + 1
      /\ \A i \in 1..Len(stack) : stack'[i] = stack[i]
      /\ stack'[Len(stack) + 1] = f
      /\ Len(stack) \in Nat /\ DOMAIN stack = 1..Len(stack)
      /\ DOMAIN stack' = 1..Len(stack) + 1
  BY <1>1, <1>3, AppendFrame
<1>5. InferenceTypeOK'
  BY <1>1, <1>2, <1>4 DEF InferenceTypeOK, Frame
<1>6. /\ GraphOK' /\ RootsOK' /\ RootWaits'
      /\ InForest' = InForest /\ children' = children
  <2>1. UNCHANGED <<forest, children, reasons, roots>>
    BY <1>1 DEF graph
  <2> QED
    BY <2>1 DEF GraphOK, RootsOK, RootWaits, InForest
<1>7. NothingHidden'
  <2>1. ResultsKept
    BY <1>1 DEF ResultsKept
  <2> QED
    BY <1>1, <2>1, HiddenKept
<1>8. FramesInStep'
  <2> SUFFICES ASSUME NEW i \in 1..Len(stack) + 1
               PROVE  FrameOK(i)' /\ (i < Len(stack) + 1 => LinkOK(i)')
    BY <1>4 DEF FramesInStep, FrameOK, LinkOK
  <2>1. CASE i \in 1..Len(stack)
    <3>1. FrameOK(i) /\ (i < Len(stack) => LinkOK(i))
      BY <1>4, <2>1, FrameByFrame
    <3>2. FrameOK(i)'
      BY <1>1, <1>4, <2>1, <3>1, FrameKept DEF FrameOK, ResultsKept
    <3>3. LinkOK(i)'
      BY <1>2, <1>3, <1>4, <1>6, <2>1, <3>1
      DEF LinkOK, ChildrenLeft, Child, Top, Last, f
    <3> QED
      BY <3>2, <3>3
  <2>2. CASE i = Len(stack) + 1
    BY <1>1, <1>2, <1>4, <1>6, <2>2 DEF FrameOK, f
  <2> QED
    BY <1>4, <2>1, <2>2
<1>9. OneFrameEach'
  <2>1. \A i \in 1..Len(stack) : stack[i].node \in visited
    BY <1>4, FrameByFrame DEF FrameOK
  <2> QED
    BY <1>2, <1>4, <2>1 DEF OneFrameEach, f
<1> QED
  BY <1>5, <1>6, <1>7, <1>8, <1>9

(* The activation at the top is within its children while any are left.    *)
LEMMA TopFacts ==
  ASSUME InferenceIInv, ChildrenLeft
  PROVE  /\ stack # <<>> /\ Len(stack) \in 1..Len(stack)
         /\ Top = stack[Len(stack)] /\ FrameOK(Len(stack))
         /\ Top.node \in InForest /\ Top.next \in 1..Len(children[Top.node])
         /\ Child \in InForest \cup Builtin
<1>1. stack # <<>> /\ Len(stack) \in 1..Len(stack) /\ DOMAIN stack = 1..Len(stack)
  BY DEF InferenceIInv, InferenceTypeOK, ChildrenLeft
<1>2. Top = stack[Len(stack)] /\ FrameOK(Len(stack))
  BY <1>1, FrameByFrame DEF InferenceIInv, Top, Last
<1>3. Top.node \in InForest /\ Top.next \in 1..Len(children[Top.node])
  BY <1>2, GraphFacts DEF InferenceIInv, ChildrenLeft, FrameOK
<1> QED
  BY <1>1, <1>2, <1>3, GraphFacts DEF InferenceIInv, Child

(* A child with an answer moves the activation on, and changes no result.  *)
LEMMA KnownChildEffect ==
  ASSUME InferenceIInv, KnownChild
  PROVE  /\ stack' \in Seq(Frame) /\ Len(stack') = Len(stack)
         /\ DOMAIN stack' = 1..Len(stack)
         /\ \A i \in 1..Len(stack) - 1 : stack'[i] = stack[i]
         /\ stack'[Len(stack)] =
              [node |-> Top.node, next |-> Top.next + 1,
               acc |-> Top.acc \cup Answer(Child)]
         /\ separated' \subseteq Defined /\ inferred' \subseteq Node
         /\ result' \in [Node -> SUBSET Reason]
         /\ \A m \in InForest :
              (m \in inferred' <=> m \in inferred) /\ result'[m] = result[m]
<1> USE DEF InferenceIInv
<1> DEFINE c == Child
           n == Len(stack)
           R == Answer(c)
<1>1. /\ ChildrenLeft /\ Known(c) /\ stack' = Advance(stack, R)
      /\ Separate(c, inferred, result)
      /\ UNCHANGED <<graph, visited, roots, recorded, marked, outcome>>
  BY DEF KnownChild
<1>2. /\ stack # <<>> /\ n \in 1..n /\ Top = stack[n] /\ FrameOK(n)
      /\ Top.node \in InForest /\ Top.next \in 1..Len(children[Top.node])
      /\ c \in InForest \cup Builtin
  BY <1>1, TopFacts
<1>3. c \in Node /\ R \in SUBSET Reason
  BY <1>2, GraphFacts, AnswerType, Kinds DEF External
<1>4. stack \in Seq(Frame) /\ DOMAIN stack = 1..n /\ n \in Nat
  BY DEF InferenceTypeOK, Frame
<1>5. /\ stack' \in Seq(Frame) /\ Len(stack') = n /\ DOMAIN stack' = 1..n
      /\ \A i \in 1..n - 1 : stack'[i] = stack[i]
      /\ stack'[n] = [node |-> Top.node, next |-> Top.next + 1, acc |-> Top.acc \cup R]
  BY <1>1, <1>2, <1>3, <1>4, AdvanceFrame
<1>6. /\ separated' \subseteq Defined /\ inferred' \subseteq Node
      /\ result' \in [Node -> SUBSET Reason]
      /\ \A m \in InForest :
           (m \in inferred' <=> m \in inferred) /\ result'[m] = result[m]
  <2>1. /\ separated \subseteq Defined /\ inferred \in SUBSET Node
        /\ result \in [Node -> SUBSET Reason] /\ GraphOK
    BY DEF InferenceTypeOK
  <2> HIDE DEF c, InferenceIInv
  <2> QED
    BY <1>1, <1>2, <2>1, SeparateKeepsForest
<1> QED
  BY <1>5, <1>6

(* A child with an answer: the activation covers one more child.           *)
LEMMA KnownChildKeeps ==
  ASSUME InferenceIInv, KnownChild
  PROVE  InferenceIInv'
<1> USE DEF InferenceIInv
<1> DEFINE c == Child
           n == Len(stack)
           R == Answer(c)
<1>1. /\ ChildrenLeft /\ Known(c) /\ stack' = Advance(stack, R)
      /\ Separate(c, inferred, result)
      /\ UNCHANGED <<graph, visited, roots, recorded, marked, outcome>>
  BY DEF KnownChild
<1>2. /\ stack # <<>> /\ n \in 1..n /\ Top = stack[n] /\ FrameOK(n)
      /\ Top.node \in InForest /\ Top.next \in 1..Len(children[Top.node])
      /\ c \in InForest \cup Builtin
  BY <1>1, TopFacts
<1>3. c \in Node /\ R \in SUBSET Reason
  BY <1>2, GraphFacts, AnswerType, Kinds DEF External
<1>4. stack \in Seq(Frame) /\ DOMAIN stack = 1..n /\ n \in Nat
  BY DEF InferenceTypeOK, Frame
<1>5. /\ stack' \in Seq(Frame) /\ Len(stack') = n /\ DOMAIN stack' = 1..n
      /\ \A i \in 1..n - 1 : stack'[i] = stack[i]
      /\ stack'[n] = [node |-> Top.node, next |-> Top.next + 1, acc |-> Top.acc \cup R]
  BY KnownChildEffect
<1>6. /\ separated' \subseteq Defined /\ inferred' \subseteq Node
      /\ result' \in [Node -> SUBSET Reason]
      /\ \A m \in InForest :
           (m \in inferred' <=> m \in inferred) /\ result'[m] = result[m]
  BY KnownChildEffect
<1>7. InferenceTypeOK'
  BY <1>1, <1>5, <1>6 DEF InferenceTypeOK, Frame
<1>8. /\ GraphOK' /\ RootsOK' /\ RootWaits'
      /\ InForest' = InForest /\ children' = children
  BY <1>1, <1>2 DEF GraphOK, RootsOK, RootWaits, graph, InForest
<1>9. ResultsKept /\ NothingHidden'
  BY <1>1, <1>6, HiddenKept DEF ResultsKept
<1>10. FramesInStep'
  <2> SUFFICES ASSUME NEW i \in 1..n
               PROVE  FrameOK(i)' /\ (i < n => LinkOK(i)')
    BY <1>5 DEF FramesInStep, FrameOK, LinkOK
  <2>1. FrameOK(i) /\ (i < n => LinkOK(i))
    BY <1>4, FrameByFrame
  <2>2. CASE i < n
    <3>1. stack'[i] = stack[i] /\ stack'[i + 1].node = stack[i + 1].node
      BY <1>2, <1>4, <1>5, <2>2
    <3>2. FrameOK(i)'
      BY <1>1, <1>6, <1>9, <2>1, <3>1, FrameKept DEF FrameOK
    <3> QED
      BY <1>8, <2>1, <2>2, <3>1, <3>2 DEF LinkOK
  <2>3. CASE i = n
    <3>1. \/ Unknown \in R
          \/ IF c \in External THEN c \in R
             ELSE c \in inferred' /\ result'[c] \subseteq R
      BY <1>1, <1>2, <1>6, AnswerCovers DEF Covers, External
    <3>2. /\ GraphOK /\ UNCHANGED graph /\ visited \subseteq visited'
          /\ FrameOK(i) /\ ResultsKept /\ stack[i].node \notin inferred'
          /\ stack[i].next <= Len(children[stack[i].node])
          /\ c = children[stack[i].node][stack[i].next]
      BY <1>1, <1>2, <1>6, <1>9, <2>3 DEF Child, FrameOK
    <3>4. stack'[i] = [node |-> stack[i].node, next |-> stack[i].next + 1,
                       acc |-> stack[i].acc \cup R]
      BY <1>2, <1>5, <2>3
    <3> HIDE DEF c, R, InferenceIInv
    <3>3. FrameOK(i)'
      BY <3>1, <3>2, <3>4, FrameAdvanced
    <3> QED
      BY <2>3, <3>3
  <2> QED
    BY <2>2, <2>3
<1>11. OneFrameEach'
  BY <1>2, <1>4, <1>5 DEF OneFrameEach
<1> QED
  BY <1>7, <1>8, <1>9, <1>10, <1>11

(* Recording a result keeps the types, and what is left of the roots.      *)
LEMMA RecordKeeps ==
  ASSUME InferenceIInv, InForest' = InForest, NEW n \in InForest, n \notin External,
         NEW res \in SUBSET Reason, Record(n, res), roots # <<>>
  PROVE  /\ recorded' \in [DOMAIN recorded' -> SUBSET Reason]
         /\ DOMAIN recorded' \subseteq Defined /\ marked' \subseteq Class
         /\ roots' \in Seq(Node) /\ RootsOK'
<1>1. /\ recorded \in [DOMAIN recorded -> SUBSET Reason] /\ DOMAIN recorded \subseteq Defined
      /\ marked \subseteq Class /\ roots \in Seq(Node) /\ RootsOK
  BY DEF InferenceIInv, InferenceTypeOK
<1>2. n \in Defined \/ n \in Combined
  BY GraphFacts, Kinds DEF InferenceIInv
<1>3. /\ recorded' \in [DOMAIN recorded' -> SUBSET Reason]
      /\ DOMAIN recorded' \subseteq Defined
  BY <1>1, <1>2 DEF Record
<1>4. marked' \subseteq Class /\ roots' = Tail(roots)
  BY <1>1 DEF Record
<1>5. roots' \in Seq(Node) /\ \A i \in DOMAIN roots' : roots'[i] = roots[i + 1] /\ i + 1 \in DOMAIN roots
  BY <1>1, <1>4
<1> QED
  BY <1>1, <1>3, <1>4, <1>5 DEF RootsOK

(* The activation at the top works for a node without a result.            *)
LEMMA TopIsOpen ==
  ASSUME InferenceIInv, stack # <<>>
  PROVE  Top.node \notin inferred /\ Top.node \in InForest /\ FrameOK(Len(stack))
<1>1. Len(stack) \in DOMAIN stack
  BY DEF InferenceIInv, InferenceTypeOK
<1>2. FramesInStep
  BY DEF InferenceIInv
<1>3. FrameOK(Len(stack))
  BY <1>1, <1>2, FrameByFrame
<1>4. \A i \in DOMAIN stack : stack[i].node \notin inferred /\ stack[i].node \in InForest
  BY <1>2 DEF FramesInStep
<1>5. Top.node \notin inferred /\ Top.node \in InForest
  BY <1>1, <1>4 DEF Top, Last
<1> QED
  BY <1>3, <1>5

(* The end of an activation gives its node a result and the others none,   *)
(* and moves the activation below on.                                      *)
LEMMA ReturnEffect ==
  ASSUME InferenceIInv, Return
  PROVE  /\ Len(stack) \in 1..Len(stack) /\ Top = stack[Len(stack)]
         /\ Top.node \in InForest /\ Top.node \notin External
         /\ separated' \subseteq Defined /\ inferred' \subseteq Node
         /\ result' \in [Node -> SUBSET Reason]
         /\ \A m \in InForest :
              /\ m \in inferred' <=> m \in inferred \/ m = Top.node
              /\ result'[m] = IF m = Top.node THEN reasons[Top.node] \cup Top.acc
                                              ELSE result[m]
         /\ Len(stack) = 1 => stack' = <<>>
         /\ Len(stack) # 1 =>
              /\ Len(stack) - 1 \in 1..Len(stack) - 1
              /\ stack' \in Seq(Frame) /\ Len(stack') = Len(stack) - 1
              /\ DOMAIN stack' = 1..Len(stack) - 1
              /\ \A i \in 1..Len(stack) - 2 : stack'[i] = stack[i]
              /\ stack'[Len(stack) - 1] =
                   [node |-> stack[Len(stack) - 1].node,
                    next |-> stack[Len(stack) - 1].next + 1,
                    acc |-> stack[Len(stack) - 1].acc
                              \cup (reasons[Top.node] \cup Top.acc)]
<1> USE DEF InferenceIInv
<1> DEFINE n == Len(stack)
           node == Top.node
           kids == children[node]
           res == reasons[node] \cup Top.acc
<1>1. /\ stack # <<>> /\ ~ChildrenLeft
      /\ Separate(node, inferred \cup {node}, [result EXCEPT ![node] = res])
      /\ UNCHANGED <<graph, visited, outcome>>
  BY DEF Return
<1>2. /\ stack \in Seq(Frame) /\ DOMAIN stack = 1..n /\ n \in 1..n /\ n \in Nat
  BY <1>1 DEF InferenceTypeOK, Frame
<1>3. Top = stack[n] /\ FrameOK(n) /\ Top \in Frame
  BY <1>2, FrameByFrame DEF Top, Last
<1>4. /\ node \in InForest /\ node \in visited /\ node \notin External
      /\ node \notin inferred /\ node \in Node
      /\ Top.next = Len(kids) + 1 /\ Len(kids) \in Nat
  BY <1>1, <1>3, GraphFacts, Kinds DEF FrameOK, ChildrenLeft
<1>5. \A j \in 1..Len(kids) : Covers(Top.acc, kids[j]) /\ kids[j] \in InForest \cup Builtin
  BY <1>3, <1>4, GraphFacts DEF FrameOK
<1>6. res \in SUBSET Reason
  BY <1>3, <1>4, GraphFacts DEF Frame
<1>7. /\ separated' \subseteq Defined /\ inferred' \subseteq Node
      /\ result' \in [Node -> SUBSET Reason]
      /\ \A m \in InForest :
           /\ m \in inferred' <=> m \in inferred \/ m = node
           /\ result'[m] = IF m = node THEN res ELSE result[m]
  <2>1. /\ separated \subseteq Defined /\ inferred \cup {node} \in SUBSET Node
        /\ [result EXCEPT ![node] = res] \in [Node -> SUBSET Reason] /\ GraphOK
    BY <1>4, <1>6 DEF InferenceTypeOK
  <2>2. \A m \in InForest : m \in Node /\
          [result EXCEPT ![node] = res][m] = IF m = node THEN res ELSE result[m]
    BY <1>4, <1>6, GraphFacts DEF InferenceTypeOK
  <2> DEFINE known == inferred \cup {node}
             given == [result EXCEPT ![node] = res]
  <2> HIDE DEF node, res, known, given, InferenceIInv
  <2>3. /\ separated' \subseteq Defined /\ inferred' \subseteq Node
        /\ result' \in [Node -> SUBSET Reason]
        /\ \A m \in InForest : (m \in inferred' <=> m \in known) /\ result'[m] = given[m]
    <3>1. node \in InForest \cup Builtin
      BY <1>4
    <3>2. known \in SUBSET Node /\ given \in [Node -> SUBSET Reason] /\ Separate(node, known, given)
      BY <1>1, <2>1 DEF known, given
    <3>3. GraphOK /\ separated \subseteq Defined
      BY <2>1
    <3> HIDE DEF n, kids
    <3> QED
      BY <3>1, <3>2, <3>3, SeparateKeepsForest
  <2> QED
    BY <2>2, <2>3 DEF known, given
<1>8. n = 1 => stack' = <<>>
  BY DEF Return
<1>9. ASSUME n # 1
      PROVE  /\ n - 1 \in 1..n - 1
             /\ stack' \in Seq(Frame) /\ Len(stack') = n - 1
             /\ DOMAIN stack' = 1..n - 1
             /\ \A i \in 1..n - 2 : stack'[i] = stack[i]
             /\ stack'[n - 1] = [node |-> stack[n - 1].node,
                                 next |-> stack[n - 1].next + 1,
                                 acc |-> stack[n - 1].acc \cup res]
  <2>1. /\ stack' = Advance(Front(stack), res)
        /\ UNCHANGED <<recorded, marked, roots>>
    BY <1>1, <1>9 DEF Return
  <2> DEFINE k == n - 1
  <2>2. /\ Front(stack) \in Seq(Frame) /\ Front(stack) # <<>> /\ Len(Front(stack)) = k
        /\ k \in 1..k /\ \A i \in 1..k : Front(stack)[i] = stack[i]
    <3>1. k \in 1..k
      <4> HIDE DEF InferenceIInv
      <4>1. n \in 1..n /\ n \in Nat /\ n # 1
        BY <1>2, <1>9
      <4> HIDE DEF n
      <4> QED
        BY <4>1
    <3>2. /\ Front(stack) \in Seq(Frame) /\ Len(Front(stack)) = k
          /\ \A i \in 1..k : Front(stack)[i] = stack[i]
      BY <1>1, <1>2, FrontOfStack
    <3>3. Front(stack) # <<>>
      <4> HIDE DEF k
      <4>1. \A s \in Seq(Frame) : Len(s) = k => s # <<>>
        BY <3>1
      <4> QED
        BY <3>2, <4>1
    <3> QED
      BY <3>1, <3>2, <3>3
  <2>3. /\ stack' \in Seq(Frame) /\ Len(stack') = k /\ DOMAIN stack' = 1..k
        /\ \A i \in 1..k - 1 : stack'[i] = stack[i]
        /\ stack'[k] = [node |-> stack[k].node, next |-> stack[k].next + 1,
                        acc |-> stack[k].acc \cup res]
    <3> HIDE DEF k, res
    <3>1. /\ Advance(Front(stack), res) \in Seq(Frame)
          /\ Len(Advance(Front(stack), res)) = k
          /\ \A i \in 1..k - 1 : Advance(Front(stack), res)[i] = Front(stack)[i]
          /\ Advance(Front(stack), res)[k] =
               [node |-> Front(stack)[k].node, next |-> Front(stack)[k].next + 1,
                acc |-> Front(stack)[k].acc \cup res]
      BY <1>6, <2>2, AdvanceFrame
    <3>2. \A i \in 1..k - 1 : i \in 1..k
      BY <2>2
    <3>3. stack' \in Seq(Frame) /\ Len(stack') = k
      BY <2>1, <3>1
    <3>4. DOMAIN stack' = 1..k
      BY <3>3
    <3>5. \A i \in 1..k - 1 : stack'[i] = stack[i]
      BY <2>1, <2>2, <3>1, <3>2
    <3>6. Front(stack)[k] = stack[k]
      BY <2>2
    <3> QED
      BY <2>1, <3>1, <3>3, <3>4, <3>5, <3>6
  <2>4. k - 1 = n - 2
    BY <1>2
  <2> HIDE DEF res
  <2> QED
    BY <2>2, <2>3, <2>4
<1> HIDE DEF InferenceIInv
<1> QED
  BY <1>2, <1>3, <1>4, <1>7, <1>8, <1>9

(* All children are covered, so the new result hides nothing.              *)
LEMMA ReturnKeeps ==
  ASSUME InferenceIInv, Return
  PROVE  InferenceIInv'
<1> USE DEF InferenceIInv
<1> DEFINE n == Len(stack)
           node == Top.node
           kids == children[node]
           res == reasons[node] \cup Top.acc
<1>1. /\ stack # <<>> /\ ~ChildrenLeft
      /\ Separate(node, inferred \cup {node}, [result EXCEPT ![node] = res])
      /\ UNCHANGED <<graph, visited, outcome>>
  BY DEF Return
<1>2. /\ stack \in Seq(Frame) /\ DOMAIN stack = 1..n /\ n \in 1..n /\ n \in Nat
  BY <1>1 DEF InferenceTypeOK, Frame
<1>3. Top = stack[n] /\ FrameOK(n) /\ Top \in Frame
  BY <1>2, FrameByFrame DEF Top, Last
<1>4. /\ node \in InForest /\ node \in visited /\ node \notin External
      /\ node \notin inferred /\ node \in Node
      /\ Top.next = Len(kids) + 1 /\ Len(kids) \in Nat
  BY <1>1, <1>3, GraphFacts, Kinds DEF FrameOK, ChildrenLeft
<1>5. \A j \in 1..Len(kids) : Covers(Top.acc, kids[j]) /\ kids[j] \in InForest \cup Builtin
  BY <1>3, <1>4, GraphFacts DEF FrameOK
<1>6. res \in SUBSET Reason
  BY <1>3, <1>4, GraphFacts DEF Frame
<1>7. /\ separated' \subseteq Defined /\ inferred' \subseteq Node
      /\ result' \in [Node -> SUBSET Reason]
      /\ \A m \in InForest :
           /\ m \in inferred' <=> m \in inferred \/ m = node
           /\ result'[m] = IF m = node THEN res ELSE result[m]
  BY ReturnEffect
<1>8. ResultsKept
  BY <1>4, <1>7 DEF ResultsKept
<1>9. GraphOK' /\ InForest' = InForest /\ children' = children /\ reasons' = reasons
  BY <1>1 DEF GraphOK, graph, InForest
<1>10. NothingHidden'
  <2>1. ASSUME NEW c \in Calls(children, node)
        PROVE  \/ Unknown \in res
               \/ IF c \in External THEN c \in res
                  ELSE c \in inferred' /\ result'[c] \subseteq res
    <3>1. Covers(Top.acc, c) /\ c \in InForest \cup Builtin
      BY <1>4, <1>5, GraphFacts
    <3> QED
      BY <1>4, <1>7, <3>1 DEF Covers, External
  <2>2. ASSUME NEW m \in InForest, m \in inferred', m \notin inferred
        PROVE  HidesNothing(m)'
    <3>1. m = node /\ result'[m] = res
      BY <1>7, <2>2
    <3>2. Calls(children, m)' = Calls(children, m)
      BY <1>9 DEF Calls
    <3> HIDE DEF res, node
    <3>3. \A c \in Calls(children, m) :
             \/ Unknown \in result'[m]
             \/ IF c \in External THEN c \in result'[m]
                ELSE c \in inferred' /\ result'[c] \subseteq result'[m]
      BY <2>1, <3>1
    <3>4. reasons[m] \subseteq res
      BY <3>1 DEF res, node
    <3> QED
      BY <1>9, <3>1, <3>2, <3>3, <3>4 DEF HidesNothing, Covers
  <2> QED
    BY <1>1, <1>8, <2>2, HiddenKept
<1>11. CASE n = 1
  <2>1. stack' = <<>> /\ Record(node, res)
    BY <1>1, <1>11 DEF Return
  <2>2. /\ recorded' \in [DOMAIN recorded' -> SUBSET Reason]
        /\ DOMAIN recorded' \subseteq Defined /\ marked' \subseteq Class
        /\ roots' \in Seq(Node) /\ RootsOK'
    BY <1>1, <1>4, <1>6, <1>9, <2>1, RecordKeeps DEF RootWaits
  <2>5. stack' \in Seq(Frame) /\ RootWaits'
    BY <2>1 DEF RootWaits
  <2>4. InferenceTypeOK'
    <3>1. visited' \subseteq Node /\ outcome' \in {"running", "failed", "done"}
      BY <1>1 DEF InferenceTypeOK
    <3> HIDE DEF InferenceIInv
    <3> QED
      BY <1>7, <2>2, <2>5, <3>1 DEF InferenceTypeOK, Frame
  <2>3. FramesInStep' /\ OneFrameEach'
    BY <2>1 DEF FramesInStep, OneFrameEach
  <2> QED
    BY <1>9, <1>10, <2>2, <2>3, <2>4, <2>5
<1>12. CASE n # 1
  <2>1. /\ stack' = Advance(Front(stack), res)
        /\ UNCHANGED <<recorded, marked, roots>>
    BY <1>1, <1>12 DEF Return
  <2> DEFINE k == n - 1
  <2>2. k \in 1..k
    BY <1>2, <1>12
  <2>3. /\ stack' \in Seq(Frame) /\ Len(stack') = k /\ DOMAIN stack' = 1..k
        /\ \A i \in 1..k - 1 : stack'[i] = stack[i]
        /\ stack'[k] = [node |-> stack[k].node, next |-> stack[k].next + 1,
                        acc |-> stack[k].acc \cup res]
    <3> HIDE DEF InferenceIInv
    <3>1. k - 1 = n - 2
      BY <1>2
    <3> QED
      BY <1>12, <3>1, ReturnEffect
  <2>4. \A i \in 1..k : FrameOK(i) /\ LinkOK(i) /\ stack[i].node # node
    BY <1>2, <1>3, <1>12, FrameByFrame DEF OneFrameEach
  <2>5. InferenceTypeOK' /\ RootsOK' /\ RootWaits'
    BY <1>1, <1>7, <1>9, <2>1, <2>3 DEF InferenceTypeOK, RootsOK, RootWaits, Frame
  <2>6. FramesInStep'
    <3> SUFFICES ASSUME NEW i \in 1..k
                 PROVE  FrameOK(i)' /\ (i < k => LinkOK(i)')
      BY <2>3 DEF FramesInStep, FrameOK, LinkOK
    <3>1. FrameOK(i) /\ LinkOK(i) /\ stack[i].node \notin inferred'
      BY <1>7, <2>4 DEF FrameOK
    <3>2. CASE i < k
      <4>1. stack'[i] = stack[i] /\ stack'[i + 1].node = stack[i + 1].node
        BY <2>2, <2>3, <3>2
      <4>2. FrameOK(i)'
        BY <1>1, <1>8, <3>1, <4>1, FrameKept
      <4> QED
        BY <1>9, <3>1, <4>1, <4>2 DEF LinkOK
    <3>3. CASE i = k
      <4>1. /\ stack[i].next <= Len(children[stack[i].node])
            /\ node = children[stack[i].node][stack[i].next]
            /\ node \in inferred' /\ result'[node] \subseteq res
        BY <1>2, <1>3, <1>4, <1>7, <3>1, <3>3 DEF LinkOK
      <4>2. stack'[i] = [node |-> stack[i].node, next |-> stack[i].next + 1,
                        acc |-> stack[i].acc \cup res]
        BY <2>3, <3>3
      <4>3. GraphOK /\ UNCHANGED graph /\ visited \subseteq visited' /\ node \notin External
        BY <1>1, <1>4
      <4> HIDE DEF node, res, InferenceIInv
      <4>4. FrameOK(i)'
        BY <1>8, <3>1, <4>1, <4>2, <4>3, FrameAdvanced
      <4> QED
        BY <3>3, <4>4
    <3> QED
      BY <3>2, <3>3
  <2>7. OneFrameEach'
    <3>1. \A i \in 1..k : stack'[i].node = stack[i].node
      BY <2>2, <2>3
    <3> QED
      BY <1>2, <2>3, <3>1 DEF OneFrameEach
  <2> QED
    BY <1>9, <1>10, <2>5, <2>6, <2>7
<1> QED
  BY <1>11, <1>12

(* A root with an answer changes no result.                                *)
LEMMA KnownRootEffect ==
  ASSUME InferenceIInv, KnownRoot
  PROVE  /\ separated' \subseteq Defined /\ inferred' \subseteq Node
         /\ result' \in [Node -> SUBSET Reason]
         /\ \A m \in InForest :
              (m \in inferred' <=> m \in inferred) /\ result'[m] = result[m]
<1> USE DEF InferenceIInv
<1> DEFINE n == Head(roots)
<1>1. /\ stack = <<>> /\ roots # <<>> /\ n \notin Import /\ Known(n)
      /\ Record(n, Answer(n)) /\ Separate(n, inferred, result)
      /\ UNCHANGED <<graph, visited, stack, outcome>>
  BY DEF KnownRoot, Idle
<1>2. n \in InForest
  BY <1>1 DEF InferenceTypeOK, RootsOK
<1>3. /\ separated' \subseteq Defined /\ inferred' \subseteq Node
      /\ result' \in [Node -> SUBSET Reason]
      /\ \A m \in InForest :
           (m \in inferred' <=> m \in inferred) /\ result'[m] = result[m]
  <2>1. /\ separated \subseteq Defined /\ inferred \in SUBSET Node
        /\ result \in [Node -> SUBSET Reason] /\ GraphOK /\ n \in InForest \cup Builtin
    BY <1>2 DEF InferenceTypeOK
  <2>2. ASSUME NEW x \in InForest \cup Builtin, Separate(x, inferred, result)
        PROVE  /\ separated' \subseteq Defined /\ inferred' \subseteq Node
               /\ result' \in [Node -> SUBSET Reason]
               /\ \A m \in InForest :
                    (m \in inferred' <=> m \in inferred) /\ result'[m] = result[m]
    BY <2>1, <2>2, SeparateKeepsForest
  <2> HIDE DEF n, InferenceIInv
  <2> QED
    BY <1>1, <2>1, <2>2
<1> QED
  BY <1>3

(* A root that already has a result is only recorded.                      *)
LEMMA KnownRootKeeps ==
  ASSUME InferenceIInv, KnownRoot
  PROVE  InferenceIInv'
<1> USE DEF InferenceIInv
<1> DEFINE n == Head(roots)
<1>1. /\ stack = <<>> /\ roots # <<>> /\ n \notin Import /\ Known(n)
      /\ Record(n, Answer(n)) /\ Separate(n, inferred, result)
      /\ UNCHANGED <<graph, visited, stack, outcome>>
  BY DEF KnownRoot, Idle
<1>2. n \in InForest
  BY <1>1 DEF InferenceTypeOK, RootsOK
<1>3. n \in Node /\ n \notin External /\ Answer(n) \in SUBSET Reason
  BY <1>1, <1>2, GraphFacts, AnswerType DEF External
<1>4. /\ GraphOK' /\ InForest' = InForest
      /\ FramesInStep' /\ OneFrameEach' /\ RootWaits'
  BY <1>1 DEF GraphOK, graph, InForest, FramesInStep, OneFrameEach, RootWaits
<1>5. /\ separated' \subseteq Defined /\ inferred' \subseteq Node
      /\ result' \in [Node -> SUBSET Reason]
      /\ \A m \in InForest :
           (m \in inferred' <=> m \in inferred) /\ result'[m] = result[m]
  BY KnownRootEffect
<1>6. /\ recorded' \in [DOMAIN recorded' -> SUBSET Reason]
      /\ DOMAIN recorded' \subseteq Defined /\ marked' \subseteq Class
      /\ roots' \in Seq(Node) /\ RootsOK'
  BY <1>1, <1>2, <1>3, <1>4, RecordKeeps
<1>7. InferenceTypeOK'
  BY <1>1, <1>5, <1>6 DEF InferenceTypeOK
<1>8. NothingHidden'
  BY <1>1, <1>5, HiddenKept DEF ResultsKept
<1> QED
  BY <1>4, <1>6, <1>7, <1>8

(* The steps that touch no result.                                         *)
LEMMA SkipImportKeeps ==
  ASSUME InferenceIInv, SkipImport
  PROVE  InferenceIInv'
<1> USE DEF InferenceIInv
<1>1. /\ stack = <<>> /\ roots # <<>> /\ roots' = Tail(roots)
      /\ UNCHANGED <<graph, inferred, result, visited, stack, separated,
                     recorded, marked, outcome>>
  BY DEF SkipImport, Idle
<1>2. roots' \in Seq(Node) /\ RootsOK'
  <2>1. roots \in Seq(Node) /\ RootsOK /\ InForest' = InForest
    BY <1>1 DEF InferenceTypeOK, InForest, graph
  <2>2. \A i \in DOMAIN roots' : roots'[i] = roots[i + 1] /\ i + 1 \in DOMAIN roots
    BY <1>1, <2>1
  <2> QED
    BY <1>1, <2>1, <2>2 DEF RootsOK
<1>3. InferenceTypeOK'
  BY <1>1, <1>2 DEF InferenceTypeOK
<1>4. GraphOK' /\ FramesInStep' /\ OneFrameEach' /\ RootWaits'
  BY <1>1 DEF GraphOK, graph, FramesInStep, OneFrameEach, RootWaits
<1>5. NothingHidden'
  BY <1>1, HiddenKept DEF ResultsKept
<1> QED
  BY <1>2, <1>3, <1>4, <1>5

LEMMA FinishKeeps ==
  ASSUME InferenceIInv, Finish
  PROVE  InferenceIInv'
<1> USE DEF InferenceIInv
<1>1. /\ stack = <<>> /\ outcome' \in {"done", "failed"}
      /\ \/ UNCHANGED recorded
         \/ recorded' = [f \in DOMAIN recorded \cup separated |->
                           IF f \in separated THEN result[f] ELSE recorded[f]]
      /\ UNCHANGED <<graph, inferred, result, visited, roots, stack, separated, marked>>
  BY DEF Finish
<1>2. /\ recorded' \in [DOMAIN recorded' -> SUBSET Reason]
      /\ DOMAIN recorded' \subseteq Defined
  BY <1>1, Kinds DEF InferenceTypeOK
<1>3. InferenceTypeOK'
  BY <1>1, <1>2 DEF InferenceTypeOK
<1>4. GraphOK' /\ RootsOK' /\ FramesInStep' /\ OneFrameEach' /\ RootWaits'
  BY <1>1 DEF GraphOK, graph, RootsOK, InForest, FramesInStep, OneFrameEach, RootWaits
<1>5. NothingHidden'
  BY <1>1, HiddenKept DEF ResultsKept
<1> QED
  BY <1>3, <1>4, <1>5

LEMMA StutterKeeps ==
  ASSUME InferenceIInv, UNCHANGED inferenceVars
  PROVE  InferenceIInv'
<1> USE DEF InferenceIInv
<1>1. /\ UNCHANGED <<forest, children, reasons>>
      /\ UNCHANGED <<inferred, result, visited, roots, stack, separated,
                     recorded, marked, outcome>>
  BY DEF inferenceVars, graph
<1>2. InferenceTypeOK' /\ GraphOK' /\ RootsOK' /\ OneFrameEach' /\ RootWaits'
  BY <1>1 DEF InferenceTypeOK, GraphOK, RootsOK, OneFrameEach, RootWaits, InForest
<1>3. FramesInStep' /\ NothingHidden'
  BY <1>1 DEF FramesInStep, NothingHidden, Covers, Inferred, InForest, Calls
<1> QED
  BY <1>2, <1>3

(* It holds as soon as the cycles are contracted, whatever graph is left.  *)
LEMMA InferenceStarts == StartInference /\ GraphOK => InferenceIInv
<1> SUFFICES ASSUME StartInference, GraphOK PROVE InferenceIInv
  OBVIOUS
<1>3. /\ inferred = {} /\ result = [n \in Node |-> {}] /\ visited = {}
      /\ stack = <<>> /\ separated = {} /\ recorded = <<>> /\ marked = {}
      /\ roots = forest /\ outcome = "running"
  BY DEF StartInference
<1>4. roots \in Seq(Node) /\ RootsOK
  BY <1>3 DEF GraphOK, WellContracted, RootsOK, InForest, ToSet
<1>5. InferenceTypeOK
  BY <1>3, <1>4 DEF InferenceTypeOK
<1>6. FramesInStep /\ OneFrameEach /\ RootWaits /\ NothingHidden
  BY <1>3 DEF FramesInStep, OneFrameEach, RootWaits, NothingHidden, Inferred
<1> QED
  BY <1>4, <1>5, <1>6 DEF InferenceIInv

LEMMA InferenceInitIsStart == InferenceInit => StartInference /\ GraphOK
<1> SUFFICES ASSUME InferenceInit PROVE StartInference /\ GraphOK
  OBVIOUS
<1>1. PICK in \in ContractedGraphs :
        forest = in.forest /\ children = in.children /\ reasons = in.reasons
  BY DEF InferenceInit
<1>2. GraphOK
  BY <1>1, InferenceInputs DEF GraphOK, WellContracted
<1> QED
  BY <1>2 DEF InferenceInit

LEMMA InferenceStep == InferenceIInv /\ [InferenceNext]_inferenceVars => InferenceIInv'
<1> SUFFICES ASSUME InferenceIInv, [InferenceNext]_inferenceVars PROVE InferenceIInv'
  OBVIOUS
<1>1. CASE SkipImport
  BY <1>1, SkipImportKeeps
<1>2. CASE KnownRoot
  BY <1>2, KnownRootKeeps
<1>3. CASE EnterRoot
  <2>1. Head(roots) \in InForest /\ stack = <<>> /\ roots # <<>>
    BY <1>3 DEF EnterRoot, Idle, InferenceIInv, InferenceTypeOK, RootsOK
  <2> QED
    BY <1>3, <2>1, PushKeeps DEF EnterRoot
<1>4. CASE KnownChild
  BY <1>4, KnownChildKeeps
<1>5. CASE EnterChild
  <2>1. Child \in InForest /\ stack # <<>> /\ roots # <<>>
    BY <1>5, TopFacts DEF EnterChild, InferenceIInv, RootWaits, Known, External
  <2> QED
    BY <1>5, <2>1, PushKeeps DEF EnterChild
<1>6. CASE Return
  BY <1>6, ReturnKeeps
<1>7. CASE Finish
  BY <1>7, FinishKeeps
<1>8. CASE UNCHANGED inferenceVars
  BY <1>8, StutterKeeps
<1> QED
  BY <1>1, <1>2, <1>3, <1>4, <1>5, <1>6, <1>7, <1>8 DEF InferenceNext

(* Every action of the inference, from the start of a root to the loop     *)
(* over separated_nodes, preserves the invariant.                          *)
THEOREM InferenceInductive == InferenceSpec => []InferenceIInv
<1> QED
  BY InferenceInitIsStart, InferenceStarts, InferenceStep, PTL DEF InferenceSpec

-----------------------------------------------------------------------------
(* The variables keep their shape, whatever call graph is analysed.        *)
THEOREM InferenceTypeCorrect == InferenceSpec => []InferenceTypeOK
<1>1. InferenceIInv => InferenceTypeOK
  BY DEF InferenceIInv
<1> QED
  BY <1>1, InferenceInductive, PTL

(* The activations stay in step with the children they process.            *)
THEOREM FramesStayInStep == InferenceSpec => []FramesInStep
<1>1. InferenceIInv => FramesInStep
  BY DEF InferenceIInv
<1> QED
  BY <1>1, InferenceInductive, PTL

(* No inferred result hides a reason of anything the node calls.           *)
THEOREM NoReasonHidden == InferenceSpec => []NothingHidden
<1>1. InferenceIInv => NothingHidden
  BY DEF InferenceIInv
<1> QED
  BY <1>1, InferenceInductive, PTL

(* Whatever a pure node leads to is pure: the pure nodes of the forest are *)
(* closed under calls, and none of them has a reason of its own or calls   *)
(* an imported function or a builtin.                                      *)
PureIsClosed ==
  LET pure == {n \in Inferred : result[n] = {}}
  IN  \A n \in pure :
        reasons[n] = {} /\ Calls(children, n) \subseteq pure

(* Whoever trusts a result of infer_purity that says pure can trust those  *)
(* of all functions it calls.                                              *)
THEOREM PureLeadsToPure == InferenceSpec => []PureIsClosed
<1>1. InferenceIInv => PureIsClosed
  <2> SUFFICES ASSUME InferenceIInv, NEW n \in Inferred, result[n] = {}
               PROVE  /\ reasons[n] = {}
                      /\ \A c \in Calls(children, n) : c \in Inferred /\ result[c] = {}
    BY DEF PureIsClosed
  <2>1. /\ reasons[n] \subseteq {}
        /\ \A c \in Calls(children, n) :
             /\ c \in InForest \cup Builtin /\ c \notin External
             /\ c \in inferred /\ result[c] \subseteq {}
    BY GraphFacts DEF InferenceIInv, NothingHidden, Covers, Inferred
  <2> QED
    BY <2>1 DEF Inferred, External
<1> QED
  BY <1>1, InferenceInductive, PTL

(* A result does not change any more, whoever asks for it later: separate()*)
(* shares results with members of combined nodes only.                     *)
THEOREM InferredIsFinal == InferenceSpec => ResultsAreFinal
<1>1. ASSUME InferenceIInv, [InferenceNext]_inferenceVars
      PROVE  [\A n \in Inferred : n \in inferred' /\ result'[n] = result[n]]_inferenceVars
  <2>1. CASE KnownChild
    BY <1>1, <2>1, KnownChildEffect DEF Inferred
  <2>2. CASE Return
    <3>1. Top.node \notin inferred
      BY <1>1, TopIsOpen, <2>2 DEF Return
    <3> QED
      BY <1>1, <2>2, <3>1, ReturnEffect DEF Inferred
  <2>3. CASE KnownRoot
    BY <1>1, <2>3, KnownRootEffect DEF Inferred
  <2>4. CASE SkipImport \/ EnterRoot \/ EnterChild \/ Finish
    BY <2>4 DEF SkipImport, EnterRoot, EnterChild, Push, Finish, Inferred
  <2> QED
    BY <1>1, <2>1, <2>2, <2>3, <2>4 DEF InferenceNext
<1> QED
  BY <1>1, InferenceInductive, PTL DEF InferenceSpec, ResultsAreFinal

-----------------------------------------------------------------------------
(* Facts about reachability.                                               *)
LEMMA BelowFacts ==
  ASSUME NEW kids, NEW nodes, NEW n \in nodes
  PROVE  /\ n \in Below(kids, nodes, n) /\ Below(kids, nodes, n) \subseteq nodes
         /\ \A m \in Below(kids, nodes, n) :
              /\ \A c \in Calls(kids, m) \cap nodes : c \in Below(kids, nodes, n)
              /\ Below(kids, nodes, m) \subseteq Below(kids, nodes, n)
         /\ \A X \in ClosedUnderCalls(kids, nodes) :
              n \in X => Below(kids, nodes, n) \subseteq X
BY DEF Below, ClosedUnderCalls

(* What may be blamed on a node: reasons of nodes it leads to, and Unknown *)
(* if a recursion is among them.                                           *)
Leads(n) == Below(children, InForest, n)
Deserved(S, n) ==
  /\ \A r \in S : r # Unknown => \E m \in Leads(n) : r \in Direct(m)
  /\ Unknown \in S => \E m \in Leads(n) : OnCycle(children, InForest, m)

(* Nobody is blamed falsely, be it by a result or by an activation.        *)
ResultsDeserved ==
  \A n \in Inferred : n \notin External /\ Deserved(result[n], n)
FramesDeserved ==
  \A i \in DOMAIN stack : Deserved(stack[i].acc, stack[i].node)

(* A node that was entered and has no result is being processed.           *)
OpenOnStack ==
  /\ visited \subseteq InForest
  /\ \A n \in visited : n \notin inferred => \E i \in DOMAIN stack : stack[i].node = n

(* The activations follow a path of calls.                                 *)
StackIsPath ==
  \A i, j \in DOMAIN stack : i <= j => stack[j].node \in Leads(stack[i].node)

Blame == ResultsDeserved /\ FramesDeserved /\ OpenOnStack /\ StackIsPath

(* The graph never changes, so it is enough to look at the new results and *)
(* activations.                                                            *)
LEMMA BlameBy ==
  ASSUME UNCHANGED graph,
         \A n \in InForest :
           n \in inferred' => n \notin External /\ Deserved(result'[n], n),
         \A i \in DOMAIN stack' : Deserved(stack'[i].acc, stack'[i].node),
         \A i, j \in DOMAIN stack' :
           i <= j => stack'[j].node \in Leads(stack'[i].node),
         visited' \subseteq InForest,
         \A n \in visited' : n \notin inferred' =>
           \E i \in DOMAIN stack' : stack'[i].node = n
  PROVE  Blame'
<1>1. children' = children /\ reasons' = reasons /\ InForest' = InForest
  BY DEF graph, InForest
<1>2. ASSUME NEW S, NEW n, Deserved(S, n)
      PROVE  /\ \A r \in S : r # Unknown =>
                  \E m \in Below(children', InForest', n) :
                     r \in reasons'[m] \cup (Calls(children', m) \cap External)
             /\ Unknown \in S => \E m \in Below(children', InForest', n) :
                  OnCycle(children', InForest', m)
  BY <1>1, <1>2 DEF Deserved, Leads, Direct
<1>3. ResultsDeserved'
  BY <1>1, <1>2 DEF ResultsDeserved, Inferred, Deserved, Leads, Direct
<1>4. FramesDeserved'
  BY <1>1, <1>2 DEF FramesDeserved, Deserved, Leads, Direct
<1>5. StackIsPath' /\ OpenOnStack'
  BY <1>1 DEF StackIsPath, OpenOnStack, Leads
<1> QED
  BY <1>3, <1>4, <1>5 DEF Blame

LEMMA DeservedFacts ==
  ASSUME NEW n \in InForest, NEW S, Deserved(S, n)
  PROVE  /\ \A T : Deserved(T, n) => Deserved(S \cup T, n)
         /\ \A m \in InForest : n \in Leads(m) => Deserved(S, m)
<1>1. \A T : Deserved(T, n) => Deserved(S \cup T, n)
  BY DEF Deserved
<1>2. ASSUME NEW m \in InForest, n \in Leads(m)
      PROVE  Deserved(S, m)
  <2>1. Leads(n) \subseteq Leads(m)
    BY <1>2, BelowFacts DEF Leads
  <2> QED
    BY <2>1 DEF Deserved
<1> QED
  BY <1>1, <1>2

LEMMA ChildIsBelow ==
  ASSUME NEW n \in InForest, NEW c \in Calls(children, n) \cap InForest
  PROVE  n \in Leads(n) /\ c \in Leads(n)
BY BelowFacts DEF Leads

(* The answer about a child is deserved by the node that calls it: if it   *)
(* is Unknown, the child is being processed, and so calls its caller.      *)
LEMMA AnswerDeserved ==
  ASSUME InferenceIInv, Blame, KnownChild
  PROVE  Deserved(Answer(Child), Top.node)
<1> DEFINE n == Top.node
           c == Child
<1>1. /\ n \in InForest /\ c \in InForest \cup Builtin /\ c \in Calls(children, n)
      /\ Len(stack) \in DOMAIN stack /\ Top = stack[Len(stack)]
  <2>1. /\ n \in InForest /\ Top.next \in 1..Len(children[n])
        /\ c \in InForest \cup Builtin
        /\ Len(stack) \in 1..Len(stack) /\ Top = stack[Len(stack)]
    BY TopFacts DEF KnownChild
  <2>2. Calls(children, n) = {children[n][j] : j \in 1..Len(children[n])}
    BY <2>1, GraphFacts DEF InferenceIInv
  <2> QED
    BY <2>1, <2>2 DEF Child, InferenceIInv, InferenceTypeOK
<1>2. CASE c \in External
  <2>1. Answer(c) = {c} /\ c # Unknown
    BY <1>2, InferenceInputs DEF Answer, External, Callable
  <2>2. n \in Leads(n) /\ c \in Direct(n)
    BY <1>1, <1>2, BelowFacts DEF Leads, Direct
  <2> QED
    BY <2>1, <2>2 DEF Deserved
<1>3. CASE c \notin External /\ c \in inferred
  <2>1. Answer(c) = result[c] /\ c \in InForest
    BY <1>1, <1>3 DEF Answer, External
  <2>2. Deserved(result[c], c)
    BY <1>3, <2>1 DEF Blame, ResultsDeserved, Inferred
  <2>3. c \in Leads(n)
    BY <1>1, <2>1, ChildIsBelow
  <2> QED
    BY <1>1, <2>1, <2>2, <2>3, DeservedFacts
<1>4. CASE c \notin External /\ c \notin inferred
  <2>1. Answer(c) = {Unknown} /\ c \in visited /\ c \in InForest
    BY <1>1, <1>4 DEF Answer, KnownChild, Known, External
  <2>2. PICK i \in DOMAIN stack : stack[i].node = c
    BY <1>4, <2>1 DEF Blame, OpenOnStack
  <2>3. i <= Len(stack)
    BY <2>2 DEF InferenceIInv, InferenceTypeOK
  <2>4. n \in Leads(c)
    BY <1>1, <2>2, <2>3 DEF Blame, StackIsPath
  <2>5. n \in Leads(n) /\ OnCycle(children, InForest, n)
    BY <1>1, <2>1, <2>4, BelowFacts DEF OnCycle, Leads
  <2> QED
    BY <2>1, <2>5 DEF Deserved
<1> QED
  BY <1>2, <1>3, <1>4

LEMMA KnownChildBlame ==
  ASSUME InferenceIInv, Blame, KnownChild
  PROVE  Blame'
<1> DEFINE n == Len(stack)
<1>1. /\ n \in 1..n /\ Top = stack[n] /\ Top.node \in InForest
      /\ DOMAIN stack = 1..n
  BY TopFacts DEF KnownChild, InferenceIInv, InferenceTypeOK
<1>2. /\ DOMAIN stack' = 1..n /\ \A i \in 1..n - 1 : stack'[i] = stack[i]
      /\ stack'[n].node = Top.node /\ stack'[n].acc = Top.acc \cup Answer(Child)
      /\ \A m \in InForest : (m \in inferred' <=> m \in inferred) /\ result'[m] = result[m]
  BY KnownChildEffect
<1>3. UNCHANGED <<graph, visited>>
  BY DEF KnownChild
<1>4. \A i \in 1..n : stack'[i].node = stack[i].node
  BY <1>1, <1>2
<1>5. \A m \in InForest : m \in inferred' => m \notin External /\ Deserved(result'[m], m)
  BY <1>2 DEF Blame, ResultsDeserved, Inferred
<1>6. ASSUME NEW i \in 1..n
      PROVE  Deserved(stack'[i].acc, stack'[i].node)
  <2>1. Deserved(stack[i].acc, stack[i].node)
    BY <1>1 DEF Blame, FramesDeserved
  <2>2. CASE i = n
    <3>1. Deserved(Top.acc \cup Answer(Child), Top.node)
      BY <1>1, <2>1, <2>2, AnswerDeserved, DeservedFacts
    <3> QED
      BY <1>2, <2>2, <3>1
  <2>3. CASE i # n
    BY <1>2, <2>1, <2>3
  <2> QED
    BY <2>2, <2>3
<1>7. \A i, j \in 1..n : i <= j => stack'[j].node \in Leads(stack'[i].node)
  BY <1>1, <1>4 DEF Blame, StackIsPath
<1>8. /\ visited' \subseteq InForest
      /\ \A m \in visited' : m \notin inferred' => \E i \in 1..n : stack'[i].node = m
  BY <1>1, <1>2, <1>3, <1>4 DEF Blame, OpenOnStack
<1> QED
  BY <1>2, <1>3, <1>5, <1>6, <1>7, <1>8, BlameBy

(* Entering a node starts an activation that blames nobody yet, at the end *)
(* of the path of calls.                                                   *)
LEMMA PushBlame ==
  ASSUME InferenceIInv, Blame, NEW c \in InForest, ~Known(c), Push(c),
         stack # <<>> => ChildrenLeft /\ Child = c
  PROVE  Blame'
<1> DEFINE n == Len(stack)
           f == [node |-> c, next |-> 1, acc |-> {}]
<1>1. /\ visited' = visited \cup {c} /\ stack' = Append(stack, f)
      /\ UNCHANGED <<graph, inferred, result>>
  BY DEF Push
<1>2. c \in Node
  BY GraphFacts DEF InferenceIInv
<1>3. f \in Frame /\ stack \in Seq(Frame)
  BY <1>2 DEF Frame, InferenceIInv, InferenceTypeOK
<1> HIDE DEF f
<1>4. /\ n \in Nat /\ DOMAIN stack = 1..n /\ DOMAIN stack' = 1..n + 1
      /\ \A i \in 1..n : stack'[i] = stack[i]
      /\ stack'[n + 1] = f
  BY <1>1, <1>3, AppendFrame
<1>5. f.node = c /\ f.acc = {}
  BY DEF f
<1>6. \A m \in InForest : m \in inferred' => m \notin External /\ Deserved(result'[m], m)
  BY <1>1 DEF Blame, ResultsDeserved, Inferred
<1>7. ASSUME NEW i \in 1..n + 1
      PROVE  Deserved(stack'[i].acc, stack'[i].node)
  <2>1. CASE i \in 1..n
    BY <1>4, <2>1 DEF Blame, FramesDeserved
  <2>2. CASE i = n + 1
    BY <1>4, <1>5, <2>2 DEF Deserved
  <2> QED
    BY <1>4, <2>1, <2>2
<1>8. ASSUME NEW i \in 1..n
      PROVE  stack[i].node \in InForest /\ c \in Leads(stack[i].node)
  <2>1. /\ ChildrenLeft /\ Child = c
    BY <1>3, <1>4
  <2>2. /\ Top = stack[n] /\ Top.node \in InForest /\ n \in 1..n
        /\ Top.next \in 1..Len(children[Top.node])
    BY <2>1, TopFacts
  <2>3. c \in Calls(children, Top.node)
    BY <2>1, <2>2, GraphFacts DEF Child, InferenceIInv
  <2>4. Top.node \in Leads(stack[i].node)
    BY <1>4, <2>2 DEF Blame, StackIsPath
  <2>5. stack[i].node \in InForest
    BY <1>4, FrameByFrame DEF InferenceIInv, FrameOK
  <2> QED
    BY <2>2, <2>3, <2>4, <2>5, BelowFacts DEF Leads
<1>9. ASSUME NEW i \in 1..n + 1, NEW j \in 1..n + 1, i <= j
      PROVE  stack'[j].node \in Leads(stack'[i].node)
  <2>1. CASE j \in 1..n
    <3>1. i \in 1..n
      BY <1>4, <1>9, <2>1
    <3> QED
      BY <1>4, <1>9, <2>1, <3>1 DEF Blame, StackIsPath
  <2>2. CASE j = n + 1 /\ i \in 1..n
    BY <1>4, <1>5, <1>8, <2>2
  <2>3. CASE j = n + 1 /\ i = n + 1
    BY <1>4, <1>5, <2>3, BelowFacts DEF Leads
  <2> QED
    BY <1>4, <2>1, <2>2, <2>3
<1>10. visited' \subseteq InForest
  BY <1>1 DEF Blame, OpenOnStack
<1>11. ASSUME NEW m \in visited', m \notin inferred'
       PROVE  \E i \in 1..n + 1 : stack'[i].node = m
  <2>1. CASE m = c
    BY <1>4, <1>5, <2>1
  <2>2. CASE m \in visited
    <3>1. PICK i \in 1..n : stack[i].node = m
      BY <1>1, <1>4, <1>11, <2>2 DEF Blame, OpenOnStack
    <3> QED
      BY <1>4, <3>1
  <2> QED
    BY <1>1, <2>1, <2>2
<1> QED
  BY <1>1, <1>4, <1>6, <1>7, <1>9, <1>10, <1>11, BlameBy

(* The node's own reasons and those of its children are deserved, and what *)
(* it deserves its caller deserves too.                                    *)
LEMMA ReturnBlame ==
  ASSUME InferenceIInv, Blame, Return
  PROVE  Blame'
<1> DEFINE n == Len(stack)
           node == Top.node
           res == reasons[node] \cup Top.acc
<1>1. /\ n \in 1..n /\ Top = stack[n] /\ node \in InForest /\ node \notin External
      /\ \A m \in InForest :
           /\ m \in inferred' <=> m \in inferred \/ m = node
           /\ result'[m] = IF m = node THEN res ELSE result[m]
      /\ n = 1 => stack' = <<>>
  BY ReturnEffect
<1>2. n # 1 =>
        /\ n - 1 \in 1..n - 1
        /\ DOMAIN stack' = 1..n - 1
        /\ \A i \in 1..n - 2 : stack'[i] = stack[i]
        /\ stack'[n - 1].node = stack[n - 1].node
        /\ stack'[n - 1].acc = stack[n - 1].acc \cup res
  BY ReturnEffect
<1>3. DOMAIN stack = 1..n /\ UNCHANGED <<graph, visited>>
  BY DEF InferenceIInv, InferenceTypeOK, Return
<1>4. Deserved(res, node)
  <2>1. Deserved(Top.acc, node)
    BY <1>1, <1>3 DEF Blame, FramesDeserved
  <2>2. Deserved(reasons[node], node)
    <3>1. node \in Leads(node) /\ Unknown \notin reasons[node]
      BY <1>1, GraphFacts, BelowFacts DEF Leads, InferenceIInv
    <3>2. reasons[node] \subseteq Direct(node)
      BY DEF Direct
    <3> HIDE DEF node
    <3> QED
      BY <3>1, <3>2 DEF Deserved
  <2> HIDE DEF node
  <2> QED
    BY <1>1, <2>1, <2>2, DeservedFacts
<1> HIDE DEF node, res
<1>5. \A m \in InForest : m \in inferred' => m \notin External /\ Deserved(result'[m], m)
  BY <1>1, <1>4 DEF Blame, ResultsDeserved, Inferred
<1>6. CASE n = 1
  <2>1. stack' = <<>> /\ DOMAIN stack' = {}
    BY <1>1, <1>6
  <2>2. visited' \subseteq InForest
    BY <1>3 DEF Blame, OpenOnStack
  <2>3. ASSUME NEW m \in visited' PROVE m \in inferred'
    <3>1. m \in InForest /\ (m \in inferred \/ m = stack[1].node)
      BY <1>3, <1>6, <2>2 DEF Blame, OpenOnStack
    <3> QED
      BY <1>1, <1>6, <3>1 DEF node
  <2> QED
    BY <1>3, <1>5, <2>1, <2>2, <2>3, BlameBy
<1>7. CASE n # 1
  <2> DEFINE k == n - 1
  <2>1. /\ k \in 1..k /\ DOMAIN stack' = 1..k
        /\ \A i \in 1..k : i \in 1..n /\ stack'[i].node = stack[i].node
        /\ \A i \in 1..k : i # k => stack'[i].acc = stack[i].acc
        /\ stack'[k].acc = stack[k].acc \cup res
    BY <1>1, <1>2, <1>7
  <2>2. ASSUME NEW i \in 1..k
        PROVE  Deserved(stack'[i].acc, stack'[i].node)
    <3>1. Deserved(stack[i].acc, stack[i].node)
      BY <1>3, <2>1 DEF Blame, FramesDeserved
    <3>2. CASE i = k
      <4>1. stack[k].node \in InForest
        BY <1>3, <2>1, FrameByFrame DEF InferenceIInv, FrameOK
      <4>2. node \in Leads(stack[k].node)
        <5>1. k \in DOMAIN stack /\ n \in DOMAIN stack /\ k <= n
          <6>1. n \in 1..n /\ DOMAIN stack = 1..n /\ k \in 1..n
            BY <1>1, <1>3, <2>1
          <6>2. \A a \in 1..n : a <= n
            OBVIOUS
          <6> HIDE DEF k, n
          <6> QED
            BY <6>1, <6>2
        <5> HIDE DEF k, n
        <5> QED
          BY <1>1, <5>1 DEF Blame, StackIsPath, node
      <4>3. Deserved(res, stack[k].node)
        BY <1>1, <1>4, <4>1, <4>2, DeservedFacts
      <4> HIDE DEF k
      <4> QED
        BY <2>1, <3>1, <3>2, <4>1, <4>3, DeservedFacts
    <3> HIDE DEF k
    <3> QED
      BY <2>1, <3>1, <3>2
  <2>3. \A i, j \in 1..k : i <= j => stack'[j].node \in Leads(stack'[i].node)
    BY <1>3, <2>1 DEF Blame, StackIsPath
  <2>4. visited' \subseteq InForest
    BY <1>3 DEF Blame, OpenOnStack
  <2>5. ASSUME NEW m \in visited', m \notin inferred'
        PROVE  \E i \in 1..k : stack'[i].node = m
    <3>1. m \in InForest /\ m \notin inferred /\ m # node
      BY <1>1, <2>4, <2>5
    <3>2. PICK i \in 1..n : stack[i].node = m
      BY <1>3, <2>5, <3>1 DEF Blame, OpenOnStack
    <3>3. i # n
      BY <1>1, <3>1, <3>2 DEF node
    <3>4. i \in 1..k
      BY <1>1, <3>2, <3>3
    <3> QED
      BY <2>1, <3>2, <3>4
  <2> HIDE DEF k
  <2> QED
    BY <1>3, <1>5, <2>1, <2>2, <2>3, <2>4, <2>5, BlameBy
<1> QED
  BY <1>6, <1>7

(* The steps between two roots change neither results nor activations.     *)
LEMMA BetweenRootsBlame ==
  ASSUME Blame, UNCHANGED <<graph, visited, stack>>,
         \A m \in InForest : (m \in inferred' <=> m \in inferred) /\ result'[m] = result[m]
  PROVE  Blame'
<1>1. \A m \in InForest : m \in inferred' => m \notin External /\ Deserved(result'[m], m)
  BY DEF Blame, ResultsDeserved, Inferred
<1>2. \A i \in DOMAIN stack' : Deserved(stack'[i].acc, stack'[i].node)
  BY DEF Blame, FramesDeserved
<1>3. \A i, j \in DOMAIN stack' : i <= j => stack'[j].node \in Leads(stack'[i].node)
  BY DEF Blame, StackIsPath
<1>4. /\ visited' \subseteq InForest
      /\ \A m \in visited' : m \notin inferred' => \E i \in DOMAIN stack' : stack'[i].node = m
  BY DEF Blame, OpenOnStack
<1> QED
  BY <1>1, <1>2, <1>3, <1>4, BlameBy

LEMMA InitBlame == StartInference => Blame
BY DEF StartInference, Blame, ResultsDeserved, Inferred, FramesDeserved,
       OpenOnStack, StackIsPath

LEMMA NextBlame == InferenceIInv /\ Blame /\ [InferenceNext]_inferenceVars => Blame'
<1> SUFFICES ASSUME InferenceIInv, Blame, [InferenceNext]_inferenceVars PROVE Blame'
  OBVIOUS
<1>1. CASE EnterRoot
  <2>1. Head(roots) \in InForest /\ stack = <<>>
    BY <1>1 DEF EnterRoot, Idle, InferenceIInv, InferenceTypeOK, RootsOK
  <2> QED
    BY <1>1, <2>1, PushBlame DEF EnterRoot
<1>2. CASE EnterChild
  <2>1. Child \in InForest /\ ChildrenLeft
    BY <1>2, TopFacts DEF EnterChild, Known, External
  <2> QED
    BY <1>2, <2>1, PushBlame DEF EnterChild
<1>3. CASE KnownChild
  BY <1>3, KnownChildBlame
<1>4. CASE Return
  BY <1>4, ReturnBlame
<1>5. CASE KnownRoot
  <2>1. UNCHANGED <<graph, visited, stack>>
    BY <1>5 DEF KnownRoot
  <2> QED
    BY <1>5, <2>1, KnownRootEffect, BetweenRootsBlame
<1>6. CASE SkipImport \/ Finish \/ UNCHANGED inferenceVars
  <2>1. UNCHANGED <<graph, visited, stack, inferred, result>>
    BY <1>6 DEF SkipImport, Finish, inferenceVars
  <2> QED
    BY <2>1, BetweenRootsBlame
<1> QED
  BY <1>1, <1>2, <1>3, <1>4, <1>5, <1>6 DEF InferenceNext

LEMMA BlameInductive == InferenceSpec => []Blame
  BY InferenceInductive, InferenceInitIsStart, InitBlame, NextBlame, PTL
     DEF InferenceSpec

(* Unknown is only answered for a recursion: it comes from a node on a     *)
(* cycle of the call graph.                                                *)
THEOREM UnknownMeansRecursion == InferenceSpec => []UnknownOnlyForCycles
<1>1. Blame => UnknownOnlyForCycles
  BY DEF Blame, ResultsDeserved, Deserved, Leads, UnknownOnlyForCycles
<1> QED
  BY <1>1, BlameInductive, PTL

(* A result without Unknown covers a set that is closed under calls.       *)
LEMMA CoveredIsClosed ==
  ASSUME InferenceIInv, Blame, NEW n \in Inferred, Unknown \notin result[n],
         NEW m \in Leads(n)
  PROVE  Direct(m) \subseteq result[n]
<1> DEFINE X == {x \in InForest : IF x \in External THEN x \in result[n]
                                 ELSE x \in inferred /\ result[x] \subseteq result[n]}
<1>1. ASSUME NEW x \in X, x \notin External
      PROVE  /\ reasons[x] \subseteq result[n]
             /\ \A c \in Calls(children, x) : Covers(result[n], c)
  BY <1>1 DEF InferenceIInv, NothingHidden, Inferred, Covers
<1>2. ASSUME NEW x \in X, x \in External
      PROVE  x \in InForest \cap Import /\ Calls(children, x) = {} /\ reasons[x] = {}
  BY <1>2, GraphFacts DEF InferenceIInv, External
<1>3. X \in ClosedUnderCalls(children, InForest)
  BY <1>1, <1>2 DEF ClosedUnderCalls, Covers
<1>4. n \in X
  <2>1. n \in InForest /\ n \in inferred
    BY DEF Inferred
  <2>2. n \notin External
    BY <2>1 DEF Blame, ResultsDeserved
  <2> QED
    BY <2>1, <2>2
<1>5. m \in X
  BY <1>3, <1>4, BelowFacts DEF Leads
<1> QED
  BY <1>1, <1>2, <1>5 DEF Direct, Covers

(* A result that names no unknown has exactly the reasons of all nodes     *)
(* that are reachable from its node: what infer_purity reports for a       *)
(* function without recursion is neither too much nor too little.          *)
THEOREM ResultsAreExact == InferenceSpec => []ExactUnlessUnknown
<1>1. ASSUME InferenceIInv, Blame
      PROVE  ExactUnlessUnknown
  <2> SUFFICES ASSUME NEW n \in Inferred, Unknown \notin result[n]
               PROVE  result[n] = UNION {Direct(m) : m \in Leads(n)}
    BY DEF ExactUnlessUnknown, Leads
  <2>1. Deserved(result[n], n)
    BY <1>1 DEF Blame, ResultsDeserved
  <2>2. \A r \in result[n] : r \in UNION {Direct(m) : m \in Leads(n)}
    BY <2>1 DEF Deserved
  <2>3. \A m \in Leads(n) : Direct(m) \subseteq result[n]
    BY <1>1, CoveredIsClosed
  <2> QED
    BY <2>2, <2>3
<1> QED
  BY <1>1, InferenceInductive, BlameInductive, PTL
-----------------------------------------------------------------------------
(* What is recorded.  The first activation works for the first root.       *)
BottomIsRoot == stack # <<>> => stack[1].node = Head(roots)

(* Members share the result of an inferred combined node, and nothing else *)
(* is separated.                                                           *)
Shared ==
  \A n \in InForest \cap Combined : n \in inferred =>
    \A f \in n.of : f \in inferred /\ f \in separated /\ result[f] = result[n]
OnlyMembers == \A f \in separated : \E n \in InForest \cap Combined : f \in n.of

(* Whoever is no root any more was inferred, and functions and classes are *)
(* recorded at once.                                                       *)
PastRoots ==
  \A n \in InForest \ Import :
    n \in ToSet(roots) \/ (n \in inferred /\ (n \in Defined => n \in DOMAIN recorded))
RecordedEarly ==
  \A n \in DOMAIN recorded :
    n \in InForest /\ n \in Defined /\ n \in inferred /\ recorded[n] = result[n]

(* In the end every function and class has the result of its node.         *)
AllRecorded ==
  /\ \A n \in InForest \ Import : n \in inferred /\
       \A f \in Members(n) : f \in DOMAIN recorded /\ recorded[f] = result[n]
  /\ \A f \in DOMAIN recorded : \E n \in InForest \ Import : f \in Members(n)

Recording ==
  /\ BottomIsRoot /\ Shared /\ OnlyMembers /\ PastRoots
  /\ outcome = "running" => RecordedEarly
  /\ outcome # "running" => outcome = "done" /\ stack = <<>> /\ roots = <<>>
  /\ outcome = "done" => AllRecorded

LEMMA RecordingStarts == StartInference /\ GraphOK => Recording
<1> SUFFICES ASSUME StartInference, GraphOK PROVE Recording
  OBVIOUS
<1>1. /\ inferred = {} /\ stack = <<>> /\ separated = {} /\ recorded = <<>>
      /\ roots = forest /\ outcome = "running"
  BY DEF StartInference
<1>2. DOMAIN recorded = {}
  BY <1>1
<1>3. PastRoots
  BY <1>1 DEF PastRoots, InForest
<1> QED
  BY <1>1, <1>2, <1>3 DEF Recording, BottomIsRoot, Shared, OnlyMembers, RecordedEarly

(* separate() shares the result of the node it is called for, and leaves   *)
(* the members of all others alone.                                        *)
LEMMA SeparateShares ==
  ASSUME GraphOK, UNCHANGED graph, OnlyMembers,
         NEW n \in InForest \cup Builtin, NEW known \in SUBSET Node,
         NEW res \in [Node -> SUBSET Reason], Separate(n, known, res),
         \A m \in InForest \cap Combined : m \in known /\ m # n =>
           \A f \in m.of : f \in known /\ f \in separated /\ res[f] = res[m]
  PROVE  Shared' /\ OnlyMembers'
<1> DEFINE members == IF n \in Combined THEN n.of ELSE {}
<1>1. /\ separated' = separated \cup members
      /\ inferred' = IF n \in known THEN known \cup members ELSE known \ members
      /\ result' = [m \in Node |-> IF m \in members THEN res[n] ELSE res[m]]
  BY DEF Separate
<1>2. InForest' = InForest /\ InForest \subseteq Node \ Builtin
  BY GraphFacts DEF InForest, graph
<1>3. \A m \in InForest : m \notin members
  BY GraphFacts, Kinds DEF External
<1>4. n \in Combined => n \in InForest
  BY Kinds DEF External
<1>5. \A m \in InForest \cap Combined : m # n => m.of \cap members = {}
  <2> SUFFICES ASSUME NEW m \in InForest \cap Combined, m # n, n \in Combined
               PROVE  m.of \cap n.of = {}
    OBVIOUS
  <2>1. \A k, l \in InForest : k = l \/ Members(k) \cap Members(l) = {}
    BY DEF GraphOK, WellContracted, InForest
  <2>2. Members(m) = m.of /\ Members(n) = n.of
    BY DEF Members
  <2> QED
    BY <1>4, <2>1, <2>2
<1>6. \A m \in InForest \cap Combined : m.of \subseteq Node
  BY DEF Combined, Node
<1> HIDE DEF members
<1>7. ASSUME NEW m \in InForest \cap Combined, m \in inferred', NEW f \in m.of
      PROVE  f \in inferred' /\ f \in separated' /\ result'[f] = result'[m]
  <2>1. m \in known /\ result'[m] = res[m] /\ f \in Node
    BY <1>1, <1>2, <1>3, <1>6, <1>7
  <2>2. CASE m = n
    BY <1>1, <1>7, <2>1, <2>2 DEF members
  <2>3. CASE m # n
    <3>1. f \notin members /\ f \in known /\ f \in separated /\ res[f] = res[m]
      BY <1>5, <1>7, <2>1, <2>3
    <3> QED
      BY <1>1, <2>1, <3>1
  <2> QED
    BY <2>2, <2>3
<1>8. OnlyMembers'
  BY <1>1, <1>2, <1>4 DEF OnlyMembers, members
<1> QED
  BY <1>2, <1>7, <1>8 DEF Shared

(* A result that is kept stays recorded as it was.                         *)
LEMMA RecordedKept ==
  ASSUME InForest' = InForest, ResultsKept, UNCHANGED <<roots, recorded>>,
         PastRoots, RecordedEarly
  PROVE  PastRoots' /\ RecordedEarly'
<1>1. PastRoots'
  BY DEF PastRoots, ResultsKept
<1>2. RecordedEarly'
  BY DEF RecordedEarly, ResultsKept
<1> QED
  BY <1>1, <1>2

LEMMA RecordedMore ==
  ASSUME InForest' = InForest, InForest \subseteq Node \ Builtin, ResultsKept, PastRoots,
         RecordedEarly, roots \in Seq(Node), roots # <<>>, NEW n, n = Head(roots),
         n \in InForest, n \notin Import, n \in inferred', Record(n, result'[n])
  PROVE  PastRoots' /\ RecordedEarly'
<1>1. /\ ToSet(roots) = {n} \cup ToSet(roots')
      /\ n \in Combined => recorded' = recorded
      /\ n \notin Combined =>
           recorded' = [f \in DOMAIN recorded \cup {n} |->
                          IF f = n THEN result'[n] ELSE recorded[f]]
  <2>1. ToSet(roots) = {Head(roots)} \cup ToSet(Tail(roots))
    BY RootsHeadAndTail
  <2> QED
    BY <2>1 DEF Record
<1>2. n \in Defined \/ n \in Combined
  BY Kinds DEF External
<1>3. PastRoots'
  <2> SUFFICES ASSUME NEW m \in InForest \ Import, m \notin ToSet(roots')
               PROVE  m \in inferred' /\ (m \in Defined => m \in DOMAIN recorded')
    BY DEF PastRoots
  <2>1. CASE m = n
    BY <1>1, <1>2, <2>1, Kinds
  <2>2. CASE m # n
    <3>1. m \in inferred /\ (m \in Defined => m \in DOMAIN recorded)
      BY <1>1, <2>2 DEF PastRoots
    <3>2. DOMAIN recorded \subseteq DOMAIN recorded'
      BY <1>1
    <3> QED
      BY <3>1, <3>2 DEF ResultsKept
  <2> QED
    BY <2>1, <2>2
<1>4. RecordedEarly'
  BY <1>1, <1>2 DEF RecordedEarly, ResultsKept
<1> QED
  BY <1>3, <1>4

LEMMA KnownRootRecording ==
  ASSUME InferenceIInv, Blame, Recording, KnownRoot
  PROVE  Recording'
<1> DEFINE n == Head(roots)
<1>1. /\ stack = <<>> /\ roots # <<>> /\ n \notin Import /\ Known(n)
      /\ Record(n, Answer(n)) /\ Separate(n, inferred, result)
      /\ UNCHANGED <<graph, visited, stack, outcome>> /\ outcome = "running"
  BY DEF KnownRoot, Idle
<1>2. /\ n \in InForest /\ roots \in Seq(Node) /\ GraphOK
      /\ inferred \in SUBSET Node /\ result \in [Node -> SUBSET Reason]
  BY <1>1 DEF InferenceIInv, InferenceTypeOK, RootsOK
<1>3. InForest' = InForest /\ InForest \subseteq Node \ Builtin
  BY <1>1, <1>2, GraphFacts DEF InForest, graph
<1>4. n \notin External /\ n \in inferred
  <2>1. n \notin External
    BY <1>1, <1>2, <1>3 DEF External
  <2>2. n \in visited => n \in inferred
    BY <1>1 DEF Blame, OpenOnStack
  <2> QED
    BY <1>1, <2>1, <2>2 DEF Known
<1>5. \A m \in InForest : (m \in inferred' <=> m \in inferred) /\ result'[m] = result[m]
  BY KnownRootEffect
<1>6. Answer(n) = result'[n] /\ n \in inferred' /\ ResultsKept
  BY <1>2, <1>4, <1>5 DEF Answer, ResultsKept
<1>7. PastRoots' /\ RecordedEarly'
  <2>1. PastRoots /\ RecordedEarly /\ Record(n, result'[n])
    BY <1>1, <1>6 DEF Recording
  <2> HIDE DEF n
  <2> QED
    BY <1>1, <1>2, <1>3, <1>6, <2>1, RecordedMore DEF n
<1>8. Shared' /\ OnlyMembers'
  <2>1. \A m \in InForest \cap Combined : m \in inferred =>
          \A f \in m.of : f \in inferred /\ f \in separated /\ result[f] = result[m]
    BY DEF Recording, Shared
  <2>2. OnlyMembers /\ UNCHANGED graph /\ n \in InForest \cup Builtin
    BY <1>1, <1>2 DEF Recording
  <2> HIDE DEF n
  <2> QED
    BY <1>1, <1>2, <2>1, <2>2, SeparateShares
<1> QED
  BY <1>1, <1>7, <1>8 DEF Recording, BottomIsRoot

LEMMA KnownChildRecording ==
  ASSUME InferenceIInv, Recording, KnownChild
  PROVE  Recording'
<1> DEFINE c == Child
           n == Len(stack)
<1>1. /\ ChildrenLeft /\ Separate(c, inferred, result)
      /\ UNCHANGED <<graph, visited, roots, recorded, marked, outcome>>
  BY DEF KnownChild
<1>2. /\ stack # <<>> /\ n \in 1..n /\ Top = stack[n] /\ c \in InForest \cup Builtin
  BY <1>1, TopFacts
<1>3. /\ \A i \in 1..n - 1 : stack'[i] = stack[i]
      /\ stack'[n].node = Top.node
      /\ \A m \in InForest : (m \in inferred' <=> m \in inferred) /\ result'[m] = result[m]
  BY KnownChildEffect
<1>4. /\ GraphOK /\ inferred \in SUBSET Node /\ result \in [Node -> SUBSET Reason]
      /\ InForest' = InForest /\ n \in Nat
  BY <1>1 DEF InferenceIInv, InferenceTypeOK, InForest, graph
<1>5. outcome = "running" /\ BottomIsRoot /\ PastRoots /\ RecordedEarly
  BY <1>2 DEF Recording, InferenceIInv, InferenceTypeOK
<1>6. PastRoots' /\ RecordedEarly'
  BY <1>1, <1>3, <1>4, <1>5, RecordedKept DEF ResultsKept
<1>7. Shared' /\ OnlyMembers'
  <2>1. \A m \in InForest \cap Combined : m \in inferred =>
          \A f \in m.of : f \in inferred /\ f \in separated /\ result[f] = result[m]
    BY DEF Recording, Shared
  <2>2. OnlyMembers /\ UNCHANGED graph
    BY <1>1 DEF Recording
  <2> HIDE DEF c, n
  <2> QED
    BY <1>1, <1>2, <1>4, <2>1, <2>2, SeparateShares
<1>8. stack'[1].node = stack[1].node
  <2> HIDE DEF n
  <2>1. n = 1 \/ 1 \in 1..n - 1
    BY <1>2, <1>4
  <2> QED
    BY <1>2, <1>3, <2>1
<1>9. BottomIsRoot'
  BY <1>1, <1>2, <1>5, <1>8 DEF BottomIsRoot
<1> QED
  BY <1>1, <1>5, <1>6, <1>7, <1>9 DEF Recording

LEMMA PushRecording ==
  ASSUME InferenceIInv, Recording, NEW n \in InForest, Push(n), outcome = "running",
         stack = <<>> => n = Head(roots)
  PROVE  Recording'
<1> DEFINE f == [node |-> n, next |-> 1, acc |-> {}]
<1>1. /\ stack' = Append(stack, f)
      /\ UNCHANGED <<graph, inferred, result, roots, separated, recorded, marked, outcome>>
  BY DEF Push
<1>2. InForest' = InForest /\ n \in Node /\ stack \in Seq(Frame)
  BY <1>1, GraphFacts DEF InForest, graph, InferenceIInv, InferenceTypeOK, Frame
<1>3. f \in Frame /\ f.node = n
  BY <1>2 DEF Frame
<1> HIDE DEF f
<1>4. /\ Len(stack) \in Nat /\ (stack = <<>> => Len(stack) = 0)
      /\ (stack # <<>> => 1 \in 1..Len(stack))
      /\ \A i \in 1..Len(stack) : stack'[i] = stack[i]
      /\ stack'[Len(stack) + 1] = f
  BY <1>1, <1>2, <1>3, AppendFrame
<1>5. BottomIsRoot'
  <2>1. CASE stack = <<>>
    BY <1>1, <1>3, <1>4, <2>1 DEF BottomIsRoot
  <2>2. CASE stack # <<>>
    BY <1>1, <1>4, <2>2 DEF BottomIsRoot, Recording
  <2> QED
    BY <2>1, <2>2
<1>6. PastRoots' /\ RecordedEarly'
  BY <1>1, <1>2, RecordedKept DEF ResultsKept, Recording
<1>7. Shared' /\ OnlyMembers'
  BY <1>1, <1>2 DEF Recording, Shared, OnlyMembers
<1> QED
  BY <1>1, <1>5, <1>6, <1>7 DEF Recording

LEMMA ReturnRecording ==
  ASSUME InferenceIInv, Recording, Return
  PROVE  Recording'
<1> DEFINE n == Len(stack)
           node == Top.node
           res == reasons[node] \cup Top.acc
           known == inferred \cup {node}
           given == [result EXCEPT ![node] = res]
<1>1. /\ stack # <<>> /\ Separate(node, known, given)
      /\ UNCHANGED <<graph, visited, outcome>>
      /\ n = 1 => stack' = <<>> /\ Record(node, res)
      /\ n # 1 => UNCHANGED <<recorded, marked, roots>>
  BY DEF Return
<1>2. /\ n \in 1..n /\ Top = stack[n] /\ node \in InForest /\ node \notin External
      /\ \A m \in InForest :
           /\ m \in inferred' <=> m \in inferred \/ m = node
           /\ result'[m] = IF m = node THEN res ELSE result[m]
  BY ReturnEffect
<1>11. n # 1 => /\ n - 1 \in 1..n - 1
                /\ \A i \in 1..n - 2 : stack'[i] = stack[i]
                /\ stack'[n - 1].node = stack[n - 1].node
  BY ReturnEffect
<1>3. /\ GraphOK /\ inferred \in SUBSET Node /\ result \in [Node -> SUBSET Reason]
      /\ InForest' = InForest /\ n \in Nat /\ roots \in Seq(Node) /\ roots # <<>>
      /\ InForest \subseteq Node \ Builtin
  BY <1>1, GraphFacts DEF InferenceIInv, InferenceTypeOK, InForest, graph, RootWaits
<1>4. outcome = "running" /\ BottomIsRoot /\ PastRoots /\ RecordedEarly
  BY <1>1 DEF Recording, InferenceIInv, InferenceTypeOK
<1>5. node \notin inferred
  BY <1>1, TopIsOpen
<1>6. ResultsKept /\ node \in inferred' /\ result'[node] = res
  BY <1>2, <1>5 DEF ResultsKept
<1>7. res \in SUBSET Reason
  <2>1. Top \in Frame
    BY <1>1, FrontOfStack DEF Top, InferenceIInv, InferenceTypeOK, Frame
  <2> QED
    BY <1>2, <1>3, <2>1, GraphFacts DEF Frame
<1>8. Shared' /\ OnlyMembers'
  <2>1. \A m \in InForest \cap Combined : m \in inferred =>
          \A f \in m.of : f \in inferred /\ f \in separated /\ result[f] = result[m]
    BY DEF Recording, Shared
  <2>2. \A m \in InForest \cap Combined : m.of \cap InForest = {} /\ m.of \subseteq Node
    BY <1>3, GraphFacts DEF Combined, Node
  <2>3. \A m \in Node : given[m] = IF m = node THEN res ELSE result[m]
    BY <1>3
  <2>4. /\ known \in SUBSET Node /\ given \in [Node -> SUBSET Reason]
        /\ Separate(node, known, given) /\ node \in InForest \cup Builtin
    BY <1>1, <1>2, <1>3, <1>7
  <2>5. OnlyMembers /\ UNCHANGED graph
    BY <1>1 DEF Recording
  <2>6. \A m \in known : m = node \/ m \in inferred
    OBVIOUS
  <2>7. inferred \subseteq known
    OBVIOUS
  <2> HIDE DEF node, known, given, res, n
  <2>8. ASSUME NEW m \in InForest \cap Combined, m \in known, m # node, NEW f \in m.of
        PROVE  f \in known /\ f \in separated /\ given[f] = given[m]
    <3>1. m \in inferred /\ f \in Node /\ f # node /\ m \in Node
      BY <1>2, <1>3, <2>2, <2>6, <2>8
    <3> QED
      BY <2>1, <2>3, <2>7, <2>8, <3>1
  <2> QED
    BY <1>3, <2>4, <2>5, <2>8, SeparateShares
<1>9. CASE n = 1
  <2>1. node = Head(roots) /\ Record(node, result'[node])
    BY <1>1, <1>2, <1>4, <1>6, <1>9 DEF BottomIsRoot
  <2>2. node \notin Import
    BY <1>2 DEF External
  <2> HIDE DEF node, known, given, res, n
  <2>3. PastRoots' /\ RecordedEarly'
    BY <1>2, <1>3, <1>4, <1>6, <2>1, <2>2, RecordedMore
  <2> QED
    BY <1>1, <1>4, <1>8, <1>9, <2>3 DEF Recording, BottomIsRoot
<1>10. CASE n # 1
  <2>1. PastRoots' /\ RecordedEarly'
    BY <1>1, <1>3, <1>4, <1>6, <1>10, RecordedKept
  <2>2. stack'[1].node = stack[1].node
    <3> HIDE DEF n
    <3>1. n - 1 = 1 \/ 1 \in 1..n - 2
      BY <1>2, <1>3, <1>10, <1>11
    <3> QED
      BY <1>11, <1>10, <3>1
  <2>3. BottomIsRoot'
    BY <1>1, <1>4, <1>10, <2>2 DEF BottomIsRoot
  <2> QED
    BY <1>1, <1>4, <1>8, <2>1, <2>3 DEF Recording
<1> QED
  BY <1>9, <1>10

(* When no root is left every node is inferred, so every separated         *)
(* function shares a result and can be recorded.                           *)
LEMMA FinishRecording ==
  ASSUME InferenceIInv, Recording, Finish
  PROVE  Recording'
<1>1. /\ stack = <<>> /\ roots = <<>> /\ outcome = "running"
      /\ UNCHANGED <<graph, inferred, result, visited, roots, stack, separated, marked>>
  BY DEF Finish
<1>2. Shared /\ OnlyMembers /\ PastRoots /\ RecordedEarly
  BY <1>1 DEF Recording
<1>3. InForest' = InForest /\ InForest \subseteq Node \ Builtin
  BY <1>1, GraphFacts DEF InForest, graph, InferenceIInv
<1>4. \A n \in InForest \ Import : n \in inferred /\ (n \in Defined => n \in DOMAIN recorded)
  <2>1. ToSet(roots) = {}
    BY <1>1 DEF ToSet
  <2> QED
    BY <1>2, <2>1 DEF PastRoots
<1>5. \A n \in InForest \cap Combined : n \in InForest \ Import
  BY Kinds DEF External
<1>6. separated \subseteq inferred
  BY <1>2, <1>4, <1>5 DEF Shared, OnlyMembers
<1>7. /\ outcome' = "done"
      /\ recorded' = [f \in DOMAIN recorded \cup separated |->
                        IF f \in separated THEN result[f] ELSE recorded[f]]
  BY <1>6 DEF Finish
<1>8. AllRecorded'
  <2>1. ASSUME NEW n \in InForest \ Import, NEW f \in Members(n)
        PROVE  f \in DOMAIN recorded' /\ recorded'[f] = result[n]
    <3>1. CASE n \in Combined
      BY <1>2, <1>4, <1>7, <2>1, <3>1 DEF Shared, Members
    <3>2. CASE n \notin Combined
      <4>1. f = n /\ n \in Defined /\ n \in DOMAIN recorded
        BY <1>3, <1>4, <2>1, <3>2, Kinds DEF Members, External
      <4>2. n \notin separated
        BY <1>2, GraphFacts DEF OnlyMembers, InferenceIInv
      <4> QED
        BY <1>2, <1>7, <4>1, <4>2 DEF RecordedEarly
    <3> QED
      BY <3>1, <3>2
  <2>2. ASSUME NEW f \in DOMAIN recorded'
        PROVE  \E n \in InForest \ Import : f \in Members(n)
    <3>1. CASE f \in separated
      BY <1>2, <1>5, <3>1 DEF OnlyMembers, Members
    <3>2. CASE f \in DOMAIN recorded
      <4>1. f \in InForest /\ f \in Defined
        BY <1>2, <3>2 DEF RecordedEarly
      <4>2. f \notin Import /\ f \notin Combined
        BY <4>1, Kinds DEF External
      <4> QED
        BY <4>1, <4>2 DEF Members
    <3> QED
      BY <1>7, <2>2, <3>1, <3>2
  <2> QED
    BY <1>1, <1>3, <1>4, <2>1, <2>2 DEF AllRecorded
<1>9. Shared' /\ OnlyMembers'
  BY <1>1, <1>2, <1>3 DEF Shared, OnlyMembers
<1>10. PastRoots'
  <2>1. DOMAIN recorded \subseteq DOMAIN recorded'
    BY <1>7
  <2> QED
    BY <1>1, <1>3, <1>4, <2>1 DEF PastRoots
<1> QED
  BY <1>1, <1>7, <1>8, <1>9, <1>10 DEF Recording, BottomIsRoot

LEMMA RecordingStep ==
  InferenceIInv /\ Blame /\ Recording /\ [InferenceNext]_inferenceVars => Recording'
<1> SUFFICES ASSUME InferenceIInv, Blame, Recording, [InferenceNext]_inferenceVars
             PROVE  Recording'
  OBVIOUS
<1>1. CASE EnterRoot
  <2>1. Head(roots) \in InForest /\ outcome = "running"
    BY <1>1 DEF EnterRoot, Idle, InferenceIInv, InferenceTypeOK, RootsOK
  <2> QED
    BY <1>1, <2>1, PushRecording DEF EnterRoot
<1>2. CASE EnterChild
  <2>1. Child \in InForest /\ stack # <<>>
    BY <1>2, TopFacts DEF EnterChild, Known, External
  <2>2. outcome = "running"
    BY <2>1 DEF Recording, InferenceIInv, InferenceTypeOK
  <2> QED
    BY <1>2, <2>1, <2>2, PushRecording DEF EnterChild
<1>3. CASE KnownChild
  BY <1>3, KnownChildRecording
<1>4. CASE Return
  BY <1>4, ReturnRecording
<1>5. CASE KnownRoot
  BY <1>5, KnownRootRecording
<1>6. CASE Finish
  BY <1>6, FinishRecording
<1>7. CASE SkipImport
  <2>1. /\ stack = <<>> /\ roots # <<>> /\ roots' = Tail(roots) /\ Head(roots) \in Import
        /\ outcome = "running" /\ roots \in Seq(Node)
        /\ UNCHANGED <<graph, inferred, result, visited, stack, separated,
                       recorded, marked, outcome>>
    BY <1>7 DEF SkipImport, Idle, InferenceIInv, InferenceTypeOK
  <2>2. ToSet(roots) = {Head(roots)} \cup ToSet(roots') /\ InForest' = InForest
    BY <2>1, RootsHeadAndTail DEF InForest, graph
  <2>3. Shared' /\ OnlyMembers' /\ RecordedEarly'
    BY <2>1, <2>2 DEF Recording, Shared, OnlyMembers, RecordedEarly
  <2>4. PastRoots'
    BY <2>1, <2>2 DEF Recording, PastRoots
  <2> QED
    BY <2>1, <2>3, <2>4 DEF Recording, BottomIsRoot
<1>8. CASE UNCHANGED inferenceVars
  <2>1. InForest' = InForest
        /\ UNCHANGED <<inferred, result, roots, stack, separated, recorded, outcome>>
    BY <1>8 DEF inferenceVars, graph, InForest
  <2>2. Shared' /\ OnlyMembers' /\ (outcome = "running" => RecordedEarly') /\ PastRoots'
    BY <2>1 DEF Recording, Shared, OnlyMembers, RecordedEarly, PastRoots
  <2>3. outcome = "done" => AllRecorded'
    BY <2>1 DEF Recording, AllRecorded
  <2> QED
    BY <2>1, <2>2, <2>3 DEF Recording, BottomIsRoot
<1> QED
  BY <1>1, <1>2, <1>3, <1>4, <1>5, <1>6, <1>7, <1>8 DEF InferenceNext

(* However the walk goes, in the end every function and class of the       *)
(* module is recorded with the result of its node, be it a combined one,   *)
(* and the value error about a separated node without a result is never    *)
(* raised (_analyze_purity).                                               *)
THEOREM EveryNodeIsRecorded ==
  InferenceSpec => [](outcome # "failed" /\ (outcome = "done" => AllRecorded))
<1>1. Recording => outcome # "failed" /\ (outcome = "done" => AllRecorded)
  BY DEF Recording
<1> QED
  BY <1>1, InferenceInitIsStart, RecordingStarts, RecordingStep, InferenceInductive,
     BlameInductive, PTL DEF InferenceSpec
-----------------------------------------------------------------------------
(* The phases in a row.                                                    *)

Activation == [fn : Function, todo : SUBSET Callable]

BuildTypeOK ==
  /\ raw \in [Function -> SUBSET Callable]
  /\ calls \in [Function -> SUBSET Callable]
  /\ unknown \in [Function -> SUBSET Callable]
  /\ forest \in Seq(Node) /\ children \in [Node -> Seq(Node)]
  /\ entered \subseteq Function /\ queue \in Seq(Function)
  /\ frames \in Seq(Activation)

(* A function is entered once, and its activation has the calls before it  *)
(* that its node still has.                                                *)
FramesInOrder ==
  /\ \A i \in DOMAIN frames : frames[i].fn \in entered /\ calls[frames[i].fn] = frames[i].todo
  /\ \A i, j \in DOMAIN frames : frames[i].fn = frames[j].fn => i = j

OpenAreInProgress == \A f \in entered : calls[f] # {} => InProgress(f)

(* Nothing is forgotten by the loop over raw_reasons.                      *)
Covered ==
  /\ \A f \in entered : HasId(forest, f)
  /\ \A f \in Function : f \in entered \/ f \in ToSet(queue) \/ Finished(f)

BuildIInv == BuildTypeOK /\ EveryCallLeadsSomewhere /\ FramesInOrder /\ OpenAreInProgress /\ Covered

(* What the call graph has to do with the resolved calls: the forest keeps *)
(* the prepared classes and constructors, every child is in the forest or  *)
(* a builtin, a function that is a child is called, and whoever is at work *)
(* was called by the activation below.                                     *)
ForestGrows ==
  /\ \A c \in Class : c \in InForest /\ ToSet(Ctors[c]) \subseteq InForest
  /\ InForest \subseteq Defined \cup Import
ChildrenAreCalled ==
  \A f \in Function :
    /\ Calls(children, f) \subseteq InForest \cup Builtin
    /\ Calls(children, f) \cap Defined \subseteq raw[f]
    /\ calls[f] \subseteq raw[f] /\ unknown[f] \cap Defined = {}
OthersAsPrepared ==
  \A n \in Node \ Function : children[n] = IF n \in Class THEN Ctors[n] ELSE <<>>
FramesAreCalled == \A i \in 1..Len(frames) - 1 : frames[i + 1].fn \in raw[frames[i].fn]

Links == ForestGrows /\ ChildrenAreCalled /\ OthersAsPrepared /\ FramesAreCalled
-----------------------------------------------------------------------------
LEMMA SymbolFacts ==
  /\ Function \cap (Parameter \cup Other) = {} /\ Function \cap (Import \cup Builtin) = {}
  /\ Class \cap (Parameter \cup Other) = {}
  /\ (Import \cup Builtin) \cap (Parameter \cup Other) = {}
  /\ Defined \subseteq Node /\ Import \cup Builtin \subseteq Node
  /\ Function \subseteq Callable /\ Callable \cap Combined = {}
<1> DEFINE kind == <<Function, Class, Import, Builtin, Parameter, Other>>
<1>1. \A i, j \in 1..6 : i # j => kind[i] \cap kind[j] = {}
  BY SymbolKinds
<1>2. /\ Function \cap Import = {} /\ Function \cap Builtin = {}
      /\ Function \cap Parameter = {} /\ Function \cap Other = {}
  BY <1>1
<1>3. /\ Class \cap Parameter = {} /\ Class \cap Other = {}
      /\ Import \cap Parameter = {} /\ Import \cap Other = {}
      /\ Builtin \cap Parameter = {} /\ Builtin \cap Other = {}
  BY <1>1
<1> QED
  BY <1>2, <1>3, SymbolKinds DEF Node, Defined, Callable

(* A function is kept under itself, and no node under a parameter.         *)
LEMMA IdFacts ==
  /\ \A f \in Function : Id(f) = f
  /\ \A n \in Node, s \in Parameter \cup Other : Id(s) = s /\ Id(n) # s
<1>1. \A n \in Import \cup Builtin, s \in Parameter \cup Other : Key[n] # s
  BY SymbolKinds DEF Callable
<1>2. \A n \in Node \ (Import \cup Builtin), s \in Parameter \cup Other : n # s
  BY SymbolFacts DEF Node, Defined, Callable
<1> QED
  BY <1>1, <1>2, SymbolFacts DEF Id

LEMMA HasIdAppend ==
  ASSUME NEW nodes \in Seq(Node), NEW n \in Node
  PROVE  \A id : HasId(Append(nodes, n), id) <=> HasId(nodes, id) \/ Id(n) = id
<1>1. ToSet(Append(nodes, n)) = ToSet(nodes) \cup {n}
  <2>1. /\ DOMAIN Append(nodes, n) = 1 .. Len(nodes) + 1 /\ Len(nodes) \in Nat
        /\ \A i \in 1 .. Len(nodes) : Append(nodes, n)[i] = nodes[i]
        /\ Append(nodes, n)[Len(nodes) + 1] = n /\ DOMAIN nodes = 1 .. Len(nodes)
    OBVIOUS
  <2>2. 1 .. Len(nodes) + 1 = 1 .. Len(nodes) \cup {Len(nodes) + 1}
    BY <2>1
  <2> QED
    BY <2>1, <2>2 DEF ToSet
<1> QED
  BY <1>1 DEF HasId

LEMMA AddChildAdds ==
  ASSUME NEW kids \in Seq(Node), NEW c \in Node
  PROVE  /\ AddChild(kids, c) \in Seq(Node) /\ HasId(AddChild(kids, c), Id(c))
         /\ \A id : HasId(kids, id) => HasId(AddChild(kids, c), id)
         /\ ToSet(AddChild(kids, c)) \subseteq ToSet(kids) \cup {c}
<1>1. CASE HasId(kids, Id(c))
  <2> DEFINE replaced == [i \in DOMAIN kids |-> IF Id(kids[i]) = Id(c) THEN c ELSE kids[i]]
  <2>1. AddChild(kids, c) = replaced
    BY <1>1 DEF AddChild
  <2>2. DOMAIN kids = 1 .. Len(kids) /\ Len(kids) \in Nat /\ \A i \in DOMAIN kids : kids[i] \in Node
    OBVIOUS
  <2>3. replaced \in Seq(Node)
    <3>1. \A i \in 1 .. Len(kids) : (IF Id(kids[i]) = Id(c) THEN c ELSE kids[i]) \in Node
      BY <2>2
    <3> QED
      BY <2>2, <3>1, IsASeq
  <2>4. DOMAIN replaced = DOMAIN kids /\ \A i \in DOMAIN kids : Id(replaced[i]) = Id(kids[i])
    OBVIOUS
  <2>6. ToSet(replaced) \subseteq ToSet(kids) \cup {c}
    BY DEF ToSet
  <2> HIDE DEF replaced
  <2>5. \A id : HasId(kids, id) => HasId(replaced, id)
    BY <2>4 DEF HasId, ToSet
  <2> QED
    BY <1>1, <2>1, <2>3, <2>5, <2>6
<1>2. CASE ~HasId(kids, Id(c))
  <2>1. AddChild(kids, c) = Append(kids, c)
    BY <1>2 DEF AddChild
  <2> QED
    BY <2>1, HasIdAppend, AppendFacts
<1> QED
  BY <1>1, <1>2
-----------------------------------------------------------------------------
(* The prepared forest has every class, and its constructors.              *)
LEMMA PreparedFacts ==
  /\ PreparedForest \in Seq(Defined)
  /\ \A c \in Class : /\ c \in ToSet(PreparedForest)
                      /\ ToSet(Ctors[c]) \subseteq ToSet(PreparedForest)
<1> DEFINE N == Len(ClassOrder)
           V == Seq(Defined)
           More(i, x) == x \o Ctors[ClassOrder[i]] \o <<ClassOrder[i]>>
           K(g) == [i \in 0..N |-> IF i = 0 THEN <<>> ELSE More(i, g[i - 1])]
           h == CHOOSE g : g = K(g)
           step == [i \in 1..N |-> [x \in V |-> More(i, x)]]
<1>1. N \in Nat /\ DOMAIN ClassOrder = 1..N
  BY ModuleIsWellFormed
<1>2. ASSUME NEW i \in 1..N
      PROVE  /\ ClassOrder[i] \in Class
             /\ \A x \in V : /\ More(i, x) \in V
                             /\ ToSet(More(i, x)) =
                                  ToSet(x) \cup ToSet(Ctors[ClassOrder[i]]) \cup {ClassOrder[i]}
  <2>1. ClassOrder[i] \in Class /\ ClassOrder[i] \in Defined
    BY <1>1, ModuleIsWellFormed DEF Defined
  <2>2. Ctors[ClassOrder[i]] \in Seq(Defined)
    <3>1. Seq(Function) \subseteq Seq(Defined)
      BY DEF Defined
    <3> QED
      BY <2>1, <3>1, ModuleIsWellFormed
  <2> DEFINE one == <<ClassOrder[i]>>
             ctors == Ctors[ClassOrder[i]]
  <2>3. one \in Seq(Defined) /\ ToSet(one) = {ClassOrder[i]}
    BY <2>1 DEF ToSet
  <2>4. ctors \in Seq(Defined)
    BY <2>2
  <2> HIDE DEF one, ctors
  <2>5. ASSUME NEW x \in V
        PROVE  /\ x \o ctors \o one \in V
               /\ ToSet(x \o ctors \o one) = ToSet(x) \cup ToSet(ctors) \cup ToSet(one)
    <3>1. x \in Seq(Defined)
      OBVIOUS
    <3> DEFINE y == x \o ctors
    <3>2. y \in Seq(Defined) /\ ToSet(y) = ToSet(x) \cup ToSet(ctors)
      BY <2>4, <3>1, ConcatFacts
    <3> HIDE DEF y
    <3>3. y \o one \in Seq(Defined) /\ ToSet(y \o one) = ToSet(y) \cup ToSet(one)
      BY <2>3, <3>2, ConcatFacts
    <3> QED
      BY <3>2, <3>3 DEF y
  <2>6. \A x \in V : More(i, x) = x \o ctors \o one
    BY DEF one, ctors
  <2> HIDE DEF More, V
  <2> QED
    BY <2>1, <2>3, <2>5, <2>6 DEF ctors
<1> DEFINE base == <<>>
<1>3. base \in V
  OBVIOUS
<1> HIDE DEF V, N, More
<1>4. PICK f \in [0..N -> V] : f[0] = base /\ \A i \in 1..N : f[i] = step[i][f[i - 1]]
  <2>1. step \in [1..N -> [V -> V]]
    BY <1>2
  <2> HIDE DEF step, base
  <2> QED
    BY <1>1, <1>3, <2>1, StepByStep
<1>5. f = K(f)
  <2>1. ASSUME NEW i \in 0..N
        PROVE  f[i] = K(f)[i]
    <3>1. CASE i = 0
      BY <1>4, <3>1
    <3>2. CASE i # 0
      <4>1. i \in 1..N /\ i - 1 \in 0..N
        BY <1>1, <3>2
      <4>2. f[i - 1] \in V
        BY <4>1
      <4>3. f[i] = More(i, f[i - 1])
        BY <1>4, <4>1, <4>2
      <4> QED
        BY <3>2, <4>3
    <3> QED
      BY <3>1, <3>2
  <2> QED
    BY <2>1
<1>6. h = K(h)
  <2> HIDE DEF K
  <2> QED
    BY <1>5
<1>7. PreparedForest = h[N]
  BY DEF PreparedForest, N, More
<1> HIDE DEF h
<1>8. h[0] = base /\ \A i \in 1..N : h[i] = More(i, h[i - 1])
  <2>1. 0 \in 0..N /\ \A i \in 1..N : i \in 0..N /\ i # 0
    BY <1>1
  <2> QED
    BY <1>6, <2>1
<1> HIDE DEF K, step, base
<1> DEFINE S == {i \in Nat : i <= N =>
                   /\ h[i] \in V
                   /\ \A j \in 1..i : /\ ClassOrder[j] \in ToSet(h[i])
                                      /\ ToSet(Ctors[ClassOrder[j]]) \subseteq ToSet(h[i])}
<1>9. 0 \in S
  BY <1>3, <1>8
<1>10. ASSUME NEW n \in S
       PROVE  n + 1 \in S
  <2> SUFFICES ASSUME n + 1 <= N
               PROVE  /\ h[n + 1] \in V
                      /\ \A j \in 1..n + 1 :
                           /\ ClassOrder[j] \in ToSet(h[n + 1])
                           /\ ToSet(Ctors[ClassOrder[j]]) \subseteq ToSet(h[n + 1])
    OBVIOUS
  <2>1. n \in Nat /\ n <= N /\ n + 1 \in 1..N /\ n + 1 - 1 = n
    BY <1>1
  <2>2. h[n] \in V /\ h[n + 1] = More(n + 1, h[n])
    BY <1>8, <2>1
  <2>3. /\ h[n + 1] \in V
        /\ ToSet(h[n + 1]) =
             ToSet(h[n]) \cup ToSet(Ctors[ClassOrder[n + 1]]) \cup {ClassOrder[n + 1]}
    BY <1>2, <2>1, <2>2
  <2>4. \A j \in 1..n + 1 : j = n + 1 \/ j \in 1..n
    BY <2>1
  <2>5. \A j \in 1..n : /\ ClassOrder[j] \in ToSet(h[n])
                        /\ ToSet(Ctors[ClassOrder[j]]) \subseteq ToSet(h[n])
    BY <2>1
  <2> QED
    BY <2>3, <2>4, <2>5
<1>11. S = Nat
  <2>1. S \in SUBSET Nat
    OBVIOUS
  <2> HIDE DEF S
  <2> QED
    BY <1>9, <1>10, <2>1, SetInduction
<1>12. /\ h[N] \in V
       /\ \A j \in 1..N : /\ ClassOrder[j] \in ToSet(h[N])
                          /\ ToSet(Ctors[ClassOrder[j]]) \subseteq ToSet(h[N])
  <2>1. N \in S /\ N <= N
    <3> HIDE DEF S
    <3> QED
      BY <1>1, <1>11
  <2> QED
    BY <2>1
<1>13. \A c \in Class : \E j \in 1..N : ClassOrder[j] = c
  <2>1. \A c \in Class : c \in ToSet(ClassOrder)
    BY ModuleIsWellFormed
  <2> QED
    BY <1>1, <2>1 DEF ToSet
<1> QED
  BY <1>7, <1>12, <1>13 DEF V
-----------------------------------------------------------------------------
LEMMA BuildStarts ==
  ASSUME BuildInit
  PROVE  BuildIInv
<1>1. /\ raw \in [Function -> SUBSET Callable] /\ calls = raw
      /\ unknown = [f \in Function |-> raw[f] \cap MemberCall]
      /\ entered = {} /\ queue = FunctionOrder /\ frames = <<>>
      /\ forest = PreparedForest
      /\ children = [n \in Node |-> IF n \in Class THEN Ctors[n] ELSE <<>>]
  BY ModuleIsWellFormed DEF BuildInit
<1>2. unknown \in [Function -> SUBSET Callable]
  BY <1>1
<1>3. forest \in Seq(Node)
  <2>1. Seq(Defined) \subseteq Seq(Node)
    BY SymbolFacts
  <2> QED
    BY <1>1, <2>1, PreparedFacts
<1>4. children \in [Node -> Seq(Node)]
  <2>1. Seq(Function) \subseteq Seq(Node)
    BY SymbolFacts DEF Defined
  <2>2. \A n \in Class : Ctors[n] \in Seq(Node)
    BY <2>1, ModuleIsWellFormed
  <2>3. <<>> \in Seq(Node)
    OBVIOUS
  <2> QED
    BY <1>1, <2>2, <2>3
<1>5. queue \in Seq(Function) /\ ToSet(queue) = Function
  BY <1>1, ModuleIsWellFormed
<1>6. frames \in Seq(Activation) /\ DOMAIN frames = {}
  BY <1>1
<1>7. BuildTypeOK
  BY <1>1, <1>2, <1>3, <1>4, <1>5, <1>6 DEF BuildTypeOK
<1> QED
  BY <1>1, <1>5, <1>6, <1>7
     DEF BuildIInv, EveryCallLeadsSomewhere, FramesInOrder, OpenAreInProgress, Covered

(* The activations when a call is taken from the top one.                  *)
LEMMA TakenFromTop ==
  ASSUME BuildIInv, NEW s \in Callable, TakeCall(s)
  PROVE  LET n == Len(frames)
             taken == [frames EXCEPT ![n].todo = @ \ {s}]
         IN  /\ n \in Nat \ {0} /\ n \in DOMAIN frames
             /\ Caller = frames[n].fn /\ Caller \in Function
             /\ s \in calls[Caller] /\ s \in raw[Caller] \cup calls[Caller]
             /\ taken \in Seq(Activation) /\ Len(taken) = n /\ DOMAIN taken = DOMAIN frames
             /\ \A i \in DOMAIN frames : taken[i].fn = frames[i].fn
             /\ \A i \in DOMAIN frames : taken[i].todo = calls'[frames[i].fn]
             /\ calls' \in [Function -> SUBSET Callable] /\ raw' = raw /\ queue' = queue
             /\ \A f \in Function : calls'[f] = IF f = Caller THEN calls[f] \ {s} ELSE calls[f]
<1> DEFINE n == Len(frames)
           top == [frames[n] EXCEPT !.todo = @ \ {s}]
           taken == [frames EXCEPT ![n].todo = @ \ {s}]
<1>1. /\ frames # <<>> /\ s \in Current.todo /\ raw' = raw /\ queue' = queue
      /\ calls' = [calls EXCEPT ![Caller] = @ \ {s}]
  BY DEF TakeCall
<1>2. frames \in Seq(Activation) /\ calls \in [Function -> SUBSET Callable]
  BY DEF BuildIInv, BuildTypeOK
<1>3. n \in Nat \ {0} /\ n \in DOMAIN frames /\ DOMAIN frames = 1 .. n /\ frames[n] \in Activation
  BY <1>1, <1>2
<1>4. Current = frames[n] /\ Caller = frames[n].fn /\ Caller \in Function
  BY <1>3 DEF Current, Last, Caller, Activation
<1>5. \A i, j \in DOMAIN frames : frames[i].fn = frames[j].fn => i = j
  BY DEF BuildIInv, FramesInOrder
<1>6. \A i \in DOMAIN frames : calls[frames[i].fn] = frames[i].todo
  BY DEF BuildIInv, FramesInOrder
<1>7. top \in Activation /\ top.fn = frames[n].fn /\ top.todo = frames[n].todo \ {s}
  BY <1>3 DEF Activation
<1>8. taken = [frames EXCEPT ![n] = top]
  OBVIOUS
<1> HIDE DEF n, top, taken
<1>9. /\ taken \in Seq(Activation) /\ Len(taken) = n /\ DOMAIN taken = DOMAIN frames
      /\ \A i \in DOMAIN frames : taken[i] = IF i = n THEN top ELSE frames[i]
  BY <1>2, <1>3, <1>7, <1>8, ExceptSeq DEF n
<1>10. \A i \in DOMAIN frames : taken[i].fn = frames[i].fn
  BY <1>7, <1>9
<1>11. /\ calls' \in [Function -> SUBSET Callable]
       /\ \A f \in Function : calls'[f] = IF f = Caller THEN calls[f] \ {s} ELSE calls[f]
  BY <1>1, <1>2, <1>4
<1>12. \A i \in DOMAIN frames : frames[i].fn \in Function
  <2>1. \A i \in DOMAIN frames : frames[i] \in Activation
    BY <1>2
  <2> QED
    BY <2>1 DEF Activation
<1>13. \A i \in DOMAIN frames : taken[i].todo = calls'[frames[i].fn]
  <2> TAKE i \in DOMAIN frames
  <2>1. CASE i = n
    BY <1>3, <1>4, <1>6, <1>7, <1>9, <1>11, <2>1
  <2>2. CASE i # n
    <3>1. frames[i].fn # Caller /\ taken[i] = frames[i]
      BY <1>3, <1>4, <1>5, <1>9, <2>2
    <3> QED
      BY <1>6, <1>11, <1>12, <3>1
  <2> QED
    BY <2>1, <2>2
<1>14. s \in calls[Caller]
  BY <1>1, <1>3, <1>4, <1>6
<1> QED
  BY <1>1, <1>3, <1>4, <1>9, <1>10, <1>11, <1>13, <1>14 DEF n, taken

(* What is left to show when a call has been handled on the spot: that it  *)
(* is accounted for, and that nothing else got lost.                       *)
LEMMA Handled ==
  ASSUME BuildIInv, NEW s \in Callable, TakeCall(s), CallDone(s), entered' = entered,
         NEW caller, caller = Caller,
         unknown' \in [Function -> SUBSET Callable], forest' \in Seq(Node),
         children' \in [Node -> Seq(Node)],
         \A id : HasId(forest, id) => HasId(forest', id),
         \A f \in Function : \A id : HasId(children[f], id) => HasId(children'[f], id),
         \A f \in Function : unknown[f] \cap (Parameter \cup Other) \subseteq unknown'[f],
         Answered(caller, s)'
  PROVE  BuildIInv'
<1> DEFINE n == Len(frames)
           taken == [frames EXCEPT ![n].todo = @ \ {s}]
<1>1. /\ n \in Nat \ {0} /\ n \in DOMAIN frames /\ Caller = frames[n].fn /\ Caller \in Function
      /\ s \in calls[Caller]
      /\ taken \in Seq(Activation) /\ Len(taken) = n /\ DOMAIN taken = DOMAIN frames
      /\ \A i \in DOMAIN frames : taken[i].fn = frames[i].fn
      /\ \A i \in DOMAIN frames : taken[i].todo = calls'[frames[i].fn]
      /\ calls' \in [Function -> SUBSET Callable] /\ raw' = raw /\ queue' = queue
      /\ \A f \in Function : calls'[f] = IF f = Caller THEN calls[f] \ {s} ELSE calls[f]
  BY TakenFromTop
<1>2. frames' = taken
  BY DEF CallDone
<1> HIDE DEF n, taken
<1>3. BuildTypeOK'
  BY <1>1, <1>2 DEF BuildIInv, BuildTypeOK
<1>4. \A f \in Function : \A t : Answered(f, t) => Answered(f, t)'
  BY DEF Answered
<1>5. \A f, t : Awaited(f, t) => Awaited(f, t)'
  <2>1. \A i \in 1 .. n - 1 : i \in DOMAIN frames /\ i + 1 \in DOMAIN frames
    BY <1>1 DEF BuildIInv, BuildTypeOK, n
  <2> QED
    BY <1>1, <1>2, <2>1 DEF Awaited, n
<1>6. EveryCallLeadsSomewhere'
  <2> SUFFICES ASSUME NEW f \in Function, NEW t \in raw'[f] \ calls'[f]
               PROVE  Answered(f, t)' \/ Awaited(f, t)'
    BY DEF EveryCallLeadsSomewhere
  <2>1. CASE f = Caller /\ t = s
    BY <2>1
  <2>2. CASE t \notin calls[f]
    BY <1>1, <1>4, <1>5, <2>2 DEF BuildIInv, EveryCallLeadsSomewhere
  <2> QED
    BY <1>1, <2>1, <2>2
<1>7. FramesInOrder'
  <2>1. FramesInOrder
    BY DEF BuildIInv
  <2>2. /\ DOMAIN frames' = DOMAIN frames
        /\ \A i \in DOMAIN frames : frames'[i].fn = frames[i].fn
        /\ \A i \in DOMAIN frames : frames'[i].todo = calls'[frames[i].fn]
    BY <1>1, <1>2
  <2>3. \A i \in DOMAIN frames' : /\ frames'[i].fn \in entered'
                                  /\ calls'[frames'[i].fn] = frames'[i].todo
    BY <2>1, <2>2 DEF FramesInOrder
  <2>4. \A i, j \in DOMAIN frames' : frames'[i].fn = frames'[j].fn => i = j
    BY <2>1, <2>2 DEF FramesInOrder
  <2> QED
    BY <2>3, <2>4 DEF FramesInOrder
<1>8. \A f : InProgress(f) => InProgress(f)'
  BY <1>1, <1>2 DEF InProgress
<1>9. OpenAreInProgress'
  <2>1. \A f \in entered : f \in Function /\ (calls'[f] # {} => calls[f] # {})
    BY <1>1 DEF BuildIInv, BuildTypeOK
  <2> QED
    BY <1>8, <2>1 DEF BuildIInv, OpenAreInProgress
<1>10. Covered'
  <2>1. \A f \in Function : Finished(f) => Finished(f)'
    BY <1>1, IdFacts DEF Finished
  <2> QED
    BY <1>1, <2>1 DEF BuildIInv, Covered
<1> QED
  BY <1>3, <1>6, <1>7, <1>9, <1>10 DEF BuildIInv

(* A new child leaves the children of all nodes where they are.            *)
LEMMA CallerGetsChild ==
  ASSUME BuildTypeOK, NEW f \in Function, NEW c \in Node,
         children' = [children EXCEPT ![f] = AddChild(@, c)]
  PROVE  /\ children' \in [Node -> Seq(Node)] /\ HasId(children'[f], Id(c))
         /\ \A g \in Function : \A id : HasId(children[g], id) => HasId(children'[g], id)
         /\ Calls(children', f) \subseteq Calls(children, f) \cup {c}
         /\ \A g \in Node : g # f => children'[g] = children[g]
<1>1. Function \subseteq Node
  BY SymbolFacts DEF Defined
<1>2. children \in [Node -> Seq(Node)] /\ children[f] \in Seq(Node)
  BY <1>1 DEF BuildTypeOK
<1>3. /\ AddChild(children[f], c) \in Seq(Node) /\ HasId(AddChild(children[f], c), Id(c))
      /\ \A id : HasId(children[f], id) => HasId(AddChild(children[f], c), id)
      /\ ToSet(AddChild(children[f], c)) \subseteq ToSet(children[f]) \cup {c}
  BY <1>2, AddChildAdds
<1>4. \A g \in Node : children'[g] = IF g = f THEN AddChild(children[f], c) ELSE children[g]
  BY <1>1, <1>2
<1>5. children' \in [Node -> Seq(Node)]
  BY <1>1, <1>2, <1>3
<1> QED
  BY <1>1, <1>3, <1>4, <1>5 DEF Calls

LEMMA BuiltinHandled ==
  ASSUME BuildIInv, NEW s \in Callable, CallBuiltin(s)
  PROVE  BuildIInv'
<1>1. PICK f \in Function : f = Caller
  BY TakenFromTop DEF CallBuiltin
<1>2. /\ s \in Builtin /\ TakeCall(s) /\ CallDone(s)
      /\ children' = [children EXCEPT ![f] = AddChild(@, s)]
      /\ unknown' = unknown /\ forest' = forest /\ entered' = entered
  BY <1>1 DEF CallBuiltin
<1>3. /\ children' \in [Node -> Seq(Node)] /\ HasId(children'[f], Id(s))
      /\ \A g \in Function : \A id : HasId(children[g], id) => HasId(children'[g], id)
  BY <1>1, <1>2, SymbolFacts, CallerGetsChild DEF BuildIInv
<1>4. Answered(f, s)'
  BY <1>2, <1>3, SymbolFacts DEF Answered
<1> QED
  BY <1>1, <1>2, <1>3, <1>4, Handled DEF BuildIInv, BuildTypeOK

LEMMA FinishedHandled ==
  ASSUME BuildIInv, NEW s \in Callable, CallFinished(s)
  PROVE  BuildIInv'
<1>1. PICK f \in Function : f = Caller
  BY TakenFromTop DEF CallFinished
<1> DEFINE c == GraphOf(s)
<1>2. /\ TakeCall(s) /\ CallDone(s) /\ HasId(forest, Id(s))
      /\ children' = [children EXCEPT ![f] = AddChild(@, c)]
      /\ unknown' = unknown /\ forest' = forest /\ entered' = entered
  BY <1>1 DEF CallFinished
<1>3. c \in ToSet(forest) /\ Id(c) = Id(s)
  BY <1>2 DEF HasId, GraphOf
<1>4. c \in Node
  BY <1>3 DEF BuildIInv, BuildTypeOK, ToSet
<1>5. s \notin Parameter \cup Other
  BY <1>3, <1>4, IdFacts
<1> HIDE DEF c
<1>6. /\ children' \in [Node -> Seq(Node)] /\ HasId(children'[f], Id(s))
      /\ \A g \in Function : \A id : HasId(children[g], id) => HasId(children'[g], id)
  BY <1>1, <1>2, <1>3, <1>4, CallerGetsChild DEF BuildIInv
<1>7. Answered(f, s)'
  BY <1>5, <1>6 DEF Answered
<1> QED
  BY <1>1, <1>2, <1>6, <1>7, Handled DEF BuildIInv, BuildTypeOK

LEMMA ImportHandled ==
  ASSUME BuildIInv, NEW s \in Callable, CallImport(s)
  PROVE  BuildIInv'
<1>1. PICK f \in Function : f = Caller
  BY TakenFromTop DEF CallImport
<1>2. /\ s \in Import /\ TakeCall(s) /\ CallDone(s)
      /\ children' = [children EXCEPT ![f] = AddChild(@, s)] /\ forest' = Append(forest, s)
      /\ unknown' = [unknown EXCEPT ![f] = @ \ {s}] /\ entered' = entered
  BY <1>1 DEF CallImport
<1>3. s \in Node /\ s \notin Parameter \cup Other
  BY <1>2, SymbolFacts
<1>4. /\ children' \in [Node -> Seq(Node)] /\ HasId(children'[f], Id(s))
      /\ \A g \in Function : \A id : HasId(children[g], id) => HasId(children'[g], id)
  BY <1>1, <1>2, <1>3, CallerGetsChild DEF BuildIInv
<1>5. forest' \in Seq(Node) /\ \A id : HasId(forest, id) => HasId(forest', id)
  BY <1>2, <1>3, HasIdAppend DEF BuildIInv, BuildTypeOK
<1>6. /\ unknown' \in [Function -> SUBSET Callable]
      /\ \A g \in Function : unknown[g] \cap (Parameter \cup Other) \subseteq unknown'[g]
  BY <1>2, <1>3 DEF BuildIInv, BuildTypeOK
<1>7. Answered(f, s)'
  BY <1>3, <1>4 DEF Answered
<1> QED
  BY <1>1, <1>2, <1>4, <1>5, <1>6, <1>7, Handled

LEMMA UnknownHandled ==
  ASSUME BuildIInv, NEW s \in Callable, CallUnknown(s)
  PROVE  BuildIInv'
<1>1. PICK f \in Function : f = Caller
  BY TakenFromTop DEF CallUnknown
<1>2. /\ s \in Parameter \cup Other /\ TakeCall(s) /\ CallDone(s)
      /\ unknown' = [unknown EXCEPT ![f] = @ \cup {s}]
      /\ forest' = forest /\ children' = children /\ entered' = entered
  BY <1>1 DEF CallUnknown
<1>3. /\ unknown' \in [Function -> SUBSET Callable] /\ s \in unknown'[f]
      /\ \A g \in Function : unknown[g] \subseteq unknown'[g]
  BY <1>2, <1>1 DEF BuildIInv, BuildTypeOK
<1>4. Answered(f, s)'
  BY <1>2, <1>3 DEF Answered
<1> QED
  BY <1>1, <1>2, <1>3, <1>4, Handled DEF BuildIInv, BuildTypeOK

LEMMA OpenHandled ==
  ASSUME BuildIInv, NEW s \in Callable, CallOpen(s)
  PROVE  BuildIInv'
<1>1. PICK f \in Function : f = Caller
  BY TakenFromTop DEF CallOpen
<1>2. /\ s \in entered /\ TakeCall(s) /\ CallDone(s)
      /\ children' = [children EXCEPT ![f] = AddChild(@, s)]
      /\ unknown' = unknown /\ forest' = forest /\ entered' = entered
  BY <1>1 DEF CallOpen
<1>3. s \in Node /\ s \notin Parameter \cup Other
  BY <1>2, SymbolFacts DEF BuildIInv, BuildTypeOK, Defined
<1>4. /\ children' \in [Node -> Seq(Node)] /\ HasId(children'[f], Id(s))
      /\ \A g \in Function : \A id : HasId(children[g], id) => HasId(children'[g], id)
  BY <1>1, <1>2, <1>3, CallerGetsChild DEF BuildIInv
<1>5. Answered(f, s)'
  BY <1>3, <1>4 DEF Answered
<1> QED
  BY <1>1, <1>2, <1>4, <1>5, Handled DEF BuildIInv, BuildTypeOK
-----------------------------------------------------------------------------
(* Entering a function puts it into the forest, and an activation on top.  *)
LEMMA EnterFacts ==
  ASSUME BuildIInv, NEW f \in Function, f \notin entered, NEW below \in Seq(Activation),
         calls' \in [Function -> SUBSET Callable], Enter(f, below),
         \A i \in DOMAIN below : below[i].fn \in entered /\ calls'[below[i].fn] = below[i].todo,
         \A i, j \in DOMAIN below : below[i].fn = below[j].fn => i = j
  PROVE  /\ frames' \in Seq(Activation) /\ forest' \in Seq(Node) /\ entered' = entered \cup {f}
         /\ Len(frames') = Len(below) + 1 /\ \A i \in DOMAIN below : frames'[i] = below[i]
         /\ frames'[Len(below) + 1].fn = f
         /\ FramesInOrder' /\ HasId(forest', f) /\ \A id : HasId(forest, id) => HasId(forest', id)
<1> DEFINE n == Len(below)
           new == [fn |-> f, todo |-> calls'[f]]
<1>1. /\ entered' = entered \cup {f} /\ frames' = Append(below, new)
      /\ forest' = IF HasId(forest, f) THEN forest ELSE Append(forest, f)
  BY DEF Enter
<1>2. new \in Activation /\ new.fn = f /\ new.todo = calls'[f]
  BY DEF Activation
<1> HIDE DEF new
<1>3. /\ frames' \in Seq(Activation) /\ n \in Nat /\ DOMAIN below = 1 .. n
      /\ Len(frames') = n + 1 /\ DOMAIN frames' = 1 .. n + 1
      /\ \A i \in DOMAIN below : frames'[i] = below[i]
      /\ frames'[n + 1] = new
  BY <1>1, <1>2
<1> HIDE DEF n
<1>4. \A i \in DOMAIN frames' : i = n + 1 \/ i \in DOMAIN below
  BY <1>3
<1>5. FramesInOrder'
  <2>1. \A i \in DOMAIN frames' : frames'[i].fn \in entered' /\ calls'[frames'[i].fn] = frames'[i].todo
    BY <1>1, <1>2, <1>3, <1>4
  <2>2. \A i \in DOMAIN below : frames'[i].fn # frames'[n + 1].fn
    BY <1>2, <1>3
  <2>3. \A i, j \in DOMAIN frames' : frames'[i].fn = frames'[j].fn => i = j
    BY <1>3, <1>4, <2>2
  <2> QED
    BY <2>1, <2>3 DEF FramesInOrder
<1>6. f \in Node /\ Id(f) = f
  BY SymbolFacts, IdFacts DEF Defined
<1>7. /\ forest' \in Seq(Node) /\ HasId(forest', f)
      /\ \A id : HasId(forest, id) => HasId(forest', id)
  BY <1>1, <1>6, HasIdAppend DEF BuildIInv, BuildTypeOK
<1> QED
  BY <1>1, <1>2, <1>3, <1>5, <1>7 DEF n

LEMMA QueueFacts ==
  ASSUME NEW q \in Seq(Function), q # <<>>
  PROVE  /\ Head(q) \in Function /\ Tail(q) \in Seq(Function)
         /\ ToSet(q) \subseteq ToSet(Tail(q)) \cup {Head(q)}
<1> DEFINE rest == Tail(q)
<1>1. /\ Head(q) \in Function /\ rest \in Seq(Function) /\ Head(q) = q[1]
      /\ Len(rest) = Len(q) - 1 /\ \A k \in 1 .. Len(rest) : rest[k] = q[k + 1]
      /\ Len(q) \in Nat /\ DOMAIN q = 1 .. Len(q) /\ DOMAIN rest = 1 .. Len(rest)
  BY HeadTailProperties
<1> HIDE DEF rest
<1>2. ASSUME NEW i \in DOMAIN q PROVE q[i] \in ToSet(rest) \cup {Head(q)}
  <2>1. CASE i = 1
    BY <1>1, <2>1
  <2>2. CASE i # 1
    <3>1. i - 1 \in DOMAIN rest /\ rest[i - 1] = q[i]
      BY <1>1, <2>2
    <3> QED
      BY <3>1 DEF ToSet
  <2> QED
    BY <2>1, <2>2
<1> QED
  BY <1>1, <1>2 DEF ToSet, rest

LEMMA StartKeepsBuild ==
  ASSUME BuildIInv, StartFunction
  PROVE  BuildIInv'
<1>1. PICK f : f = Head(queue)
  OBVIOUS
<1>2. /\ frames = <<>> /\ queue # <<>> /\ f \notin entered /\ queue' = Tail(queue)
      /\ raw' = raw /\ calls' = calls /\ unknown' = unknown /\ children' = children
      /\ Enter(f, <<>>)
  BY <1>1 DEF StartFunction
<1>3. /\ f \in Function /\ queue' \in Seq(Function)
      /\ ToSet(queue) \subseteq ToSet(queue') \cup {f}
  BY <1>1, <1>2, QueueFacts DEF BuildIInv, BuildTypeOK
<1>4. PICK below \in Seq(Activation) : below = <<>>
  BY EmptySeq
<1>5. calls' \in [Function -> SUBSET Callable]
  BY <1>2 DEF BuildIInv, BuildTypeOK
<1>6. /\ frames' \in Seq(Activation) /\ forest' \in Seq(Node) /\ entered' = entered \cup {f}
      /\ Len(frames') = 1 /\ frames'[1].fn = f /\ FramesInOrder' /\ HasId(forest', f)
      /\ \A id : HasId(forest, id) => HasId(forest', id)
  <2>1. Len(below) = 0 /\ DOMAIN below = {}
    <3>1. Len(below) = 0
      BY <1>4, EmptySeq
    <3> QED
      BY <3>1
  <2>2. Enter(f, below)
    BY <1>2, <1>4
  <2>3. /\ \A i \in DOMAIN below : below[i].fn \in entered /\ calls'[below[i].fn] = below[i].todo
        /\ \A i, j \in DOMAIN below : below[i].fn = below[j].fn => i = j
    BY <2>1
  <2>4. f \notin entered /\ Len(below) + 1 = 1
    BY <1>2, <2>1
  <2>5. /\ frames' \in Seq(Activation) /\ forest' \in Seq(Node) /\ entered' = entered \cup {f}
        /\ Len(frames') = Len(below) + 1 /\ frames'[Len(below) + 1].fn = f /\ FramesInOrder' /\ HasId(forest', f)
        /\ \A id : HasId(forest, id) => HasId(forest', id)
    BY <1>3, <1>5, <2>2, <2>3, <2>4, EnterFacts
  <2> QED
    BY <2>4, <2>5
<1>7. BuildTypeOK'
  <2>1. /\ raw' \in [Function -> SUBSET Callable] /\ unknown' \in [Function -> SUBSET Callable]
        /\ children' \in [Node -> Seq(Node)] /\ entered' \subseteq Function
    BY <1>2, <1>3, <1>6 DEF BuildIInv, BuildTypeOK
  <2> QED
    BY <1>3, <1>5, <1>6, <2>1 DEF BuildTypeOK
<1>8. EveryCallLeadsSomewhere'
  <2>1. \A g, t : ~Awaited(g, t)
    BY <1>2 DEF Awaited
  <2> QED
    BY <1>2, <2>1 DEF BuildIInv, EveryCallLeadsSomewhere, Answered
<1>9. OpenAreInProgress'
  <2>1. \A g : ~InProgress(g)
    BY <1>2 DEF InProgress
  <2>2. InProgress(f)'
    BY <1>6 DEF InProgress
  <2> QED
    BY <1>2, <1>6, <2>1, <2>2 DEF BuildIInv, OpenAreInProgress
<1>10. Covered'
  <2>1. \A g \in Function : Finished(g) => Finished(g)'
    BY <1>2, <1>6 DEF Finished
  <2> QED
    BY <1>3, <1>6, <2>1 DEF BuildIInv, Covered
<1> QED
  BY <1>6, <1>7, <1>8, <1>9, <1>10 DEF BuildIInv

(* A call that leads to a function for the first time is awaited by the    *)
(* activation below that of the function.                                  *)
LEMMA RecurseKeepsBuild ==
  ASSUME BuildIInv, NEW s \in Callable, CallRecurse(s)
  PROVE  BuildIInv'
<1> DEFINE n == Len(frames)
           taken == [frames EXCEPT ![n].todo = @ \ {s}]
<1>1. /\ s \in Function /\ s \notin entered /\ TakeCall(s) /\ Enter(s, taken)
      /\ unknown' = unknown /\ children' = children
  BY DEF CallRecurse
<1>2. PICK f \in Function : f = Caller
  BY <1>1, TakenFromTop
<1>3. /\ n \in Nat \ {0} /\ n \in DOMAIN frames /\ f = frames[n].fn
      /\ taken \in Seq(Activation) /\ Len(taken) = n /\ DOMAIN taken = DOMAIN frames
      /\ \A i \in DOMAIN frames : taken[i].fn = frames[i].fn
      /\ \A i \in DOMAIN frames : taken[i].todo = calls'[frames[i].fn]
      /\ calls' \in [Function -> SUBSET Callable] /\ raw' = raw /\ queue' = queue
      /\ \A g \in Function : calls'[g] = IF g = f THEN calls[g] \ {s} ELSE calls[g]
  BY <1>1, <1>2, TakenFromTop
<1> HIDE DEF n, taken
<1>4. /\ \A i \in DOMAIN taken : taken[i].fn \in entered /\ calls'[taken[i].fn] = taken[i].todo
      /\ \A i, j \in DOMAIN taken : taken[i].fn = taken[j].fn => i = j
  BY <1>3 DEF BuildIInv, FramesInOrder
<1>5. /\ frames' \in Seq(Activation) /\ forest' \in Seq(Node) /\ entered' = entered \cup {s}
      /\ Len(frames') = n + 1 /\ \A i \in DOMAIN taken : frames'[i] = taken[i]
      /\ frames'[n + 1].fn = s /\ FramesInOrder' /\ HasId(forest', s)
      /\ \A id : HasId(forest, id) => HasId(forest', id)
  BY <1>1, <1>3, <1>4, EnterFacts
<1>6. DOMAIN frames = 1 .. n /\ DOMAIN frames' = 1 .. n + 1 /\ \A i \in 1 .. n : frames'[i].fn = frames[i].fn
  <2>1. DOMAIN frames = 1 .. n /\ DOMAIN frames' = 1 .. Len(frames')
    BY <1>5 DEF BuildIInv, BuildTypeOK, n
  <2> QED
    BY <1>3, <1>5, <2>1
<1>7. BuildTypeOK'
  BY <1>1, <1>3, <1>5 DEF BuildIInv, BuildTypeOK
<1>8. EveryCallLeadsSomewhere'
  <2>1. Awaited(f, s)'
    <3>1. n \in 1 .. Len(frames') - 1 /\ frames'[n].fn = f /\ frames'[n + 1].fn = s
      BY <1>3, <1>5, <1>6
    <3> QED
      BY <3>1 DEF Awaited
  <2>2. \A g, t : Awaited(g, t) => Awaited(g, t)'
    <3>1. \A i \in 1 .. n - 1 : i \in 1 .. n /\ i + 1 \in 1 .. n /\ i \in 1 .. Len(frames') - 1
      BY <1>3, <1>5
    <3> QED
      BY <1>6, <3>1 DEF Awaited, n
  <2>3. \A g, t : Answered(g, t) => Answered(g, t)'
    BY <1>1 DEF Answered
  <2> SUFFICES ASSUME NEW g \in Function, NEW t \in raw'[g] \ calls'[g]
               PROVE  Answered(g, t)' \/ Awaited(g, t)'
    BY DEF EveryCallLeadsSomewhere
  <2>4. CASE t \notin calls[g]
    BY <1>3, <2>2, <2>3, <2>4 DEF BuildIInv, EveryCallLeadsSomewhere
  <2> QED
    BY <1>3, <2>1, <2>4
<1>9. OpenAreInProgress'
  <2>1. InProgress(s)'
    <3>1. n + 1 \in DOMAIN frames'
      BY <1>3, <1>6
    <3> QED
      BY <1>5, <3>1 DEF InProgress
  <2>2. \A g : InProgress(g) => InProgress(g)'
    <3>1. 1 .. n \subseteq 1 .. n + 1
      BY <1>3
    <3> QED
      BY <1>6, <3>1 DEF InProgress
  <2>3. \A g \in entered : g \in Function /\ (calls'[g] # {} => calls[g] # {})
    BY <1>3 DEF BuildIInv, BuildTypeOK
  <2> QED
    BY <1>5, <2>1, <2>2, <2>3 DEF BuildIInv, OpenAreInProgress
<1>10. Covered'
  <2>1. \A g \in Function : Finished(g) => Finished(g)'
    BY <1>3, <1>5 DEF Finished
  <2> QED
    BY <1>3, <1>5, <2>1 DEF BuildIInv, Covered
<1> QED
  BY <1>5, <1>7, <1>8, <1>9, <1>10 DEF BuildIInv

(* A function is left when it has no calls left; the caller that awaits it *)
(* gets its node.                                                          *)
LEMMA ReturnKeepsBuild ==
  ASSUME BuildIInv, ReturnToCaller
  PROVE  BuildIInv'
<1>1. /\ frames # <<>> /\ Current.todo = {} /\ frames' = Front(frames)
      /\ raw' = raw /\ calls' = calls /\ unknown' = unknown /\ forest' = forest
      /\ entered' = entered /\ queue' = queue
  BY DEF ReturnToCaller
<1>2. frames \in Seq(Activation)
  BY DEF BuildIInv, BuildTypeOK
<1>3. PICK n : n = Len(frames)
  OBVIOUS
<1>4. /\ n \in Nat \ {0} /\ DOMAIN frames = 1 .. n /\ n \in DOMAIN frames
      /\ Current = frames[n] /\ \A i \in DOMAIN frames : frames[i] \in Activation
  BY <1>1, <1>2, <1>3 DEF Current, Last
<1>5. PICK s \in Function : s = frames[n].fn
  BY <1>4 DEF Activation
<1>6. Caller = s /\ calls[s] = {}
  BY <1>1, <1>4, <1>5 DEF Caller, BuildIInv, FramesInOrder
<1>7. /\ frames' \in Seq(Activation) /\ Len(frames') = n - 1 /\ DOMAIN frames' = 1 .. n - 1
      /\ \A i \in 1 .. n - 1 : frames'[i] = frames[i]
  <2>1. n - 1 \in Nat /\ n - 1 <= n /\ frames' = SubSeq(frames, 1, n - 1)
    BY <1>1, <1>3, <1>4 DEF Front
  <2>2. \A i \in 1 .. n - 1 : frames[i] \in Activation
    BY <1>4
  <2>3. PICK k \in Nat : k = n - 1
    BY <2>1
  <2>4. /\ frames' \in Seq(Activation) /\ Len(frames') = IF 1 <= k THEN k - 1 + 1 ELSE 0
        /\ \A i \in 1 .. k - 1 + 1 : frames'[i] = frames[1 + i - 1]
    BY <1>2, <1>3, <2>1, <2>2, <2>3, SubSeqProperties
  <2>5. Len(frames') = k /\ \A i \in 1 .. k : frames'[i] = frames[i]
    BY <2>4
  <2> QED
    BY <2>3, <2>4, <2>5
<1>8. s \in Node /\ Id(s) = s /\ s \notin Parameter \cup Other
  BY SymbolFacts, IdFacts DEF Defined
<1>9. /\ children' \in [Node -> Seq(Node)]
      /\ \A g \in Function : \A id : HasId(children[g], id) => HasId(children'[g], id)
      /\ n # 1 => HasId(children'[frames[n - 1].fn], s)
  <2>1. CASE n = 1
    BY <1>3, <2>1 DEF ReturnToCaller, BuildIInv, BuildTypeOK
  <2>2. CASE n # 1
    <3>1. n - 1 \in DOMAIN frames
      BY <1>4, <2>2
    <3>2. PICK f \in Function : f = frames[n - 1].fn
      BY <1>4, <3>1 DEF Activation
    <3>3. children' = [children EXCEPT ![f] = AddChild(@, s)]
      BY <1>3, <1>6, <2>2, <3>2 DEF ReturnToCaller
    <3>4. /\ children' \in [Node -> Seq(Node)] /\ HasId(children'[f], Id(s))
          /\ \A g \in Function : \A id : HasId(children[g], id) => HasId(children'[g], id)
      BY <1>8, <3>3, CallerGetsChild DEF BuildIInv
    <3> QED
      BY <1>8, <3>2, <3>4
  <2> QED
    BY <2>1, <2>2
<1>10. BuildTypeOK'
  BY <1>1, <1>7, <1>9 DEF BuildIInv, BuildTypeOK
<1>11. EveryCallLeadsSomewhere'
  <2> SUFFICES ASSUME NEW f \in Function, NEW t \in raw[f] \ calls[f]
               PROVE  Answered(f, t)' \/ Awaited(f, t)'
    BY <1>1 DEF EveryCallLeadsSomewhere
  <2>1. CASE Answered(f, t)
    BY <1>1, <1>9, <2>1 DEF Answered
  <2>2. CASE Awaited(f, t)
    <3>1. PICK i \in 1 .. n - 1 : frames[i].fn = f /\ frames[i + 1].fn = t
      BY <1>3, <2>2 DEF Awaited
    <3>2. CASE i = n - 1
      <4>1. t = s /\ n # 1 /\ frames[n - 1].fn = f
        BY <1>4, <1>5, <3>1, <3>2
      <4> QED
        BY <1>8, <1>9, <4>1 DEF Answered
    <3>3. CASE i # n - 1
      <4>1. i \in 1 .. Len(frames') - 1 /\ i \in 1 .. n - 1 /\ i + 1 \in 1 .. n - 1
        BY <1>4, <1>7, <3>1, <3>3
      <4>2. frames'[i].fn = f /\ frames'[i + 1].fn = t
        BY <1>7, <3>1, <4>1
      <4> QED
        BY <4>1, <4>2 DEF Awaited
    <3> QED
      BY <3>2, <3>3
  <2> QED
    BY <2>1, <2>2 DEF BuildIInv, EveryCallLeadsSomewhere
<1>12. 1 .. n - 1 \subseteq 1 .. n /\ \A i \in 1 .. n : i = n \/ i \in 1 .. n - 1
  BY <1>4
<1>13. FramesInOrder'
  BY <1>1, <1>4, <1>7, <1>12 DEF BuildIInv, FramesInOrder
<1>14. OpenAreInProgress'
  <2>1. \A g : InProgress(g) => g = s \/ InProgress(g)'
    BY <1>4, <1>5, <1>7, <1>12 DEF InProgress
  <2> QED
    BY <1>1, <1>6, <2>1 DEF BuildIInv, OpenAreInProgress
<1>15. Covered'
  BY <1>1 DEF BuildIInv, Covered, Finished
<1> QED
  BY <1>10, <1>11, <1>13, <1>14, <1>15 DEF BuildIInv

LEMMA SkipKeepsBuild ==
  ASSUME BuildIInv, SkipFunction
  PROVE  BuildIInv'
<1>1. PICK f : f = Head(queue)
  OBVIOUS
<1>2. /\ queue # <<>> /\ (Finished(f) \/ f \in entered) /\ queue' = Tail(queue)
      /\ UNCHANGED <<raw, calls, unknown, forest, children, entered, frames>>
  BY <1>1 DEF SkipFunction
<1>3. queue' \in Seq(Function) /\ ToSet(queue) \subseteq ToSet(queue') \cup {f}
  BY <1>1, <1>2, QueueFacts DEF BuildIInv, BuildTypeOK
<1>4. BuildTypeOK'
  BY <1>2, <1>3 DEF BuildIInv, BuildTypeOK
<1>5. EveryCallLeadsSomewhere' /\ FramesInOrder' /\ OpenAreInProgress'
  <2>1. EveryCallLeadsSomewhere'
    BY <1>2 DEF BuildIInv, EveryCallLeadsSomewhere, Answered, Awaited
  <2>2. FramesInOrder'
    BY <1>2 DEF BuildIInv, FramesInOrder
  <2>3. OpenAreInProgress'
    BY <1>2 DEF BuildIInv, OpenAreInProgress, InProgress
  <2> QED
    BY <2>1, <2>2, <2>3
<1>6. Covered'
  BY <1>2, <1>3 DEF BuildIInv, Covered, Finished
<1> QED
  BY <1>4, <1>5, <1>6 DEF BuildIInv
-----------------------------------------------------------------------------
(* Every step of the builder keeps it: the loop over raw_reasons, and each *)
(* branch of _built_call_graph and its return.                             *)
LEMMA BuildStep == BuildIInv /\ [BuildNext]_buildVars => BuildIInv'
<1> SUFFICES ASSUME BuildIInv, [BuildNext]_buildVars PROVE BuildIInv'
  OBVIOUS
<1>1. CASE SkipFunction
  BY <1>1, SkipKeepsBuild
<1>2. CASE StartFunction
  BY <1>2, StartKeepsBuild
<1>3. CASE ReturnToCaller
  BY <1>3, ReturnKeepsBuild
<1>4. ASSUME NEW s \in Callable, CallBuiltin(s) PROVE BuildIInv'
  BY <1>4, BuiltinHandled
<1>5. ASSUME NEW s \in Callable, CallFinished(s) PROVE BuildIInv'
  BY <1>5, FinishedHandled
<1>6. ASSUME NEW s \in Callable, CallImport(s) PROVE BuildIInv'
  BY <1>6, ImportHandled
<1>7. ASSUME NEW s \in Callable, CallUnknown(s) PROVE BuildIInv'
  BY <1>7, UnknownHandled
<1>8. ASSUME NEW s \in Callable, CallOpen(s) PROVE BuildIInv'
  BY <1>8, OpenHandled
<1>9. ASSUME NEW s \in Callable, CallRecurse(s) PROVE BuildIInv'
  BY <1>9, RecurseKeepsBuild
<1>10. CASE UNCHANGED buildVars
  <2>1. /\ raw' = raw /\ calls' = calls /\ unknown' = unknown /\ forest' = forest
        /\ children' = children /\ entered' = entered /\ queue' = queue /\ frames' = frames
    BY <1>10 DEF buildVars
  <2>2. BuildTypeOK'
    BY <2>1 DEF BuildIInv, BuildTypeOK
  <2>3. EveryCallLeadsSomewhere'
    BY <2>1 DEF BuildIInv, EveryCallLeadsSomewhere, Answered, Awaited
  <2>4. FramesInOrder'
    BY <2>1 DEF BuildIInv, FramesInOrder
  <2>5. OpenAreInProgress'
    BY <2>1 DEF BuildIInv, OpenAreInProgress, InProgress
  <2>6. Covered'
    BY <2>1 DEF BuildIInv, Covered, Finished
  <2> QED
    BY <2>2, <2>3, <2>4, <2>5, <2>6 DEF BuildIInv
<1> QED
  BY <1>1, <1>2, <1>3, <1>4, <1>5, <1>6, <1>7, <1>8, <1>9, <1>10 DEF BuildNext

-----------------------------------------------------------------------------
(* A function that is in the forest under its id is there itself.          *)
LEMMA FunctionIsThere ==
  ASSUME NEW nodes \in Seq(Node), NEW f \in Defined
  PROVE  f \in Node /\ (HasId(nodes, f) <=> f \in ToSet(nodes))
<1>1. f \in Inner /\ f \in Node /\ Id(f) = f
  BY InnerFacts DEF Inner, Node
<1> QED
  BY <1>1, HasIdInner

(* The forest, the children and the activations stay what was called.      *)
LEMMA LinksStart ==
  ASSUME BuildInit
  PROVE  Links
<1>1. /\ calls = raw /\ unknown = [f \in Function |-> raw[f] \cap MemberCall]
      /\ frames = <<>> /\ forest = PreparedForest
      /\ children = [n \in Node |-> IF n \in Class THEN Ctors[n] ELSE <<>>]
  BY DEF BuildInit
<1>2. ForestGrows
  <2>1. InForest \subseteq Defined
    BY <1>1, PreparedFacts DEF InForest, ToSet
  <2> QED
    BY <1>1, <2>1, PreparedFacts DEF ForestGrows, InForest
<1>3. Function \cap Class = {} /\ Function \subseteq Node /\ Class \subseteq Node
  BY SymbolFacts, Kinds DEF Defined
<1>4. ChildrenAreCalled
  <2> SUFFICES ASSUME NEW f \in Function
               PROVE  Calls(children, f) = {} /\ calls[f] \subseteq raw[f] /\ unknown[f] \cap Defined = {}
    BY DEF ChildrenAreCalled
  <2>1. children[f] = <<>> /\ ToSet(<<>>) = {}
    BY <1>1, <1>3 DEF ToSet
  <2>2. MemberCall \cap Defined = {}
    BY ModuleIsWellFormed, Kinds DEF External
  <2> QED
    BY <1>1, <2>1, <2>2 DEF Calls
<1>5. OthersAsPrepared
  BY <1>1 DEF OthersAsPrepared
<1>6. FramesAreCalled
  <2>1. Len(frames) = 0 /\ 1..0 - 1 = {}
    BY <1>1
  <2> QED
    BY <2>1 DEF FramesAreCalled
<1> QED
  BY <1>2, <1>4, <1>5, <1>6 DEF Links

(* A new child of a function that it calls, or that is not defined here.   *)
LEMMA ChildLinked ==
  ASSUME BuildTypeOK, ForestGrows, ChildrenAreCalled, OthersAsPrepared,
         NEW f \in Function, NEW c \in Node,
         children' = [children EXCEPT ![f] = AddChild(@, c)], raw' = raw,
         InForest \subseteq InForest', InForest' \subseteq Defined \cup Import,
         c \in InForest' \cup Builtin, c \in Defined => c \in raw[f],
         \A g \in Function : calls'[g] \subseteq calls[g] /\ unknown'[g] \subseteq unknown[g]
  PROVE  ForestGrows' /\ ChildrenAreCalled' /\ OthersAsPrepared'
<1>1. /\ Calls(children', f) \subseteq Calls(children, f) \cup {c}
      /\ \A g \in Node : g # f => children'[g] = children[g]
  BY CallerGetsChild
<1>2. Function \subseteq Node
  BY SymbolFacts DEF Defined
<1>3. ForestGrows'
  BY DEF ForestGrows
<1>4. \A g \in Function : Calls(children', g) \subseteq Calls(children, g) \cup (IF g = f THEN {c} ELSE {})
  BY <1>1, <1>2 DEF Calls
<1>5. ChildrenAreCalled'
  BY <1>4 DEF ChildrenAreCalled
<1>6. OthersAsPrepared'
  BY <1>1 DEF OthersAsPrepared
<1> QED
  BY <1>3, <1>5, <1>6

(* The activations stay when a call is handled on the spot.                *)
LEMMA CallersStay ==
  ASSUME BuildIInv, Links, NEW s \in Callable, TakeCall(s)
  PROVE  /\ Caller \in Function /\ s \in raw[Caller] /\ raw' = raw
         /\ \A g \in Function : calls'[g] \subseteq calls[g]
         /\ CallDone(s) => FramesAreCalled'
<1> DEFINE n == Len(frames)
           taken == [frames EXCEPT ![n].todo = @ \ {s}]
<1>1. /\ Caller \in Function /\ s \in calls[Caller] /\ n \in Nat /\ raw' = raw
      /\ Len(taken) = n /\ DOMAIN taken = DOMAIN frames
      /\ \A i \in DOMAIN frames : taken[i].fn = frames[i].fn
      /\ \A g \in Function : calls'[g] = IF g = Caller THEN calls[g] \ {s} ELSE calls[g]
  BY TakenFromTop
<1>2. CallDone(s) => frames' = taken
  BY DEF CallDone
<1>3. DOMAIN frames = 1..n
  BY DEF BuildIInv, BuildTypeOK
<1> HIDE DEF n, taken
<1>4. \A i \in 1..n - 1 : i \in 1..n /\ i + 1 \in 1..n
  BY <1>1
<1>5. \A i \in 1..n - 1 : frames[i + 1].fn \in raw[frames[i].fn]
  BY DEF Links, FramesAreCalled, n
<1>6. CallDone(s) => FramesAreCalled'
  BY <1>1, <1>2, <1>3, <1>4, <1>5 DEF FramesAreCalled
<1> QED
  BY <1>1, <1>6 DEF Links, ChildrenAreCalled

LEMMA BuiltinLinked ==
  ASSUME BuildIInv, Links, NEW s \in Callable, CallBuiltin(s)
  PROVE  Links'
<1>1. PICK f \in Function : f = Caller
  BY CallersStay DEF CallBuiltin
<1>2. /\ s \in Builtin /\ TakeCall(s) /\ CallDone(s)
      /\ children' = [children EXCEPT ![f] = AddChild(@, s)]
      /\ unknown' = unknown /\ forest' = forest
  BY <1>1 DEF CallBuiltin
<1>3. s \in Node /\ s \notin Defined /\ InForest' = InForest
  BY <1>2, Kinds DEF External, InForest
<1>4. /\ raw' = raw /\ FramesAreCalled'
      /\ \A g \in Function : calls'[g] \subseteq calls[g] /\ unknown'[g] \subseteq unknown[g]
  BY <1>2, CallersStay
<1>5. /\ BuildTypeOK /\ ForestGrows /\ ChildrenAreCalled /\ OthersAsPrepared
      /\ InForest' \subseteq Defined \cup Import
  BY <1>3 DEF BuildIInv, Links, ForestGrows
<1>6. ForestGrows' /\ ChildrenAreCalled' /\ OthersAsPrepared'
  BY <1>2, <1>3, <1>4, <1>5, ChildLinked
<1> QED
  BY <1>4, <1>6 DEF Links

LEMMA FinishedLinked ==
  ASSUME BuildIInv, Links, NEW s \in Callable, CallFinished(s)
  PROVE  Links'
<1>1. PICK f \in Function : f = Caller
  BY CallersStay DEF CallFinished
<1> DEFINE c == GraphOf(s)
<1>2. /\ TakeCall(s) /\ CallDone(s) /\ HasId(forest, Id(s)) /\ s \notin Builtin
      /\ children' = [children EXCEPT ![f] = AddChild(@, c)]
      /\ unknown' = unknown /\ forest' = forest
  BY <1>1 DEF CallFinished
<1>3. c \in InForest /\ Id(c) = Id(s)
  BY <1>2 DEF HasId, GraphOf, InForest
<1> HIDE DEF c
<1>4. /\ raw' = raw /\ FramesAreCalled' /\ s \in raw[f]
      /\ \A g \in Function : calls'[g] \subseteq calls[g] /\ unknown'[g] \subseteq unknown[g]
  BY <1>1, <1>2, CallersStay
<1>5. /\ BuildTypeOK /\ ForestGrows /\ ChildrenAreCalled /\ OthersAsPrepared
      /\ InForest' = InForest /\ InForest \subseteq Defined \cup Import
  BY <1>2 DEF BuildIInv, Links, ForestGrows, InForest
<1>6. c \in Node /\ (c \in Defined => c \in raw[f])
  <2>1. c \in Node
    BY <1>3, <1>5, SymbolFacts
  <2>2. ASSUME c \in Defined PROVE c = s
    <3>1. s \in Node
      BY <1>3, <2>1, <2>2, IdFacts, InnerFacts DEF Callable, Node, Inner
    <3> QED
      BY <1>3, <2>2, <3>1, InnerFacts DEF Inner
  <2> QED
    BY <1>4, <2>1, <2>2
<1>7. ForestGrows' /\ ChildrenAreCalled' /\ OthersAsPrepared'
  BY <1>2, <1>3, <1>4, <1>5, <1>6, ChildLinked
<1> QED
  BY <1>4, <1>7 DEF Links

LEMMA ImportLinked ==
  ASSUME BuildIInv, Links, NEW s \in Callable, CallImport(s)
  PROVE  Links'
<1>1. PICK f \in Function : f = Caller
  BY CallersStay DEF CallImport
<1>2. /\ s \in Import /\ TakeCall(s) /\ CallDone(s)
      /\ children' = [children EXCEPT ![f] = AddChild(@, s)] /\ forest' = Append(forest, s)
      /\ unknown' = [unknown EXCEPT ![f] = @ \ {s}]
  BY <1>1 DEF CallImport
<1>3. s \in Node /\ s \notin Defined
  BY <1>2, Kinds DEF External
<1>4. \A g \in Function : unknown'[g] \subseteq unknown[g]
  BY <1>2 DEF BuildIInv, BuildTypeOK
<1>5. /\ BuildTypeOK /\ ForestGrows /\ ChildrenAreCalled /\ OthersAsPrepared
      /\ forest \in Seq(Node)
  BY DEF BuildIInv, Links, BuildTypeOK
<1>6. InForest' = InForest \cup {s} /\ InForest' \subseteq Defined \cup Import
  <2>1. InForest' = InForest \cup {s}
    BY <1>2, <1>3, <1>5, AppendFacts DEF InForest
  <2> QED
    BY <1>2, <1>5, <2>1 DEF ForestGrows
<1>7. /\ raw' = raw /\ FramesAreCalled' /\ \A g \in Function : calls'[g] \subseteq calls[g]
  BY <1>2, CallersStay
<1>8. ForestGrows' /\ ChildrenAreCalled' /\ OthersAsPrepared'
  BY <1>2, <1>3, <1>4, <1>5, <1>6, <1>7, ChildLinked
<1> QED
  BY <1>7, <1>8 DEF Links

LEMMA UnknownLinked ==
  ASSUME BuildIInv, Links, NEW s \in Callable, CallUnknown(s)
  PROVE  Links'
<1>1. PICK f \in Function : f = Caller
  BY CallersStay DEF CallUnknown
<1>2. /\ s \in Parameter \cup Other /\ TakeCall(s) /\ CallDone(s)
      /\ unknown' = [unknown EXCEPT ![f] = @ \cup {s}]
      /\ forest' = forest /\ children' = children
  BY <1>1 DEF CallUnknown
<1>3. s \notin Defined
  BY <1>2, SymbolFacts DEF Defined
<1>4. \A g \in Function : unknown'[g] \subseteq unknown[g] \cup {s}
  BY <1>2 DEF BuildIInv, BuildTypeOK
<1>5. /\ raw' = raw /\ FramesAreCalled' /\ \A g \in Function : calls'[g] \subseteq calls[g]
  BY <1>2, CallersStay
<1>6. ForestGrows' /\ OthersAsPrepared' /\ InForest' = InForest
  BY <1>2 DEF Links, ForestGrows, OthersAsPrepared, InForest
<1>7. ChildrenAreCalled'
  BY <1>2, <1>3, <1>4, <1>5, <1>6 DEF Links, ChildrenAreCalled, Calls
<1> QED
  BY <1>5, <1>6, <1>7 DEF Links

LEMMA OpenLinked ==
  ASSUME BuildIInv, Links, NEW s \in Callable, CallOpen(s)
  PROVE  Links'
<1>1. PICK f \in Function : f = Caller
  BY CallersStay DEF CallOpen
<1>2. /\ s \in entered /\ TakeCall(s) /\ CallDone(s)
      /\ children' = [children EXCEPT ![f] = AddChild(@, s)]
      /\ unknown' = unknown /\ forest' = forest
  BY <1>1 DEF CallOpen
<1>3. s \in Node /\ s \in InForest
  <2>1. s \in Function /\ HasId(forest, s)
    BY <1>2 DEF BuildIInv, BuildTypeOK, Covered
  <2> QED
    BY <2>1, FunctionIsThere DEF BuildIInv, BuildTypeOK, InForest, Defined
<1>4. /\ raw' = raw /\ FramesAreCalled' /\ s \in raw[f]
      /\ \A g \in Function : calls'[g] \subseteq calls[g] /\ unknown'[g] \subseteq unknown[g]
  BY <1>1, <1>2, CallersStay
<1>5. /\ BuildTypeOK /\ ForestGrows /\ ChildrenAreCalled /\ OthersAsPrepared
      /\ InForest' = InForest /\ InForest \subseteq Defined \cup Import
  BY <1>2 DEF BuildIInv, Links, ForestGrows, InForest
<1>6. ForestGrows' /\ ChildrenAreCalled' /\ OthersAsPrepared'
  BY <1>2, <1>3, <1>4, <1>5, ChildLinked
<1> QED
  BY <1>4, <1>6 DEF Links

LEMMA EnterForest ==
  ASSUME BuildTypeOK, NEW f \in Function, NEW below, Enter(f, below)
  PROVE  InForest' = InForest \cup {f}
<1>1. forest \in Seq(Node) /\ f \in Defined
  BY DEF BuildTypeOK, Defined
<1>2. f \in Node /\ (HasId(forest, f) <=> f \in ToSet(forest))
  BY <1>1, FunctionIsThere
<1>3. forest' = IF HasId(forest, f) THEN forest ELSE Append(forest, f)
  BY DEF Enter
<1>4. ToSet(Append(forest, f)) = ToSet(forest) \cup {f}
  BY <1>1, <1>2, AppendFacts
<1> QED
  BY <1>2, <1>3, <1>4 DEF InForest

(* Who is entered comes into the forest, and calls nobody yet.             *)
LEMMA EnterLinked ==
  ASSUME BuildTypeOK, Links, NEW f \in Function, NEW below, Enter(f, below),
         UNCHANGED <<raw, children, unknown>>, \A g \in Function : calls'[g] \subseteq calls[g]
  PROVE  ForestGrows' /\ ChildrenAreCalled' /\ OthersAsPrepared'
<1>1. InForest' = InForest \cup {f} /\ f \in Defined
  BY EnterForest DEF Defined
<1>2. ForestGrows' /\ OthersAsPrepared'
  BY <1>1 DEF Links, ForestGrows, OthersAsPrepared
<1>3. ChildrenAreCalled'
  BY <1>1 DEF Links, ChildrenAreCalled, Calls
<1> QED
  BY <1>2, <1>3

LEMMA StartLinked ==
  ASSUME BuildIInv, Links, StartFunction
  PROVE  Links'
<1>1. PICK f : f = Head(queue)
  OBVIOUS
<1>2. PICK below : below = <<>>
  OBVIOUS
<1>3. /\ queue # <<>> /\ UNCHANGED <<raw, calls, unknown, children>> /\ Enter(f, below)
  BY <1>1, <1>2 DEF StartFunction
<1>4. f \in Function
  BY <1>1, <1>3, QueueFacts DEF BuildIInv, BuildTypeOK
<1>5. ForestGrows' /\ ChildrenAreCalled' /\ OthersAsPrepared'
  BY <1>3, <1>4, EnterLinked DEF BuildIInv
<1>6. FramesAreCalled'
  <2>1. frames' = Append(<<>>, [fn |-> f, todo |-> calls'[f]])
    BY <1>2, <1>3 DEF Enter
  <2>2. Len(frames') = 1 /\ 1..1 - 1 = {}
    BY <2>1
  <2> QED
    BY <2>2 DEF FramesAreCalled
<1> QED
  BY <1>5, <1>6 DEF Links

LEMMA RecurseLinked ==
  ASSUME BuildIInv, Links, NEW s \in Callable, CallRecurse(s)
  PROVE  Links'
<1> DEFINE n == Len(frames)
           taken == [frames EXCEPT ![n].todo = @ \ {s}]
<1>1. /\ s \in Function /\ TakeCall(s) /\ Enter(s, taken) /\ UNCHANGED <<unknown, children>>
  BY DEF CallRecurse
<1>2. /\ n \in Nat \ {0} /\ Caller = frames[n].fn /\ raw' = raw
      /\ taken \in Seq(Activation) /\ Len(taken) = n /\ DOMAIN taken = DOMAIN frames
      /\ \A i \in DOMAIN frames : taken[i].fn = frames[i].fn
  BY <1>1, TakenFromTop
<1>3. s \in raw[Caller] /\ \A g \in Function : calls'[g] \subseteq calls[g]
  BY <1>1, CallersStay
<1>4. DOMAIN frames = 1..n /\ \A i \in 1..n - 1 : frames[i + 1].fn \in raw[frames[i].fn]
  BY DEF BuildIInv, BuildTypeOK, Links, FramesAreCalled
<1> DEFINE new == [fn |-> s, todo |-> calls'[s]]
<1>5. frames' = Append(taken, new) /\ new.fn = s
  BY <1>1 DEF Enter
<1> HIDE DEF n, taken, new
<1>6. ForestGrows' /\ ChildrenAreCalled' /\ OthersAsPrepared'
  BY <1>1, <1>2, <1>3, EnterLinked DEF BuildIInv
<1>7. /\ Len(frames') = n + 1 /\ frames'[n + 1] = new
      /\ \A i \in 1..n : frames'[i] = taken[i]
  BY <1>2, <1>5
<1>8. \A i \in 1..n : frames'[i].fn = frames[i].fn
  BY <1>2, <1>4, <1>7
<1>9. \A i \in 1..n + 1 - 1 : i \in 1..n /\ (i = n \/ (i \in 1..n - 1 /\ i + 1 \in 1..n))
  BY <1>2
<1>10. \A i \in 1..n + 1 - 1 : frames'[i + 1].fn \in raw[frames'[i].fn]
  BY <1>2, <1>3, <1>4, <1>5, <1>7, <1>8, <1>9
<1>11. FramesAreCalled'
  BY <1>2, <1>7, <1>10 DEF FramesAreCalled
<1> QED
  BY <1>6, <1>11 DEF Links

LEMMA ReturnLinked ==
  ASSUME BuildIInv, Links, ReturnToCaller
  PROVE  Links'
<1>1. PICK n : n = Len(frames)
  OBVIOUS
<1>2. /\ frames # <<>> /\ frames' = Front(frames) /\ UNCHANGED <<raw, calls, unknown, forest>>
      /\ children' = IF n = 1 THEN children
                     ELSE [children EXCEPT ![frames[n - 1].fn] = AddChild(@, Caller)]
  BY <1>1 DEF ReturnToCaller
<1>3. frames \in Seq(Activation) /\ n \in Nat \ {0} /\ DOMAIN frames = 1..n
  BY <1>1, <1>2 DEF BuildIInv, BuildTypeOK
<1>4. Len(frames') = n - 1 /\ \A i \in 1..n - 1 : frames'[i] = frames[i]
  BY <1>1, <1>2, <1>3, FrontFacts
<1>5. FramesAreCalled'
  <2>1. \A i \in 1..n - 1 - 1 : i \in 1..n - 1 /\ i + 1 \in 1..n - 1
    BY <1>3
  <2>2. \A i \in 1..n - 1 : frames[i + 1].fn \in raw[frames[i].fn]
    BY <1>1 DEF Links, FramesAreCalled
  <2> QED
    BY <1>2, <1>4, <2>1, <2>2 DEF FramesAreCalled
<1>6. CASE n = 1
  <2>1. children' = children /\ InForest' = InForest
    BY <1>2, <1>6 DEF InForest
  <2> QED
    BY <1>2, <1>5, <2>1 DEF Links, ForestGrows, ChildrenAreCalled, OthersAsPrepared, Calls
<1>7. CASE n # 1
  <2>1. n - 1 \in 1..n /\ n - 1 \in 1..n - 1 /\ n \in 1..n /\ n - 1 + 1 = n
    BY <1>3, <1>7
  <2>2. frames[n - 1] \in Activation /\ frames[n] \in Activation /\ Current = frames[n]
    BY <1>1, <1>2, <1>3, <2>1 DEF Current, Last
  <2>3. PICK f \in Function : f = frames[n - 1].fn
    BY <2>2 DEF Activation
  <2>4. PICK s \in Function : s = Caller
    BY <2>2 DEF Activation, Caller
  <2>5. s \in raw[f]
    <3>1. \A i \in 1..n - 1 : frames[i + 1].fn \in raw[frames[i].fn]
      BY <1>1 DEF Links, FramesAreCalled
    <3>2. frames[n - 1 + 1].fn \in raw[frames[n - 1].fn]
      BY <2>1, <3>1
    <3> QED
      BY <2>1, <2>2, <2>3, <2>4, <3>2 DEF Caller
  <2>6. s \in Node /\ s \in InForest
    <3>1. s \in entered
      BY <1>3, <2>1, <2>2, <2>4 DEF Caller, BuildIInv, FramesInOrder
    <3>2. HasId(forest, s) /\ forest \in Seq(Node) /\ s \in Defined
      BY <3>1 DEF BuildIInv, Covered, BuildTypeOK, Defined
    <3> QED
      BY <3>2, FunctionIsThere DEF InForest
  <2>7. children' = [children EXCEPT ![f] = AddChild(@, s)]
    BY <1>2, <1>7, <2>3, <2>4
  <2>8. /\ BuildTypeOK /\ ForestGrows /\ ChildrenAreCalled /\ OthersAsPrepared
        /\ InForest' = InForest /\ InForest \subseteq Defined \cup Import
    BY <1>2 DEF BuildIInv, Links, ForestGrows, InForest
  <2>9. ForestGrows' /\ ChildrenAreCalled' /\ OthersAsPrepared'
    BY <1>2, <2>5, <2>6, <2>7, <2>8, ChildLinked
  <2> QED
    BY <1>5, <2>9 DEF Links
<1> QED
  BY <1>6, <1>7

LEMMA SameLinks ==
  ASSUME Links, UNCHANGED <<raw, calls, unknown, forest, children, frames>>
  PROVE  Links'
<1>1. InForest' = InForest
  BY DEF InForest
<1>2. ForestGrows' /\ OthersAsPrepared' /\ FramesAreCalled'
  BY <1>1 DEF Links, ForestGrows, OthersAsPrepared, FramesAreCalled
<1>3. ChildrenAreCalled'
  BY <1>1 DEF Links, ChildrenAreCalled, Calls
<1> QED
  BY <1>2, <1>3 DEF Links

LEMMA LinksStep == BuildIInv /\ Links /\ [BuildNext]_buildVars => Links'
<1> SUFFICES ASSUME BuildIInv, Links, [BuildNext]_buildVars PROVE Links'
  OBVIOUS
<1>1. CASE SkipFunction
  <2>1. UNCHANGED <<raw, calls, unknown, forest, children, frames>>
    BY <1>1 DEF SkipFunction
  <2> QED
    BY <2>1, SameLinks
<1>2. CASE StartFunction
  BY <1>2, StartLinked
<1>3. CASE ReturnToCaller
  BY <1>3, ReturnLinked
<1>4. ASSUME NEW s \in Callable, CallBuiltin(s) PROVE Links'
  BY <1>4, BuiltinLinked
<1>5. ASSUME NEW s \in Callable, CallFinished(s) PROVE Links'
  BY <1>5, FinishedLinked
<1>6. ASSUME NEW s \in Callable, CallImport(s) PROVE Links'
  BY <1>6, ImportLinked
<1>7. ASSUME NEW s \in Callable, CallUnknown(s) PROVE Links'
  BY <1>7, UnknownLinked
<1>8. ASSUME NEW s \in Callable, CallOpen(s) PROVE Links'
  BY <1>8, OpenLinked
<1>9. ASSUME NEW s \in Callable, CallRecurse(s) PROVE Links'
  BY <1>9, RecurseLinked
<1>10. CASE UNCHANGED buildVars
  <2>1. UNCHANGED <<raw, calls, unknown, forest, children, frames>>
    BY <1>10 DEF buildVars
  <2> QED
    BY <2>1, SameLinks
<1> QED
  BY <1>1, <1>2, <1>3, <1>4, <1>5, <1>6, <1>7, <1>8, <1>9, <1>10 DEF BuildNext

LEMMA NothingLeft ==
  ASSUME BuildIInv
  PROVE  OpenOnesAreInProgress
<1>1. \A f \in entered : calls[f] # {} => InProgress(f)
  BY DEF BuildIInv, OpenAreInProgress
<1>2. ASSUME BuildDone, NEW f \in Function PROVE HasId(forest, f) /\ calls[f] = {}
  <2>1. /\ \A g : ~InProgress(g)
        /\ ToSet(queue) = {}
    BY <1>2 DEF BuildDone, InProgress, ToSet
  <2> QED
    BY <1>1, <2>1, IdFacts DEF BuildIInv, Covered, Finished
<1> QED
  BY <1>1, <1>2 DEF OpenOnesAreInProgress
-----------------------------------------------------------------------------
(* What the call graph has of the resolved calls when it is built.         *)
Resolved ==
  /\ raw \in [Function -> SUBSET Callable] /\ unknown \in [Function -> SUBSET Callable]
  /\ \A f \in Defined : Calls(built, f) \cap Defined = RawCalls(f)
  /\ \A f \in Function :
       /\ \A s \in raw[f] \cap (Import \cup Builtin) : HasId(built[f], Id(s))
       /\ raw[f] \cap Parameter \subseteq unknown[f]
       /\ unknown[f] \cap Defined = {}

LEMMA SequenceOver ==
  ASSUME NEW T, NEW s \in Seq(T), NEW U, ToSet(s) \subseteq U
  PROVE  s \in Seq(U)
<1>1. Len(s) \in Nat /\ DOMAIN s = 1..Len(s) /\ \A i \in 1..Len(s) : s[i] \in U
  BY DEF ToSet
<1>2. s = [i \in 1..Len(s) |-> s[i]]
  OBVIOUS
<1> DEFINE n == Len(s)
           t == [i \in 1..n |-> s[i]]
<1>3. t \in [1..n -> U] /\ n \in Nat
  BY <1>1
<1>4. t \in Seq(U)
  <2> HIDE DEF t, n
  <2> QED
    BY <1>3
<1> QED
  BY <1>2, <1>4

LEMMA BuiltForest ==
  ASSUME BuildIInv, Links, BuildDone
  PROVE  WellBuilt([forest |-> forest, children |-> children])
<1>1. /\ forest \in Seq(Node) /\ children \in [Node -> Seq(Node)]
      /\ ForestGrows /\ ChildrenAreCalled /\ OthersAsPrepared
  BY DEF BuildIInv, BuildTypeOK, Links
<1>2. Defined \subseteq InForest
  <2>1. ASSUME NEW f \in Function PROVE f \in InForest
    <3>1. HasId(forest, f) /\ f \in Defined
      BY <2>1, NothingLeft DEF OpenOnesAreInProgress, Defined
    <3> QED
      BY <1>1, <3>1, FunctionIsThere DEF InForest
  <2> QED
    BY <1>1, <2>1 DEF ForestGrows, Defined
<1>3. \A n \in Node : /\ Calls(children, n) \subseteq InForest \cup Builtin
                      /\ n \notin Defined => children[n] = <<>>
  <2> SUFFICES ASSUME NEW n \in Node
               PROVE  /\ Calls(children, n) \subseteq InForest \cup Builtin
                      /\ n \notin Defined => children[n] = <<>>
    OBVIOUS
  <2>1. CASE n \in Function
    BY <1>1, <2>1 DEF ChildrenAreCalled, Defined
  <2>2. CASE n \in Class \ Function
    BY <1>1, <2>2 DEF ForestGrows, OthersAsPrepared, Calls, Defined
  <2>3. CASE n \notin Defined
    <3>1. children[n] = <<>> /\ ToSet(<<>>) = {}
      BY <1>1, <2>3 DEF OthersAsPrepared, Defined, ToSet
    <3> QED
      BY <3>1 DEF Calls
  <2> QED
    BY <2>1, <2>2, <2>3 DEF Defined
<1>4. InForest \subseteq Defined \cup Import
  BY <1>1 DEF ForestGrows
<1>5. forest \in Seq(Defined \cup Import)
  BY <1>1, <1>4, SequenceOver DEF InForest
<1>6. children \in [Node -> Seq(Defined \cup Import \cup Builtin)]
  <2>1. ASSUME NEW n \in Node PROVE children[n] \in Seq(Defined \cup Import \cup Builtin)
    <3>1. children[n] \in Seq(Node)
      BY <1>1
    <3>2. ToSet(children[n]) \subseteq Defined \cup Import \cup Builtin
      BY <1>3, <1>4 DEF Calls
    <3> QED
      BY <3>1, <3>2, SequenceOver
  <2> QED
    BY <1>1, <2>1
<1> QED
  BY <1>2, <1>3, <1>5, <1>6 DEF WellBuilt, InForest

(* Every resolved call has been answered, and nobody waits any more.       *)
LEMMA BuiltCallsAreResolved ==
  ASSUME BuildIInv, Links, BuildDone, built' = children, UNCHANGED <<raw, unknown>>
  PROVE  Resolved'
<1>1. /\ raw \in [Function -> SUBSET Callable] /\ unknown \in [Function -> SUBSET Callable]
      /\ children \in [Node -> Seq(Node)] /\ ChildrenAreCalled /\ OthersAsPrepared
  BY DEF BuildIInv, BuildTypeOK, Links
<1>2. ASSUME NEW f \in Function, NEW s \in raw[f] PROVE Answered(f, s)
  <2>1. calls[f] = {}
    BY NothingLeft DEF OpenOnesAreInProgress
  <2>2. ~Awaited(f, s)
    <3>1. Len(frames) = 0 /\ 1..0 - 1 = {}
      BY DEF BuildDone
    <3> QED
      BY <3>1 DEF Awaited
  <2> QED
    BY <2>1, <2>2 DEF BuildIInv, EveryCallLeadsSomewhere
<1>3. ASSUME NEW f \in Function
      PROVE  /\ \A s \in raw[f] \cap (Import \cup Builtin) : HasId(children[f], Id(s))
             /\ raw[f] \cap Parameter \subseteq unknown[f]
             /\ raw[f] \cap Defined \subseteq Calls(children, f)
  <2>1. \A s \in raw[f] \cap (Import \cup Builtin) : HasId(children[f], Id(s))
    BY <1>2, SymbolFacts DEF Answered
  <2>2. raw[f] \cap Parameter \subseteq unknown[f]
    BY <1>2 DEF Answered
  <2>3. ASSUME NEW s \in raw[f] \cap Defined PROVE s \in Calls(children, f)
    <3>1. HasId(children[f], Id(s))
      BY <1>2, SymbolFacts DEF Answered, Defined
    <3>2. children[f] \in Seq(Node) /\ s \in Inner
      BY <1>1, SymbolFacts DEF Defined, Inner
    <3> QED
      BY <3>1, <3>2, HasIdInner DEF Calls
  <2> QED
    BY <2>1, <2>2, <2>3
<1>4. ASSUME NEW f \in Defined PROVE Calls(children, f) \cap Defined = RawCalls(f)
  <2>1. CASE f \in Class
    <3>1. f \in Node \ Function
      BY <2>1, SymbolFacts, Kinds
    <3>2. children[f] = Ctors[f]
      BY <1>1, <2>1, <3>1 DEF OthersAsPrepared
    <3>3. ToSet(Ctors[f]) \subseteq Defined
      BY <2>1, ModuleIsWellFormed DEF ToSet, Defined
    <3> QED
      BY <2>1, <3>2, <3>3 DEF RawCalls, Calls
  <2>2. CASE f \notin Class
    BY <1>1, <1>3, <2>2 DEF RawCalls, ChildrenAreCalled, Defined
  <2> QED
    BY <2>1, <2>2
<1>5. \A f \in Function : unknown[f] \cap Defined = {}
  BY <1>1 DEF ChildrenAreCalled
<1>6. \A f : Calls(built', f) = Calls(children, f) /\ RawCalls(f)' = RawCalls(f)
  BY DEF RawCalls
<1> QED
  BY <1>1, <1>3, <1>4, <1>5, <1>6 DEF Resolved
-----------------------------------------------------------------------------
(* The inductive invariant of the analysis: each phase keeps its own, what *)
(* it was given, and what the phase before it promises.                    *)
OwnReasons == [f \in Defined |-> ImpurityReasons(f)]

Contracted ==
  /\ Resolved /\ ContractionIInv /\ Condensed
  /\ OutsideCallsStay /\ BlameAddsUp(OwnReasons)

Analyzed == InferenceIInv /\ Blame /\ Recording

SearchNotStarted == removed = {} /\ path = <<>> /\ untried = <<>>

InferenceNotStarted ==
  /\ inferred = {} /\ result = [n \in Node |-> {}] /\ visited = {} /\ stack = <<>>
  /\ separated = {} /\ recorded = <<>> /\ marked = {} /\ outcome = "running"

AnalysisIInv ==
  /\ phase \in {"build", "contract", "infer"}
  /\ phase = "build" => BuildIInv /\ Links /\ SearchNotStarted
  /\ phase # "build" => Contracted
  /\ phase # "infer" => InferenceNotStarted
  /\ phase = "infer" => Analyzed

(* How a phase finds what the phase before it leaves.                      *)
LEMMA ContractionReady ==
  StartContraction /\ WellBuilt([forest |-> forest, children |-> children])
    /\ built = children /\ reasons \in [Node -> SUBSET Callable]
  => ContractionIInv /\ Condensed /\ OutsideCallsStay /\ OwnNodes = Defined
<1> SUFFICES ASSUME StartContraction,
                    WellBuilt([forest |-> forest, children |-> children]),
                    built = children, reasons \in [Node -> SUBSET Callable]
             PROVE  ContractionIInv /\ Condensed /\ OutsideCallsStay /\ OwnNodes = Defined
  OBVIOUS
<1>1. ContractionIInv /\ OwnNodes = Defined
  BY ContractionStarts
<1>2. Condensed
  BY StartRefines, CondensedInitially
<1> QED
  BY <1>1, <1>2, OutsideCallsStart

LEMMA InferenceReady == StartInference /\ GraphOK => Analyzed
BY InferenceStarts, InitBlame, RecordingStarts DEF Analyzed

(* What the inference may be given.                                        *)
LEMMA ContractedIsGraph == ContractionIInv /\ OutsideCallsStay /\ BlameAddsUp(OwnReasons) => GraphOK
<1> SUFFICES ASSUME ContractionIInv, OutsideCallsStay, BlameAddsUp(OwnReasons) PROVE GraphOK
  OBVIOUS
<1>1. /\ forest \in Seq(Outer) /\ children \in [Node -> Seq(Node)]
      /\ reasons \in [Node -> SUBSET Callable]
  BY DEF ContractionIInv, ContractionTypeOK, ChildrenOK
<1>2. InForest \subseteq Outer /\ OwnNodes \subseteq Inner /\ InForest \subseteq OwnNodes \cup Import
  BY <1>1 DEF InForest, ToSet, OwnNodes, Outer
<1>3. /\ Outer \subseteq Node \ Builtin /\ Import \cap Inner = {}
      /\ \A n \in Import : n \in Node /\ Members(n) = {n}
  <2>1. Import \cap Builtin = {} /\ Import \cap Combined = {} /\ Import \subseteq Node
    BY Kinds DEF External
  <2> QED
    BY <2>1, InnerFacts DEF Outer, Members
<1>4. forest \in Seq(Node \ Builtin)
  <2>1. ToSet(forest) \subseteq Node \ Builtin
    BY <1>2, <1>3 DEF InForest
  <2> QED
    BY <1>1, <2>1, SequenceOver
<1>5. \A n \in Import : Calls(children, n) = {}
  <2>1. \A n \in Import : children[n] = <<>>
    BY <1>3 DEF ContractionIInv, Leaves
  <2>2. ToSet(<<>>) = {}
    BY DEF ToSet
  <2> QED
    BY <2>1, <2>2 DEF Calls
<1>6. \A n \in InForest : Calls(children, n) \subseteq InForest \cup Builtin
  <2> SUFFICES ASSUME NEW n \in OwnNodes PROVE Calls(children, n) \subseteq InForest \cup Builtin
    BY <1>2, <1>5
  <2>1. n \in Node
    BY <1>2, InnerFacts
  <2>2. Calls(children, n) \subseteq Node
    BY <2>1, CallsAreNodes
  <2>3. /\ Calls(children, n) \cap Inner \subseteq InForest
        /\ Calls(children, n) \cap Import \subseteq InForest
    BY DEF ContractionIInv, NoOldNodes, OutsideCallsStay, OwnNodes
  <2> QED
    BY <2>2, <2>3 DEF Node, Inner
<1>7. \A m, n \in InForest : m = n \/ Members(m) \cap Members(n) = {}
  <2>1. \A m, n \in OwnNodes : m = n \/ Members(m) \cap Members(n) = {}
    BY DEF ContractionIInv, Apart
  <2>2. \A n \in OwnNodes : Members(n) \subseteq Defined
    BY <1>2, InnerFacts
  <2>3. Defined \cap Import = {}
    BY <1>3 DEF Inner
  <2> QED
    BY <1>2, <1>3, <2>1, <2>2, <2>3
<1>8. \A n \in InForest \cap Import : reasons[n] = {} /\ Calls(children, n) = {}
  BY <1>5 DEF BlameAddsUp
<1> QED
  BY <1>1, <1>4, <1>6, <1>7, <1>8 DEF GraphOK, WellContracted, InForest

(* The steps of the contraction and of the inference, and what stays when  *)
(* other phases are at work.                                               *)
LEMMA ContractedStep ==
  ASSUME Contracted, [ContractionNext]_contractionVars, UNCHANGED <<raw, unknown>>
  PROVE  Contracted'
<1>1. ContractionIInv'
  BY ContractionStep DEF Contracted
<1>2. Condensed'
  BY StepRefines, CondensedNext DEF Contracted
<1>3. PICK own : own = OwnReasons
  OBVIOUS
<1>4. own = OwnReasons'
  BY <1>3 DEF OwnReasons, ImpurityReasons
<1>5. BlameAddsUp(own)' /\ OutsideCallsStay'
  BY <1>3, OutsideStep DEF Contracted
<1>6. BlameAddsUp(OwnReasons)'
  BY <1>4, <1>5 DEF BlameAddsUp
<1>7. built' = built
  BY DEF ContractionNext, SkipRoot, StartSearch, TryLeaf, Descend, Backtrack, Contract,
         contractionVars
<1>8. Resolved'
  <2>1. \A f : Calls(built', f) = Calls(built, f) /\ RawCalls(f)' = RawCalls(f)
    BY <1>7 DEF RawCalls
  <2> QED
    BY <1>7, <2>1 DEF Resolved, Contracted
<1> QED
  BY <1>1, <1>2, <1>5, <1>6, <1>8 DEF Contracted

LEMMA AnalyzedStep ==
  ASSUME Analyzed, [InferenceNext]_inferenceVars
  PROVE  Analyzed'
BY InferenceStep, NextBlame, RecordingStep DEF Analyzed

LEMMA NotStartedStays ==
  ASSUME InferenceNotStarted,
         UNCHANGED <<inferred, result, visited, stack, separated, recorded, marked, outcome>>
  PROVE  InferenceNotStarted'
BY DEF InferenceNotStarted
-----------------------------------------------------------------------------
LEMMA AnalysisStarts == Init => AnalysisIInv
<1> SUFFICES ASSUME Init PROVE AnalysisIInv
  OBVIOUS
<1>1. phase = "build" /\ BuildInit /\ StartContraction /\ StartInference
  BY DEF Init
<1>2. SearchNotStarted /\ InferenceNotStarted
  BY <1>1 DEF StartContraction, StartInference, SearchNotStarted, InferenceNotStarted
<1> QED
  BY <1>1, <1>2, BuildStarts, LinksStart DEF AnalysisIInv

LEMMA BuildKeeps ==
  ASSUME AnalysisIInv, Build
  PROVE  AnalysisIInv'
<1>1. /\ phase = "build" /\ phase' = "build" /\ BuildNext
      /\ UNCHANGED <<removed, path, untried>>
      /\ UNCHANGED <<inferred, result, visited, stack, separated, recorded, marked, outcome>>
  BY DEF Build, searchVars, inferVars
<1>2. BuildIInv /\ Links /\ SearchNotStarted /\ InferenceNotStarted
  BY <1>1 DEF AnalysisIInv
<1>3. BuildIInv' /\ Links'
  BY <1>1, <1>2, BuildStep, LinksStep
<1>4. SearchNotStarted' /\ InferenceNotStarted'
  BY <1>1, <1>2, NotStartedStays DEF SearchNotStarted
<1> QED
  BY <1>1, <1>3, <1>4 DEF AnalysisIInv

(* _handle_cycles starts on the forest that was built.                     *)
LEMMA HandleCyclesKeeps ==
  ASSUME AnalysisIInv, HandleCycles
  PROVE  AnalysisIInv'
<1>1. /\ phase = "build" /\ phase' = "contract" /\ BuildDone /\ built' = children
      /\ reasons' = [n \in Node |-> ImpurityReasons(n)] /\ searchRoots' = forest
      /\ UNCHANGED <<forest, children, raw, unknown, removed, path, untried>>
      /\ UNCHANGED <<inferred, result, visited, stack, separated, recorded, marked, outcome>>
  BY DEF HandleCycles, resolvedVars, inferVars
<1>2. BuildIInv /\ Links /\ SearchNotStarted /\ InferenceNotStarted
  BY <1>1 DEF AnalysisIInv
<1>3. StartContraction' /\ built' = children'
  BY <1>1, <1>2 DEF StartContraction, SearchNotStarted
<1>4. WellBuilt([forest |-> forest, children |-> children])'
  BY <1>1, <1>2, BuiltForest
<1>5. \A n \in Node : ImpurityReasons(n) \in SUBSET Callable
  BY <1>2, SymbolFacts DEF ImpurityReasons, BuildIInv, BuildTypeOK
<1>6. reasons' \in [Node -> SUBSET Callable]
  BY <1>1, <1>5
<1>7. (StartContraction /\ WellBuilt([forest |-> forest, children |-> children])
         /\ built = children /\ reasons \in [Node -> SUBSET Callable]
       => ContractionIInv /\ Condensed /\ OutsideCallsStay /\ OwnNodes = Defined)'
  BY ContractionReady, PTL
<1>8. ContractionIInv' /\ Condensed' /\ OutsideCallsStay' /\ OwnNodes' = Defined
  BY <1>3, <1>4, <1>6, <1>7
<1>9. BlameAddsUp(OwnReasons)'
  <2>1. \A n \in Node : reasons'[n] = ImpurityReasons(n) /\ ImpurityReasons(n)' = ImpurityReasons(n)
    BY <1>1 DEF ImpurityReasons
  <2>2. OwnReasons' = OwnReasons
    BY <1>1 DEF OwnReasons, ImpurityReasons
  <2>3. \A n \in Defined : n \in Node /\ Members(n) = {n} /\ OwnReasons[n] = ImpurityReasons(n)
    BY SymbolFacts, InnerFacts DEF OwnReasons
  <2>4. \A n \in Defined : reasons'[n] = UNION {OwnReasons[f] : f \in Members(n)}
    BY <2>1, <2>3
  <2>5. \A n \in Import : reasons'[n] = {}
    BY <2>1, SymbolFacts DEF ImpurityReasons
  <2> QED
    BY <1>8, <2>2, <2>4, <2>5 DEF BlameAddsUp
<1>10. Resolved'
  BY <1>1, <1>2, BuiltCallsAreResolved
<1>11. InferenceNotStarted'
  BY <1>1, <1>2, NotStartedStays
<1> QED
  BY <1>1, <1>8, <1>9, <1>10, <1>11 DEF AnalysisIInv, Contracted

LEMMA ContractCyclesKeeps ==
  ASSUME AnalysisIInv, ContractCycles
  PROVE  AnalysisIInv'
<1>1. /\ phase = "contract" /\ phase' = "contract" /\ ContractionNext
      /\ UNCHANGED <<raw, unknown>>
      /\ UNCHANGED <<inferred, result, visited, stack, separated, recorded, marked, outcome>>
  BY DEF ContractCycles, resolvedVars, inferVars
<1>2. Contracted /\ InferenceNotStarted
  BY <1>1 DEF AnalysisIInv
<1>3. Contracted' /\ InferenceNotStarted'
  BY <1>1, <1>2, ContractedStep, NotStartedStays
<1> QED
  BY <1>1, <1>3 DEF AnalysisIInv

(* The purity analysis starts on the contracted forest.                    *)
LEMMA AnalyzePurityKeeps ==
  ASSUME AnalysisIInv, AnalyzePurity
  PROVE  AnalysisIInv'
<1>1. /\ phase = "contract" /\ phase' = "infer" /\ roots' = forest
      /\ UNCHANGED contractionVars /\ UNCHANGED <<raw, unknown>>
      /\ UNCHANGED <<inferred, result, visited, stack, separated, recorded, marked, outcome>>
  BY DEF AnalyzePurity, resolvedVars, searchVars, contractionVars
<1>2. Contracted /\ InferenceNotStarted
  BY <1>1 DEF AnalysisIInv
<1>3. Contracted'
  BY <1>1, <1>2, ContractedStep
<1>4. StartInference'
  BY <1>1, <1>2 DEF StartInference, InferenceNotStarted, contractionVars
<1>5. (ContractionIInv /\ OutsideCallsStay /\ BlameAddsUp(OwnReasons) => GraphOK)'
  BY ContractedIsGraph, PTL
<1>6. (StartInference /\ GraphOK => Analyzed)'
  BY InferenceReady, PTL
<1>7. Analyzed'
  BY <1>3, <1>4, <1>5, <1>6 DEF Contracted
<1> QED
  BY <1>1, <1>3, <1>7 DEF AnalysisIInv

LEMMA InferKeeps ==
  ASSUME AnalysisIInv, Infer
  PROVE  AnalysisIInv'
<1>1. phase = "infer" /\ phase' = "infer" /\ InferenceNext /\ UNCHANGED <<raw, unknown>>
  BY DEF Infer, resolvedVars
<1>2. UNCHANGED contractionVars
  BY DEF Infer, searchVars, contractionVars, InferenceNext, SkipImport, KnownRoot, EnterRoot,
         KnownChild, EnterChild, Push, Return, Finish, graph
<1>3. Contracted /\ Analyzed
  BY <1>1 DEF AnalysisIInv
<1>4. Contracted' /\ Analyzed'
  BY <1>1, <1>2, <1>3, ContractedStep, AnalyzedStep
<1> QED
  BY <1>1, <1>4 DEF AnalysisIInv

LEMMA AnalysisStep == AnalysisIInv /\ [Next]_vars => AnalysisIInv'
<1> SUFFICES ASSUME AnalysisIInv, [Next]_vars PROVE AnalysisIInv'
  OBVIOUS
<1>1. CASE Next
  BY <1>1, BuildKeeps, HandleCyclesKeeps, ContractCyclesKeeps, AnalyzePurityKeeps, InferKeeps
     DEF Next
<1>2. CASE UNCHANGED vars
  <2>1. /\ phase' = phase /\ UNCHANGED buildVars /\ UNCHANGED contractionVars
        /\ UNCHANGED inferenceVars /\ UNCHANGED <<raw, unknown, removed, path, untried>>
        /\ UNCHANGED <<inferred, result, visited, stack, separated, recorded, marked, outcome>>
    BY <1>2 DEF vars, resolvedVars, searchVars, inferVars, buildVars, contractionVars,
                inferenceVars, graph
  <2>2. CASE phase = "build"
    BY <2>1, <2>2, BuildStep, LinksStep, NotStartedStays DEF AnalysisIInv, SearchNotStarted
  <2>3. CASE phase = "contract"
    BY <2>1, <2>3, ContractedStep, NotStartedStays DEF AnalysisIInv
  <2>4. CASE phase = "infer"
    BY <2>1, <2>4, ContractedStep, AnalyzedStep DEF AnalysisIInv
  <2> QED
    BY <2>2, <2>3, <2>4 DEF AnalysisIInv
<1> QED
  BY <1>1, <1>2

LEMMA AnalysisInductive == Spec => []AnalysisIInv
BY AnalysisStarts, AnalysisStep, PTL DEF Spec
-----------------------------------------------------------------------------
(* Who is where when the results are recorded.                             *)
LEMMA NodeOfFunction ==
  ASSUME Contracted
  PROVE  /\ \A f \in Defined : \E n \in OwnNodes : f \in Members(n)
         /\ \A n \in OwnNodes : n \in Inner /\ n \in InForest /\ Members(n) \subseteq Defined
         /\ \A m, n \in OwnNodes : \A f \in Members(m) \cap Members(n) : m = n
         /\ \A n \in InForest : n \notin OwnNodes => n \in Import /\ Members(n) \cap Defined = {}
<1>1. UNION Groups = Defined
  BY DEF Contracted, Condensed, Abs!Partition
<1>2. \A f \in Defined : \E n \in OwnNodes : f \in Members(n)
  BY <1>1 DEF Groups
<1>3. \A n \in OwnNodes : n \in Inner /\ n \in InForest
  BY GroupFacts DEF Contracted, OwnNodes
<1>4. \A m, n \in OwnNodes : m # n => Members(m) \cap Members(n) = {}
  BY GroupFacts DEF Contracted
<1>5. \A n \in InForest : n \notin OwnNodes => n \in Import
  BY DEF OwnNodes
<1>6. \A n \in Import : Members(n) \cap Defined = {}
  BY Kinds DEF External, Members
<1> QED
  BY <1>2, <1>3, <1>4, <1>5, <1>6, InnerFacts

(* A set that no call leads out of contains all functions of a node or     *)
(* none, and with those of a node those of all nodes that it leads to.     *)
LEMMA NodesReach ==
  ASSUME Contracted
  PROVE  /\ \A X \in RawClosed : \A n \in OwnNodes :
              Members(n) \subseteq X \/ Members(n) \cap X = {}
         /\ \A m, n \in OwnNodes : n \in Calls(children, m) =>
              \E a \in Members(m), b \in Members(n) : b \in RawCalls(a)
         /\ \A X \in RawClosed : \A m, n \in OwnNodes :
              n \in Calls(children, m) /\ Members(m) \cap X # {} => Members(n) \subseteq X
<1>1. ASSUME NEW X \in RawClosed
      PROVE  \A G \in Groups : G \subseteq X \/ G \cap X = {}
  <2>1. X \in SUBSET Defined /\ \A h \in X : RawCalls(h) \subseteq X
    BY DEF RawClosed
  <2>2. ASSUME NEW e \in BuiltCalls, e[1] \in X PROVE e[2] \in X
    <3>1. e[1] \in Defined /\ e[2] \in Defined /\ e[2] \in Calls(built, e[1])
      BY DEF BuiltCalls
    <3>2. e[2] \in RawCalls(e[1])
      BY <3>1 DEF Contracted, Resolved
    <3> QED
      BY <2>1, <2>2, <3>2
  <2>3. Abs!Closed(X)
    BY <2>2 DEF Abs!Closed
  <2> QED
    BY <2>1, <2>3 DEF Contracted, Condensed, Abs!GroupsCallEachOther
<1>2. \A X \in RawClosed : \A n \in OwnNodes : Members(n) \subseteq X \/ Members(n) \cap X = {}
  BY <1>1 DEF Groups
<1>3. ASSUME NEW m \in OwnNodes, NEW n \in OwnNodes, n \in Calls(children, m)
      PROVE  \E a \in Members(m), b \in Members(n) : b \in RawCalls(a)
  <2>1. <<Members(m), Members(n)>> \in GroupCalls
    BY <1>3, CallOfGroups
  <2>2. \E a \in <<Members(m), Members(n)>>[1], b \in <<Members(m), Members(n)>>[2] :
           <<a, b>> \in BuiltCalls
    BY <2>1 DEF Contracted, Condensed, Abs!CallsReal
  <2>3. PICK a \in Members(m), b \in Members(n) : <<a, b>> \in BuiltCalls
    BY <2>2
  <2>4. a \in Defined /\ b \in Calls(built, a) \cap Defined
    BY <2>3 DEF BuiltCalls
  <2> QED
    BY <2>4 DEF Contracted, Resolved
<1>4. ASSUME NEW X \in RawClosed, NEW m \in OwnNodes, NEW n \in OwnNodes,
             n \in Calls(children, m), Members(m) \cap X # {}
      PROVE  Members(n) \subseteq X
  <2>1. PICK a \in Members(m), b \in Members(n) : b \in RawCalls(a)
    BY <1>3, <1>4
  <2>2. a \in X
    BY <1>2, <1>4
  <2>3. b \in X
    BY <2>1, <2>2 DEF RawClosed
  <2> QED
    BY <1>2, <2>3
<1> QED
  BY <1>2, <1>3, <1>4

(* An imported function calls nothing.                                     *)
LEMMA ImportsCallNothing ==
  ASSUME Contracted, NEW n \in Import
  PROVE  Calls(children, n) = {}
<1>1. n \in Node \ Inner
  BY Kinds, InnerFacts DEF External
<1>2. children[n] = <<>> /\ ToSet(<<>>) = {}
  BY <1>1 DEF Contracted, ContractionIInv, Leaves, ToSet
<1> QED
  BY <1>2 DEF Calls

LEMMA LeadsReach ==
  ASSUME Contracted, NEW X \in RawClosed, NEW n \in OwnNodes, Members(n) \cap X # {},
         NEW m \in Leads(n), m \in OwnNodes
  PROVE  Members(m) \subseteq X
<1> DEFINE Y == {o \in InForest : o \in OwnNodes => Members(o) \subseteq X}
<1>1. Y \in ClosedUnderCalls(children, InForest)
  <2> SUFFICES ASSUME NEW o \in Y, NEW c \in Calls(children, o) \cap InForest, c \in OwnNodes
               PROVE  Members(c) \subseteq X
    BY DEF ClosedUnderCalls
  <2>1. o \in OwnNodes
    BY ImportsCallNothing DEF OwnNodes
  <2>2. Members(o) \cap X # {}
    BY <2>1, GroupFacts DEF Contracted
  <2> QED
    BY <2>1, <2>2, NodesReach
<1>2. n \in InForest /\ n \in Y
  BY NodesReach, NodeOfFunction
<1> QED
  BY <1>1, <1>2, BelowFacts DEF Leads

(* The members of what a node leads to call nobody else.                   *)
LEMMA BelowCoversCalls ==
  ASSUME Contracted, NEW n \in OwnNodes, NEW f \in Members(n), NEW g \in RawBelow(f)
  PROVE  \E m \in Leads(n) : m \in OwnNodes /\ g \in Members(m)
<1> DEFINE X == {h \in Defined : \E m \in Leads(n) : m \in OwnNodes /\ h \in Members(m)}
<1>1. n \in Leads(n) /\ f \in Defined /\ Leads(n) \subseteq InForest
  BY NodeOfFunction, BelowFacts DEF Leads
<1>2. ASSUME NEW h \in X, NEW k \in RawCalls(h) PROVE k \in X
  <2>1. PICK m \in Leads(n) : m \in OwnNodes /\ h \in Members(m)
    OBVIOUS
  <2>2. k \in Defined /\ k \in Calls(built, h)
    BY DEF Contracted, Resolved
  <2>3. PICK o \in OwnNodes : k \in Members(o)
    BY <2>2, NodeOfFunction
  <2>4. <<h, k>> \in BuiltCalls
    BY <2>2 DEF BuiltCalls
  <2>5. Members(m) \in Groups /\ Members(o) \in Groups
    BY <2>1, <2>3 DEF Groups
  <2>6. Members(m) = Members(o) \/ <<Members(m), Members(o)>> \in GroupCalls
    <3>1. \A e \in BuiltCalls : \A G, H \in Groups :
            e[1] \in G /\ e[2] \in H => G = H \/ <<G, H>> \in GroupCalls
      BY DEF Contracted, Condensed, Abs!CallsKept
    <3>2. <<h, k>>[1] \in Members(m) /\ <<h, k>>[2] \in Members(o)
      BY <2>1, <2>3
    <3> QED
      BY <2>4, <2>5, <3>1, <3>2
  <2>7. o \in Leads(n)
    <3>1. CASE Members(m) = Members(o)
      BY <2>1, <2>3, <3>1, GroupFacts DEF Contracted
    <3>2. CASE <<Members(m), Members(o)>> \in GroupCalls
      <4>1. PICK e \in NodeCalls : Members(e[1]) = Members(m) /\ Members(e[2]) = Members(o)
        BY <3>2 DEF GroupCalls
      <4>2. e[1] = m /\ e[2] = o /\ e[2] \in Calls(children, e[1])
        BY <2>1, <2>3, <4>1, GroupFacts DEF Contracted, NodeCalls
      <4> QED
        BY <1>1, <2>1, <2>3, <4>2, NodeOfFunction, BelowFacts DEF Leads
    <3> QED
      BY <2>6, <3>1, <3>2
  <2> QED
    BY <2>2, <2>3, <2>7
<1>3. X \in RawClosed /\ f \in X
  BY <1>1, <1>2 DEF RawClosed
<1>4. g \in X
  BY <1>3 DEF RawBelow
<1> QED
  BY <1>4

(* What a function is to blame for itself is something its node is to      *)
(* blame for.                                                              *)
LEMMA NodeIsToBlame ==
  ASSUME Contracted, NEW m \in OwnNodes, NEW g \in Members(m) \cap Function
  PROVE  /\ {g} \cup (raw[g] \cap Parameter) \subseteq Direct(m)
         /\ \A s \in raw[g] \cap (Import \cup Builtin) : \E r \in Direct(m) : Id(r) = Id(s)
<1>1. reasons[m] = UNION {OwnReasons[f] : f \in Members(m)} /\ g \in Defined
  BY DEF Contracted, BlameAddsUp, Defined
<1>2. OwnReasons[g] = {g} \cup (unknown[g] \ Other)
  BY <1>1 DEF OwnReasons, ImpurityReasons
<1>3. Parameter \cap Other = {}
  <2> DEFINE kind == <<Function, Class, Import, Builtin, Parameter, Other>>
  <2>1. \A i, j \in 1..6 : i # j => kind[i] \cap kind[j] = {}
    BY SymbolKinds
  <2> QED
    BY <2>1
<1>4. raw[g] \cap Parameter \subseteq unknown[g]
  BY DEF Contracted, Resolved
<1>5. {g} \cup (raw[g] \cap Parameter) \subseteq Direct(m)
  BY <1>1, <1>2, <1>3, <1>4 DEF Direct
<1>6. ASSUME NEW s \in raw[g] \cap (Import \cup Builtin)
      PROVE  \E r \in Direct(m) : Id(r) = Id(s)
  <2>1. HasId(built[g], Id(s))
    BY DEF Contracted, Resolved
  <2>2. PICK c \in Calls(built, g) : Id(c) = Id(s)
    BY <2>1 DEF HasId, Calls
  <2>3. g \in Node /\ m \in Node
    BY <1>1, SymbolFacts, NodeOfFunction, InnerFacts
  <2>4. c \in Node /\ s \in Node \ Inner
    BY <2>3, CallsAreNodes, SymbolFacts, InnerFacts DEF Contracted
  <2>5. c \notin Inner
    BY <2>2, <2>4, OutsideIds
  <2>6. HasId(children[m], Id(c))
    BY <2>5 DEF Contracted, OutsideCallsStay
  <2>7. PICK d \in Calls(children, m) : Id(d) = Id(c)
    BY <2>6 DEF HasId, Calls
  <2>8. d \in Node
    BY <2>3, CallsAreNodes DEF Contracted
  <2>9. d \notin Inner
    BY <2>2, <2>4, <2>7, <2>8, OutsideIds
  <2> QED
    BY <2>2, <2>7, <2>8, <2>9 DEF Direct, External, Node, Inner
<1> QED
  BY <1>5, <1>6

(* The results are those of the nodes.                                     *)
LEMMA ResultOfFunction ==
  ASSUME AnalysisIInv, Done, NEW f \in Defined
  PROVE  \E n \in OwnNodes : /\ f \in Members(n) /\ n \in Inferred
                             /\ f \in DOMAIN recorded /\ recorded[f] = result[n]
<1>1. Contracted /\ Recording /\ outcome = "done"
  BY DEF AnalysisIInv, Done, Analyzed
<1>2. PICK n \in OwnNodes : f \in Members(n)
  BY <1>1, NodeOfFunction
<1>3. n \in InForest \ Import
  BY DEF OwnNodes
<1> QED
  BY <1>1, <1>2, <1>3 DEF Recording, AllRecorded, Inferred

LEMMA HiddenInNoResult ==
  ASSUME AnalysisIInv
  PROVE  NothingHiddenInResults
<1> SUFFICES ASSUME Done, NEW f \in Defined, NEW g \in RawBelow(f) \cap Function,
                    Unknown \notin recorded[f]
             PROVE  /\ {g} \cup (raw[g] \cap Parameter) \subseteq recorded[f]
                    /\ \A s \in raw[g] \cap (Import \cup Builtin) :
                         \E r \in recorded[f] : Id(r) = Id(s)
  BY DEF NothingHiddenInResults
<1>1. Contracted /\ InferenceIInv /\ Blame
  BY DEF AnalysisIInv, Done, Analyzed
<1>2. PICK n \in OwnNodes : f \in Members(n) /\ n \in Inferred /\ recorded[f] = result[n]
  BY ResultOfFunction
<1>3. PICK m \in Leads(n) : m \in OwnNodes /\ g \in Members(m)
  BY <1>1, <1>2, BelowCoversCalls
<1>4. Direct(m) \subseteq recorded[f]
  BY <1>1, <1>2, <1>3, CoveredIsClosed
<1> QED
  BY <1>1, <1>3, <1>4, NodeIsToBlame

LEMMA BlamedFairly ==
  ASSUME AnalysisIInv
  PROVE  NoFalseBlame
<1> SUFFICES ASSUME Done, NEW f \in Defined, NEW r \in recorded[f] \cap Defined,
                    NEW X \in RawClosed, f \in X
             PROVE  r \in X
  BY DEF NoFalseBlame, RawBelow
<1>1. Contracted /\ InferenceIInv /\ Blame
  BY DEF AnalysisIInv, Done, Analyzed
<1>2. PICK n \in OwnNodes : f \in Members(n) /\ n \in Inferred /\ recorded[f] = result[n]
  BY ResultOfFunction
<1>3. r # Unknown /\ r \notin External
  BY InferenceInputs, Kinds DEF Callable
<1>4. PICK m \in Leads(n) : r \in Direct(m)
  BY <1>1, <1>2, <1>3 DEF Blame, ResultsDeserved, Deserved
<1>5. n \in InForest /\ m \in InForest
  BY <1>1, <1>2, <1>4, NodeOfFunction, BelowFacts DEF Leads
<1>6. r \in reasons[m] /\ m \in OwnNodes
  <2>1. r \in reasons[m]
    BY <1>3, <1>4 DEF Direct
  <2>2. m \in Import => reasons[m] = {}
    BY <1>1 DEF Contracted, BlameAddsUp
  <2> QED
    BY <1>5, <2>1, <2>2 DEF OwnNodes
<1>7. r \in Members(m)
  <2>1. PICK h \in Members(m) : r \in OwnReasons[h]
    BY <1>1, <1>6 DEF Contracted, BlameAddsUp
  <2>2. h \in Defined
    BY <1>1, <1>6, NodeOfFunction
  <2>3. r \in ImpurityReasons(h)
    BY <2>1, <2>2 DEF OwnReasons
  <2>4. h \in Function => unknown[h] \cap Defined = {}
    BY <1>1 DEF Contracted, Resolved
  <2>5. r = h
    BY <2>3, <2>4 DEF ImpurityReasons
  <2> QED
    BY <2>1, <2>5
<1>8. Members(m) \subseteq X
  BY <1>1, <1>2, <1>4, <1>6, LeadsReach
<1> QED
  BY <1>7, <1>8

LEMMA AllHaveResults ==
  ASSUME AnalysisIInv
  PROVE  EveryoneGetsAResult
<1> SUFFICES ASSUME phase = "infer" PROVE GraphOK /\ outcome # "failed"
                                          /\ (Done => DOMAIN recorded = Defined)
  BY DEF EveryoneGetsAResult, GraphOK
<1>1. Contracted /\ Recording /\ GraphOK
  BY DEF AnalysisIInv, Analyzed, InferenceIInv
<1>2. outcome # "failed"
  BY <1>1 DEF Recording
<1>3. ASSUME Done PROVE DOMAIN recorded = Defined
  <2>1. \A f \in Defined : f \in DOMAIN recorded
    BY <1>3, ResultOfFunction
  <2>2. \A f \in DOMAIN recorded : \E n \in InForest \ Import : f \in Members(n)
    BY <1>1, <1>3 DEF Done, Recording, AllRecorded
  <2> QED
    BY <1>1, <2>1, <2>2, NodeOfFunction DEF OwnNodes
<1> QED
  BY <1>1, <1>2, <1>3
-----------------------------------------------------------------------------
(***************************************************************************)
(* Lone cycles.  A ring is a cycle on which every function calls just the  *)
(* next, and from which no other cycle can be reached.                     *)
(***************************************************************************)
CallsBack(f) == {g \in RawCalls(f) : f \in RawBelow(g)}
Ring(C) ==
  /\ C \in (SUBSET Defined) \ {{}}
  /\ \A x, y \in C : y \in RawBelow(x)
  /\ \A x \in C : \E y \in C : CallsBack(x) = {y}
  /\ \A x \in C : \A y \in RawBelow(x) : CallsBack(y) # {} => y \in C

(* Its functions are nodes of their own, and their calls of each other     *)
(* calls of these nodes, until all of them are combined into one node, and *)
(* nothing else is.  That has happened when one of them was removed, or is *)
(* not to be searched any more.                                            *)
Whole(C) == [of |-> C]
Solitary(C) ==
  /\ \A n \in OwnNodes : Members(n) \cap C # {} => n \in C \/ n = Whole(C)
  /\ Whole(C) \in OwnNodes => Whole(C) \notin Calls(children, Whole(C))
  /\ \A x \in C \cap OwnNodes : CallsBack(x) \cap OwnNodes \subseteq Calls(children, x)
  /\ \A x \in C : x \in removed \/ x \notin ToSet(searchRoots) => Whole(C) \in OwnNodes
RingsStaySolitary == \A C : Ring(C) => Solitary(C)

(* The search in progress is the one from the first of the nodes left.     *)
SearchFromRoot == path # <<>> => path[1] = Head(searchRoots)

(* Facts about what a function leads to.                                   *)
LEMMA RawBelowFacts ==
  ASSUME Resolved, NEW f \in Defined
  PROVE  /\ f \in RawBelow(f) /\ RawBelow(f) \subseteq Defined /\ RawCalls(f) \subseteq Defined
         /\ \A g \in RawBelow(f) : RawBelow(g) \subseteq RawBelow(f) /\ RawCalls(g) \subseteq RawBelow(f)
         /\ \A X \in RawClosed : f \in X => RawBelow(f) \subseteq X
<1>1. \A g \in Defined : RawCalls(g) \subseteq Defined
  BY DEF Resolved
<1> QED
  BY <1>1 DEF RawBelow, RawClosed

(* Who calls back is called back.                                          *)
LEMMA BothWays ==
  ASSUME Resolved, NEW a \in Defined, NEW b \in RawBelow(a), a \in RawBelow(b),
         a # b \/ b \in RawCalls(b)
  PROVE  CallsBack(b) # {}
<1>1. b \in Defined /\ RawCalls(b) \subseteq Defined
  BY RawBelowFacts
<1>2. CASE b \in RawCalls(b)
  BY <1>1, <1>2, RawBelowFacts DEF CallsBack
<1>3. CASE a # b
  <2> DEFINE X == {b} \cup {z \in Defined : \E k \in RawCalls(b) : z \in RawBelow(k)}
  <2>1. X \in RawClosed
    <3> SUFFICES ASSUME NEW z \in X, NEW y \in RawCalls(z) PROVE y \in X
      BY <1>1 DEF RawClosed
    <3>1. CASE z = b
      BY <1>1, <3>1, RawBelowFacts
    <3>2. CASE z # b
      <4>1. PICK k \in RawCalls(b) : z \in RawBelow(k)
        BY <3>2
      <4>2. y \in RawBelow(k) /\ RawBelow(k) \subseteq Defined
        BY <1>1, <4>1, RawBelowFacts
      <4> QED
        BY <4>2
    <3> QED
      BY <3>1, <3>2
  <2>2. a \in X
    BY <1>1, <2>1, RawBelowFacts
  <2>3. PICK k \in RawCalls(b) : a \in RawBelow(k)
    BY <1>3, <2>2
  <2>4. b \in RawBelow(k)
    BY <1>1, <2>3, RawBelowFacts
  <2> QED
    BY <2>4 DEF CallsBack
<1> QED
  BY <1>2, <1>3

(* Whatever calls a ring back is a part of it, and who walks along the     *)
(* ring sees all of it.                                                    *)
LEMMA RingIsComponent ==
  ASSUME Resolved, NEW C, Ring(C), NEW x \in C, NEW y \in RawBelow(x), x \in RawBelow(y)
  PROVE  y \in C
<1>1. C \subseteq Defined /\ (CallsBack(y) # {} => y \in C)
  BY DEF Ring
<1>2. x # y => CallsBack(y) # {}
  BY <1>1, BothWays
<1> QED
  BY <1>1, <1>2

LEMMA RingWalk ==
  ASSUME Resolved, NEW C, Ring(C), NEW T \in SUBSET C, T # {},
         \A x \in T : CallsBack(x) \subseteq T
  PROVE  T = C
<1>1. PICK t \in T : TRUE
  OBVIOUS
<1>2. C \subseteq Defined /\ \A x, y \in C : y \in RawBelow(x)
  BY DEF Ring
<1> DEFINE X == T \cup {y \in Defined : t \notin RawBelow(y)}
<1>3. X \in RawClosed
  <2> SUFFICES ASSUME NEW z \in X, NEW k \in RawCalls(z) PROVE k \in X
    BY <1>2 DEF RawClosed
  <2>1. z \in Defined /\ k \in Defined /\ k \in RawBelow(z)
    BY <1>2, RawBelowFacts
  <2>2. CASE t \notin RawBelow(k)
    BY <2>1, <2>2
  <2>3. CASE t \in RawBelow(k) /\ z \in T
    <3>1. z \in RawBelow(k)
      BY <1>2, <2>1, <2>3, RawBelowFacts
    <3> QED
      BY <2>3, <3>1 DEF CallsBack
  <2>4. CASE t \in RawBelow(k) /\ z \notin T
    <3>1. t \in RawBelow(z)
      BY <2>1, <2>4, RawBelowFacts
    <3> QED
      BY <2>4, <3>1
  <2> QED
    BY <2>2, <2>3, <2>4
<1>4. \A y \in C : y \in X /\ t \in RawBelow(y)
  BY <1>2, <1>3, RawBelowFacts
<1> QED
  BY <1>4

(* The nodes of the path are below its first node, and the nodes of a      *)
(* cycle below each other.                                                 *)
LEMMA PathReach ==
  ASSUME Contracted, NEW X \in RawClosed, path # <<>>, Members(path[1]) \cap X # {},
         NEW j \in 1..Len(path)
  PROVE  path[j] \in OwnNodes /\ Members(path[j]) \subseteq X
<1> DEFINE n == Len(path)
           Out == {i \in 1..n : ~(Members(path[i]) \subseteq X)}
<1>1. n \in Nat /\ SearchIsPath
  BY PathFacts DEF Contracted, ContractionIInv, Search
<1>2. /\ \A i \in 1..n : path[i] \in OwnNodes
      /\ \A i \in 1..n - 1 : path[i + 1] \in Calls(children, path[i])
  BY <1>1 DEF SearchIsPath, Waiting
<1> HIDE DEF n
<1>3. j \in 1..n
  BY DEF n
<1>4. Out = {}
  <2> SUFFICES ASSUME Out # {} PROVE FALSE
    OBVIOUS
  <2>1. Out \in SUBSET Nat
    OBVIOUS
  <2>2. PICK i \in Out : \A y \in Out : i <= y
    <3> HIDE DEF Out
    <3> QED
      BY <2>1, Least
  <2>3. i \in 1..n /\ path[i] \in OwnNodes /\ ~(Members(path[i]) \subseteq X)
    BY <1>2, <2>2
  <2>4. CASE i = 1
    BY <2>3, <2>4, NodesReach
  <2>5. CASE i # 1
    <3> DEFINE k == i - 1
    <3>1. k \in 1..n - 1 /\ k \in 1..n /\ k + 1 = i /\ ~(i <= k)
      BY <1>1, <2>3, <2>5
    <3> HIDE DEF k
    <3>2. Members(path[k]) \subseteq X /\ path[k] \in OwnNodes
      BY <1>2, <2>2, <3>1
    <3>3. Members(path[k]) \cap X # {}
      BY <3>2, GroupFacts DEF Contracted
    <3> QED
      BY <1>2, <2>3, <3>1, <3>2, <3>3, NodesReach
  <2> QED
    BY <2>4, <2>5
<1> QED
  BY <1>2, <1>3, <1>4

LEMMA CycleReach ==
  ASSUME Contracted, ChildToTry, NextChild \in ToSet(path)
  PROVE  /\ ToSet(Cycle) \subseteq OwnNodes /\ ToSet(Cycle) # {}
         /\ \A u \in ToSet(Cycle) : \E v \in ToSet(Cycle) : v \in Calls(children, u)
         /\ \A u \in ToSet(Cycle) : \E j \in 1..Len(path) : u = path[j]
         /\ \A X \in RawClosed : \A u, v \in ToSet(Cycle) :
              Members(u) \cap X # {} => Members(v) \subseteq X
<1> DEFINE nodes == ToSet(Cycle)
           n == Len(path)
           S == {Members(u) : u \in nodes}
<1>1. ContractionIInv
  BY DEF Contracted
<1>2. n \in Nat /\ \A i \in 1..n : path[i] \in OwnNodes
  BY <1>1, CycleFacts
<1>3. PICK at \in 1..n : nodes = {path[i] : i \in at..n}
  BY <1>1, CycleFacts
<1>4. Abs!StronglyConnected(S)
  BY <1>1, CycleIsConnected
<1>5. /\ \A G \in S : S = {G} => <<G, G>> \in GroupCalls
      /\ \A T \in SUBSET S : T # {} /\ T # S => \E G \in T, H \in S \ T : <<G, H>> \in GroupCalls
  BY <1>4 DEF Abs!StronglyConnected
<1> HIDE DEF n
<1>6. at..n \subseteq 1..n /\ n \in at..n
  BY <1>2
<1>7. nodes \subseteq OwnNodes /\ nodes # {} /\ \A u \in nodes : \E j \in 1..n : u = path[j]
  BY <1>2, <1>3, <1>6
<1> HIDE DEF nodes
<1>8. ASSUME NEW u \in nodes, NEW v \in nodes, <<Members(u), Members(v)>> \in GroupCalls
      PROVE  v \in Calls(children, u)
  <2>1. PICK e \in NodeCalls : <<Members(u), Members(v)>> = <<Members(e[1]), Members(e[2])>>
    BY <1>8 DEF GroupCalls
  <2>2. e[1] \in OwnNodes /\ e[2] \in OwnNodes /\ e[2] \in Calls(children, e[1])
    BY DEF NodeCalls
  <2>3. e[1] = u /\ e[2] = v
    BY <1>1, <1>7, <2>1, <2>2, GroupFacts
  <2> QED
    BY <2>2, <2>3
<1>9. ASSUME NEW u \in nodes
      PROVE  \E v \in nodes : v \in Calls(children, u)
  <2>1. CASE S = {Members(u)}
    BY <1>5, <1>8, <2>1
  <2>2. CASE S # {Members(u)}
    <3>1. {Members(u)} \in SUBSET S
      OBVIOUS
    <3>2. PICK H \in S : <<Members(u), H>> \in GroupCalls
      BY <1>5, <2>2, <3>1
    <3> QED
      BY <1>8, <3>2
  <2> QED
    BY <2>1, <2>2
<1>10. ASSUME NEW X \in RawClosed, NEW u \in nodes, NEW v \in nodes, Members(u) \cap X # {}
       PROVE  Members(v) \subseteq X
  <2> DEFINE T == {G \in S : G \subseteq X}
  <2>1. Members(u) \in T
    BY <1>7, <1>10, NodesReach
  <2>2. CASE T = S
    BY <2>2
  <2>3. CASE T # S
    <3>1. PICK G \in T, H \in S \ T : <<G, H>> \in GroupCalls
      <4> HIDE DEF S
      <4> QED
        BY <1>5, <2>1, <2>3
    <3>2. PICK a \in nodes, b \in nodes : G = Members(a) /\ H = Members(b)
      OBVIOUS
    <3>3. b \in Calls(children, a)
      BY <1>8, <3>1, <3>2
    <3>4. Members(a) \cap X # {}
      BY <1>1, <1>7, <3>2, GroupFacts
    <3>5. Members(b) \subseteq X
      BY <1>7, <3>3, <3>4, NodesReach
    <3> QED
      BY <3>1, <3>2, <3>5
  <2> QED
    BY <2>2, <2>3
<1> QED
  BY <1>7, <1>9, <1>10 DEF nodes, n

(* A cycle that touches a ring is the ring.                                *)
LEMMA CycleIsRing ==
  ASSUME Contracted, NEW C, Ring(C), Solitary(C), ChildToTry, NextChild \in ToSet(path),
         NEW u \in ToSet(Cycle), Members(u) \cap C # {}
  PROVE  ToSet(Cycle) = C
<1> DEFINE nodes == ToSet(Cycle)
<1>1. /\ nodes \subseteq OwnNodes /\ nodes # {}
      /\ \A w \in nodes : \E v \in nodes : v \in Calls(children, w)
      /\ \A X \in RawClosed : \A v, w \in nodes : Members(v) \cap X # {} => Members(w) \subseteq X
  BY CycleReach
<1>2. /\ C \subseteq Defined /\ \A x, y \in C : y \in RawBelow(x)
      /\ \A x \in C : \E y \in C : CallsBack(x) = {y}
  BY DEF Ring
<1>3. Resolved /\ ContractionIInv
  BY DEF Contracted
<1> HIDE DEF nodes
<1>4. u \in nodes
  BY DEF nodes
<1>5. ASSUME NEW w \in nodes
      PROVE  Members(w) \subseteq C
  <2>1. PICK z \in Members(u) : z \in C
    OBVIOUS
  <2> SUFFICES ASSUME NEW g \in Members(w) PROVE g \in C
    OBVIOUS
  <2>2. g \in Defined /\ z \in Defined
    BY <1>1, <1>2, <2>1, NodeOfFunction
  <2>3. g \in RawBelow(z) /\ z \in RawBelow(g)
    BY <1>1, <1>4, <2>1, <2>2 DEF RawBelow
  <2> QED
    BY <1>3, <2>1, <2>3, RingIsComponent
<1>6. ASSUME NEW w \in nodes, w \notin C
      PROVE  FALSE
  <2>1. \A v \in nodes : v = Whole(C)
    <3>1. w = Whole(C) /\ Members(w) = C
      <4>1. w = Whole(C)
        BY <1>1, <1>3, <1>5, <1>6, GroupFacts DEF Solitary
      <4>2. Whole(C) \in Combined
        BY DEF Ring, Whole, Combined
      <4> QED
        BY <4>1, <4>2 DEF Members, Whole
    <3> SUFFICES ASSUME NEW v \in nodes PROVE v = w
      BY <3>1
    <3>2. Members(v) # {} /\ Members(v) \subseteq Members(w)
      BY <1>1, <1>3, <1>5, <3>1, GroupFacts
    <3> QED
      BY <1>1, <1>3, <3>2, GroupFacts
  <2> QED
    BY <1>1, <1>6, <2>1 DEF Solitary
<1>7. nodes \subseteq C
  BY <1>6
<1>8. ASSUME NEW x \in nodes
      PROVE  CallsBack(x) \subseteq nodes
  <2>1. PICK v \in nodes : v \in Calls(children, x)
    BY <1>1
  <2>2. Members(x) = {x} /\ Members(v) = {v}
    BY <1>2, <1>7, InnerFacts
  <2>3. v \in RawCalls(x)
    BY <1>1, <2>1, <2>2, NodesReach
  <2>4. v \in CallsBack(x)
    BY <1>2, <1>7, <2>3 DEF CallsBack
  <2> QED
    BY <1>2, <1>7, <2>1, <2>4
<1> QED
  BY <1>1, <1>3, <1>7, <1>8, RingWalk DEF nodes

(* A cycle found from a function of a ring touches it.                     *)
LEMMA RingIsFound ==
  ASSUME Contracted, NEW C, Ring(C), ChildToTry, NextChild \in ToSet(path), path[1] \in C
  PROVE  \E u \in ToSet(Cycle) : Members(u) \cap C # {}
<1>1. /\ ToSet(Cycle) \subseteq OwnNodes /\ ToSet(Cycle) # {}
      /\ \A w \in ToSet(Cycle) : \E v \in ToSet(Cycle) : v \in Calls(children, w)
      /\ \A X \in RawClosed : \A v, w \in ToSet(Cycle) :
           Members(v) \cap X # {} => Members(w) \subseteq X
      /\ \A w \in ToSet(Cycle) : \E j \in 1..Len(path) : w = path[j]
  BY CycleReach
<1>2. PICK u \in ToSet(Cycle), v \in ToSet(Cycle) : v \in Calls(children, u)
  BY <1>1
<1>3. PICK a \in Members(u), b \in Members(v) : b \in RawCalls(a)
  BY <1>1, <1>2, NodesReach
<1>4. a \in Defined /\ b \in Defined
  BY <1>1, NodeOfFunction
<1>5. a \in RawBelow(b)
  BY <1>1, <1>4 DEF RawBelow
<1>6. a \in RawBelow(path[1])
  <2>1. path[1] \in Defined /\ Members(path[1]) = {path[1]} /\ path # <<>>
    BY InnerFacts DEF Ring, ChildToTry, Searching
  <2>2. \A X \in RawClosed : path[1] \in X => Members(u) \subseteq X
    <3>1. PICK j \in 1..Len(path) : u = path[j]
      BY <1>1
    <3> QED
      BY <2>1, <3>1, PathReach
  <2> QED
    BY <1>4, <2>2 DEF RawBelow
<1>7. CallsBack(a) # {}
  BY <1>3, <1>5 DEF CallsBack
<1>8. a \in C
  BY <1>6, <1>7 DEF Ring
<1> QED
  BY <1>8

(* Before a ring is combined, all of its functions are nodes, which call   *)
(* each other in a circle.                                                 *)
LEMMA RingIsThere ==
  ASSUME Contracted, NEW C, Ring(C), Solitary(C), Whole(C) \notin OwnNodes, NEW x \in C
  PROVE  /\ C \subseteq OwnNodes
         /\ \E y \in C : y \in Calls(children, x)
         /\ ~NoCycleBelow(x)
<1>1. /\ C \subseteq Defined /\ \A y, z \in C : z \in RawBelow(y)
      /\ \A y \in C : \E z \in C : CallsBack(y) = {z}
  BY DEF Ring
<1>2. C \subseteq OwnNodes
  <2> SUFFICES ASSUME NEW y \in C PROVE y \in OwnNodes
    OBVIOUS
  <2>1. PICK n \in OwnNodes : y \in Members(n)
    BY <1>1, NodeOfFunction
  <2>2. n \in C
    BY <2>1 DEF Solitary
  <2>3. Members(n) = {n}
    BY <1>1, <2>2, InnerFacts
  <2> QED
    BY <2>1, <2>3
<1>3. \A y \in C : CallsBack(y) \subseteq Calls(children, y)
  BY <1>1, <1>2 DEF Solitary
<1>4. PICK y \in C : CallsBack(x) = {y}
  BY <1>1
<1>5. x \in Below(children, OwnNodes, y)
  <2> SUFFICES ASSUME NEW X \in ClosedUnderCalls(children, OwnNodes), y \in X
               PROVE  x \in X
    BY <1>2 DEF Below
  <2> DEFINE T == X \cap C
  <2>1. \A z \in T : CallsBack(z) \subseteq T
    BY <1>1, <1>2, <1>3 DEF ClosedUnderCalls
  <2>2. T = C
    <3>1. T \in SUBSET C /\ T # {} /\ Resolved
      BY DEF Contracted
    <3> HIDE DEF T
    <3> QED
      BY <2>1, <3>1, RingWalk
  <2> QED
    BY <2>2
<1>6. OnCycle(children, OwnNodes, x) /\ x \in Below(children, OwnNodes, x)
  BY <1>2, <1>3, <1>4, <1>5, BelowFacts DEF OnCycle
<1> QED
  BY <1>2, <1>3, <1>4, <1>6 DEF NoCycleBelow
-----------------------------------------------------------------------------
(* The calls are resolved once and for all.                                *)
LEMMA SameRings ==
  ASSUME raw' = raw
  PROVE  /\ \A f : CallsBack(f)' = CallsBack(f)
         /\ \A C : Ring(C)' <=> Ring(C)
<1>1. \A f : RawCalls(f)' = RawCalls(f)
  BY DEF RawCalls
<1>2. RawClosed' = RawClosed
  BY <1>1 DEF RawClosed
<1>3. \A f : RawBelow(f)' = RawBelow(f)
  BY <1>2 DEF RawBelow
<1>4. \A f : CallsBack(f)' = CallsBack(f)
  BY <1>1, <1>3 DEF CallsBack
<1> QED
  BY <1>3, <1>4 DEF Ring

(* A search that changes no node has to look at the function it is done    *)
(* with only.                                                              *)
LEMMA SearchKeepsRing ==
  ASSUME UNCHANGED <<raw, forest, children, removed>>, NEW C, Solitary(C),
         \A x \in C : Whole(C) \notin OwnNodes /\ x \in ToSet(searchRoots)
                        => x \in ToSet(searchRoots')
  PROVE  Solitary(C)'
<1>1. OwnNodes' = OwnNodes /\ \A n : Calls(children', n) = Calls(children, n)
  BY DEF OwnNodes, InForest
<1>2. \A f : CallsBack(f)' = CallsBack(f)
  BY SameRings
<1> QED
  BY <1>1, <1>2 DEF Solitary, Whole

LEMMA SkipRootKeepsRing ==
  ASSUME Contracted, SkipRoot, raw' = raw, NEW C, Ring(C), Solitary(C)
  PROVE  Solitary(C)'
<1>1. /\ searchRoots # <<>> /\ searchRoots' = Tail(searchRoots) /\ searchRoots \in Seq(Outer)
      /\ Skipped(Head(searchRoots)) /\ UNCHANGED <<forest, children, removed>>
  BY DEF SkipRoot, BetweenSearches, Contracted, ContractionIInv, ContractionTypeOK
<1>2. ToSet(searchRoots) = {Head(searchRoots)} \cup ToSet(searchRoots')
  BY <1>1, HeadAndTail
<1>3. ASSUME Whole(C) \notin OwnNodes, Head(searchRoots) \in C
      PROVE  FALSE
  <2>1. C \cap removed = {}
    BY <1>3 DEF Solitary
  <2>2. PICK y \in C : y \in Calls(children, Head(searchRoots))
    BY <1>3, RingIsThere
  <2>3. Id(y) = y
    BY InnerFacts DEF Ring, Inner
  <2> QED
    BY <1>1, <1>3, <2>1, <2>2, <2>3 DEF Skipped
<1> QED
  BY <1>1, <1>2, <1>3, SearchKeepsRing

LEMMA BacktrackKeepsRing ==
  ASSUME Contracted, SearchFromRoot, Backtrack, raw' = raw, NEW C, Ring(C), Solitary(C)
  PROVE  Solitary(C)'
<1>1. /\ Searching /\ Last(untried) = <<>> /\ UNCHANGED <<forest, children, removed>>
      /\ searchRoots' = IF Len(path) = 1 THEN Tail(searchRoots) ELSE searchRoots
  BY DEF Backtrack
<1>2. /\ searchRoots \in Seq(Outer) /\ searchRoots # <<>> /\ path[1] = Head(searchRoots)
  BY <1>1 DEF Searching, SearchFromRoot, Contracted, ContractionIInv, ContractionTypeOK,
          Search, RootsInForest
<1>3. ToSet(searchRoots) = {Head(searchRoots)} \cup ToSet(Tail(searchRoots))
  BY <1>2, HeadAndTail
<1>4. ASSUME Len(path) = 1 PROVE NoCycleBelow(Head(searchRoots))
  BY <1>1, <1>2, <1>4, EmptySearch DEF Contracted
<1>5. \A x \in C : Whole(C) \notin OwnNodes /\ x \in ToSet(searchRoots)
                     => x \in ToSet(searchRoots')
  BY <1>1, <1>3, <1>4, RingIsThere
<1> QED
  BY <1>1, <1>5, SearchKeepsRing

(* The ring is combined as a whole, or another cycle is.                   *)
LEMMA ContractKeepsRing ==
  ASSUME Contracted, SearchFromRoot, Contract, raw' = raw, NEW C, Ring(C), Solitary(C)
  PROVE  Solitary(C)'
<1>0. PICK nodes, new : nodes = ToSet(Cycle) /\ new = CombinedNode(Cycle)
  OBVIOUS
<1>1. /\ ChildToTry /\ NextChild \in ToSet(path) /\ removed' = removed \cup nodes
      /\ searchRoots' = Tail(searchRoots)
  BY <1>0 DEF Contract
<1>2. /\ C \in (SUBSET Defined) \ {{}} /\ Whole(C) \in Combined /\ Members(Whole(C)) = C
      /\ \A x \in C : Members(x) = {x}
      /\ Defined \cap Combined = {} /\ Combined \subseteq Inner /\ Combined \cap Import = {}
  <2>1. C \in (SUBSET Defined) \ {{}}
    BY DEF Ring
  <2>2. Whole(C) \in Combined
    BY <2>1 DEF Whole, Combined
  <2>3. Members(Whole(C)) = C
    BY <2>2 DEF Members, Whole
  <2> QED
    BY <2>1, <2>2, <2>3, InnerFacts DEF Inner
<1>3. /\ ContractionIInv /\ forest \in Seq(Node) /\ NoOldNodes
  <2>1. forest \in Seq(Outer)
    BY DEF Contracted, ContractionIInv, ContractionTypeOK
  <2> QED
    BY <2>1, InnerFacts DEF Contracted, ContractionIInv
<1>4. \A f : CallsBack(f)' = CallsBack(f)
  BY SameRings
<1>5. \A x \in C : CallsBack(x) \subseteq C
  BY DEF Ring
<1>6. CASE \E u \in nodes : Members(u) \cap C # {}
  <2>1. nodes = C
    BY <1>0, <1>1, <1>6, CycleIsRing
  <2>2. new = Whole(C)
    <3>1. UNION {Members(n) : n \in C} = C
      BY <1>2
    <3> QED
      BY <1>0, <2>1, <3>1 DEF CombinedNode, Whole
  <2>3. CASE HasId(forest, new)
    <3>1. UNCHANGED <<forest, children>>
      BY <1>0, <2>3 DEF Contract
    <3>2. Whole(C) \in OwnNodes
      <4>1. Id(Whole(C)) = Whole(C)
        BY <1>2, InnerFacts
      <4>2. HasId(forest, Id(Whole(C)))
        <5>1. Id(new) = new
          BY <2>2, <4>1
        <5> QED
          BY <2>3, <5>1, <2>2
      <4>3. Whole(C) \in InForest
        BY <1>2, <1>3, <4>2, HasIdInner DEF InForest
      <4> QED
        BY <1>2, <4>3 DEF OwnNodes
    <3>3. OwnNodes' = OwnNodes
      BY <3>1 DEF OwnNodes, InForest
    <3> QED
      BY <1>4, <3>1, <3>2, <3>3 DEF Solitary, Whole
  <2>4. CASE ~HasId(forest, new)
    <3>1. /\ new \notin OwnNodes /\ OwnNodes' = (OwnNodes \ nodes) \cup {new}
          /\ nodes \subseteq OwnNodes
          /\ \A c \in Calls(children', new) : \E n \in nodes : c \in Calls(children, n)
      BY <1>0, <1>3, <2>4, ContractFacts
    <3>2. Whole(C) \notin Calls(children', Whole(C))
      BY <1>2, <1>3, <2>2, <3>1 DEF NoOldNodes
    <3>3. C \cap OwnNodes' = {}
      BY <1>2, <2>1, <2>2, <3>1
    <3>4. \A n \in OwnNodes' : Members(n) \cap C # {} => n \in C \/ n = Whole(C)
      BY <2>2, <3>1 DEF Solitary
    <3>5. Whole(C) \in OwnNodes'
      BY <2>2, <3>1
    <3> QED
      BY <3>2, <3>3, <3>4, <3>5 DEF Solitary, Whole
  <2> QED
    BY <2>3, <2>4
<1>7. CASE \A u \in nodes : Members(u) \cap C = {}
  <2>1. nodes \cap C = {} /\ Whole(C) \notin nodes
    BY <1>2, <1>7
  <2>2. \A x \in C : x \in removed' => x \in removed
    BY <1>1, <2>1
  <2>3. \A x \in C : Whole(C) \notin OwnNodes /\ x \in ToSet(searchRoots)
                       => x \in ToSet(searchRoots')
    <3>1. path # <<>> /\ path[1] = Head(searchRoots)
      BY <1>1 DEF ChildToTry, Searching, SearchFromRoot
    <3>2. searchRoots \in Seq(Outer) /\ searchRoots # <<>>
      BY <1>3, <3>1 DEF ContractionIInv, ContractionTypeOK, Search, RootsInForest
    <3>3. ToSet(searchRoots) = {Head(searchRoots)} \cup ToSet(searchRoots')
      BY <1>1, <3>2, HeadAndTail
    <3>4. Head(searchRoots) \notin C
      BY <1>0, <1>1, <1>7, <3>1, RingIsFound
    <3> QED
      BY <3>3, <3>4
  <2>4. CASE HasId(forest, new)
    <3>1. UNCHANGED <<forest, children>>
      BY <1>0, <2>4 DEF Contract
    <3>2. OwnNodes' = OwnNodes
      BY <3>1 DEF OwnNodes, InForest
    <3> QED
      BY <1>4, <2>2, <2>3, <3>1, <3>2 DEF Solitary, Whole
  <2>5. CASE ~HasId(forest, new)
    <3>1. /\ new \notin OwnNodes /\ OwnNodes' = (OwnNodes \ nodes) \cup {new}
          /\ new \in Combined /\ Members(new) = UNION {Members(n) : n \in nodes}
          /\ \A n \in OwnNodes \ nodes :
               Calls(children', n) =
                 IF Calls(children, n) \cap nodes = {} THEN Calls(children, n)
                 ELSE (Calls(children, n) \ nodes) \cup {new}
      BY <1>0, <1>3, <2>5, ContractFacts
    <3>2. Members(new) \cap C = {} /\ new # Whole(C) /\ new \notin Defined
      BY <1>2, <1>7, <3>1
    <3>3. \A n \in OwnNodes' : Members(n) \cap C # {} => n \in C \/ n = Whole(C)
      BY <3>1, <3>2 DEF Solitary
    <3>4. Whole(C) \in OwnNodes' => Whole(C) \notin Calls(children', Whole(C))
      BY <2>1, <3>1, <3>2 DEF Solitary
    <3>5. ASSUME NEW x \in C \cap OwnNodes', NEW y \in CallsBack(x) \cap OwnNodes'
          PROVE  y \in Calls(children', x)
      <4>1. x \in OwnNodes \ nodes /\ y \in OwnNodes \ nodes
        BY <1>2, <1>5, <2>1, <3>1, <3>2
      <4>2. y \in Calls(children, x)
        BY <4>1 DEF Solitary
      <4> QED
        BY <3>1, <4>1, <4>2
    <3>6. Whole(C) \in OwnNodes => Whole(C) \in OwnNodes'
      BY <2>1, <3>1
    <3>7. \A x \in C : x \in removed' \/ x \notin ToSet(searchRoots') => Whole(C) \in OwnNodes'
      BY <2>2, <2>3, <3>6 DEF Solitary
    <3> QED
      BY <1>4, <3>3, <3>4, <3>5, <3>7 DEF Solitary, Whole
  <2> QED
    BY <2>4, <2>5
<1> QED
  BY <1>6, <1>7

LEMMA RootStays ==
  ASSUME ContractionIInv, SearchFromRoot, ContractionNext
  PROVE  SearchFromRoot'
<1>1. path \in Seq(Inner)
  BY DEF ContractionIInv, ContractionTypeOK
<1>2. CASE SkipRoot \/ Contract
  BY <1>2 DEF SkipRoot, BetweenSearches, Contract, SearchFromRoot
<1>3. CASE StartSearch
  <2>1. path' = <<Head(searchRoots)>> /\ searchRoots' = searchRoots
    BY <1>3 DEF StartSearch
  <2> QED
    BY <2>1 DEF SearchFromRoot
<1>4. CASE TryLeaf
  BY <1>4 DEF TryLeaf, SearchFromRoot
<1>5. CASE Descend
  <2>1. path # <<>> /\ path' = Append(path, NextChild) /\ searchRoots' = searchRoots
    BY <1>5 DEF Descend, ChildToTry, Searching
  <2>2. path'[1] = path[1]
    BY <1>1, <2>1
  <2> QED
    BY <2>1, <2>2 DEF SearchFromRoot
<1>6. CASE Backtrack
  <2>1. /\ path # <<>> /\ path' = Front(path)
        /\ searchRoots' = IF Len(path) = 1 THEN Tail(searchRoots) ELSE searchRoots
    BY <1>6 DEF Backtrack, Searching
  <2>2. /\ path' \in Seq(Inner) /\ Len(path') = Len(path) - 1
        /\ \A k \in 1..Len(path) - 1 : path'[k] = path[k]
    BY <1>1, <2>1, FrontFacts
  <2>3. Len(path) \in Nat /\ Len(path) # 0
    BY <1>1, <2>1
  <2>4. CASE Len(path) = 1
    <3>1. path' = <<>>
      BY <2>2, <2>4
    <3> QED
      BY <3>1 DEF SearchFromRoot
  <2>5. CASE Len(path) # 1
    <3>1. 1 \in 1..Len(path) - 1
      <4> DEFINE n == Len(path)
      <4>1. n \in Nat /\ n # 0 /\ n # 1
        BY <2>3, <2>5
      <4> HIDE DEF n
      <4>2. 1 \in 1..n - 1
        BY <4>1
      <4> QED
        BY <4>2 DEF n
    <3>2. path'[1] = path[1]
      BY <2>2, <3>1
    <3>3. searchRoots' = searchRoots
      BY <2>1, <2>5
    <3> QED
      BY <2>1, <3>2, <3>3 DEF SearchFromRoot
  <2> QED
    BY <2>4, <2>5
<1> QED
  BY <1>2, <1>3, <1>4, <1>5, <1>6 DEF ContractionNext

LEMMA RingsStep ==
  ASSUME Contracted, RingsStaySolitary, SearchFromRoot, [ContractionNext]_contractionVars,
         raw' = raw
  PROVE  RingsStaySolitary' /\ SearchFromRoot'
<1>1. CASE UNCHANGED contractionVars
  <2>1. UNCHANGED <<forest, children, removed, searchRoots, path>>
    BY <1>1 DEF contractionVars
  <2>2. ASSUME NEW C, Ring(C)' PROVE Solitary(C)'
    BY <2>1, <2>2, SameRings, SearchKeepsRing DEF RingsStaySolitary
  <2> QED
    BY <2>1, <2>2 DEF RingsStaySolitary, SearchFromRoot
<1>2. CASE ContractionNext
  <2>1. ASSUME NEW C, Ring(C)' PROVE Solitary(C)'
    <3>1. Ring(C) /\ Solitary(C)
      BY <2>1, SameRings DEF RingsStaySolitary
    <3>2. CASE SkipRoot
      BY <3>1, <3>2, SkipRootKeepsRing
    <3>3. CASE StartSearch \/ TryLeaf \/ Descend
      <4>1. UNCHANGED <<forest, children, removed, searchRoots>>
        BY <3>3 DEF StartSearch, TryLeaf, Descend
      <4> QED
        BY <3>1, <4>1, SearchKeepsRing
    <3>4. CASE Backtrack
      BY <3>1, <3>4, BacktrackKeepsRing
    <3>5. CASE Contract
      BY <3>1, <3>5, ContractKeepsRing
    <3> QED
      BY <1>2, <3>2, <3>3, <3>4, <3>5 DEF ContractionNext
  <2>2. SearchFromRoot'
    BY <1>2, RootStays DEF Contracted
  <2> QED
    BY <2>1, <2>2 DEF RingsStaySolitary
<1> QED
  BY <1>1, <1>2

LEMMA RingsStart ==
  StartContraction /\ WellBuilt([forest |-> forest, children |-> children])
    /\ built = children /\ Resolved
  => RingsStaySolitary /\ SearchFromRoot
<1> SUFFICES ASSUME StartContraction, WellBuilt([forest |-> forest, children |-> children]),
                    built = children, Resolved
             PROVE  RingsStaySolitary /\ SearchFromRoot
  OBVIOUS
<1>1. OwnNodes = Defined /\ Defined \subseteq InForest
  <2>1. InForest \subseteq Defined \cup Import /\ Defined \subseteq InForest
    BY DEF WellBuilt, InForest, ToSet
  <2>2. Defined \cap Import = {}
    BY InnerFacts DEF Inner
  <2> QED
    BY <2>1, <2>2 DEF OwnNodes
<1>2. removed = {} /\ searchRoots = forest /\ path = <<>>
  BY DEF StartContraction
<1>3. ASSUME NEW C, Ring(C) PROVE Solitary(C)
  <2>1. C \subseteq Defined /\ Whole(C) \notin Defined
    <3>1. C \in (SUBSET Defined) \ {{}}
      BY <1>3 DEF Ring
    <3>2. Whole(C) \in Combined
      BY <3>1 DEF Whole, Combined
    <3> QED
      BY <3>1, <3>2, InnerFacts
  <2>2. \A n \in Defined : Members(n) = {n}
    BY InnerFacts
  <2>3. \A x \in C : CallsBack(x) \subseteq Calls(children, x)
    BY <2>1 DEF CallsBack, Resolved
  <2> QED
    BY <1>1, <1>2, <2>1, <2>2, <2>3 DEF Solitary, InForest
<1> QED
  BY <1>2, <1>3 DEF RingsStaySolitary, SearchFromRoot
-----------------------------------------------------------------------------
RingsIInv ==
  phase # "build" => /\ RingsStaySolitary /\ SearchFromRoot
                     /\ phase = "infer" => searchRoots = <<>>

LEMMA RingsKept == AnalysisIInv /\ RingsIInv /\ [Next]_vars => RingsIInv'
<1> SUFFICES ASSUME AnalysisIInv, RingsIInv, [Next]_vars, phase' # "build"
             PROVE  /\ RingsStaySolitary' /\ SearchFromRoot'
                    /\ phase' = "infer" => searchRoots' = <<>>
  BY DEF RingsIInv
<1>1. CASE HandleCycles
  <2>1. /\ phase = "build" /\ phase' = "contract" /\ BuildDone /\ built' = children
        /\ searchRoots' = forest
        /\ UNCHANGED <<forest, children, raw, unknown, removed, path, untried>>
    BY <1>1 DEF HandleCycles, resolvedVars
  <2>2. BuildIInv /\ Links /\ SearchNotStarted
    BY <2>1 DEF AnalysisIInv
  <2>3. StartContraction' /\ built' = children'
    BY <2>1, <2>2 DEF StartContraction, SearchNotStarted
  <2>4. WellBuilt([forest |-> forest, children |-> children])'
    BY <2>1, <2>2, BuiltForest
  <2>5. Resolved'
    BY <2>1, <2>2, BuiltCallsAreResolved
  <2>6. (StartContraction /\ WellBuilt([forest |-> forest, children |-> children])
           /\ built = children /\ Resolved => RingsStaySolitary /\ SearchFromRoot)'
    BY RingsStart, PTL
  <2> QED
    BY <2>1, <2>3, <2>4, <2>5, <2>6
<1>2. CASE ContractCycles
  <2>1. phase = "contract" /\ phase' = "contract" /\ ContractionNext /\ raw' = raw
    BY <1>2 DEF ContractCycles, resolvedVars
  <2> QED
    BY <2>1, RingsStep DEF AnalysisIInv, RingsIInv
<1>3. CASE AnalyzePurity
  <2>1. phase = "contract" /\ ContractionDone /\ UNCHANGED contractionVars /\ raw' = raw
    BY <1>3 DEF AnalyzePurity, resolvedVars, searchVars, contractionVars
  <2>2. searchRoots' = <<>>
    BY <2>1 DEF ContractionDone, contractionVars
  <2> QED
    BY <2>1, <2>2, RingsStep DEF AnalysisIInv, RingsIInv
<1>4. CASE Infer
  <2>1. phase = "infer" /\ InferenceNext /\ raw' = raw
    BY <1>4 DEF Infer, resolvedVars
  <2>2. UNCHANGED contractionVars
    BY <1>4 DEF Infer, searchVars, contractionVars, InferenceNext, SkipImport, KnownRoot,
           EnterRoot, KnownChild, EnterChild, Push, Return, Finish, graph
  <2>3. searchRoots' = searchRoots
    BY <2>2 DEF contractionVars
  <2> QED
    BY <2>1, <2>2, <2>3, RingsStep DEF AnalysisIInv, RingsIInv
<1>5. CASE Build
  BY <1>5 DEF Build
<1>6. CASE UNCHANGED vars
  <2>1. phase' = phase /\ UNCHANGED contractionVars /\ raw' = raw /\ searchRoots' = searchRoots
    BY <1>6 DEF vars, resolvedVars, searchVars, contractionVars
  <2> QED
    BY <2>1, RingsStep DEF AnalysisIInv, RingsIInv
<1> QED
  BY <1>1, <1>2, <1>3, <1>4, <1>5, <1>6 DEF Next

LEMMA RingsInductive == Spec => []RingsIInv
<1>1. Init => RingsIInv
  BY DEF Init, RingsIInv
<1> QED
  BY <1>1, RingsKept, AnalysisInductive, PTL DEF Spec
-----------------------------------------------------------------------------
(* The functions of a cycle that a node of the forest leads to are some    *)
(* that call themselves back, and what their node calls back is so too.    *)
LEMMA NodeOnCycle ==
  ASSUME Contracted, NEW n \in OwnNodes, NEW f \in Members(n), NEW m \in Leads(n),
         OnCycle(children, InForest, m)
  PROVE  /\ m \in OwnNodes
         /\ \E o \in OwnNodes : /\ o \in Calls(children, m)
                                /\ \E a \in Members(m), b \in Members(o) :
                                     /\ a \in RawBelow(f) /\ b \in RawBelow(f)
                                     /\ CallsBack(a) # {} /\ CallsBack(b) # {}
<1>1. n \in InForest /\ m \in InForest /\ f \in Defined /\ Resolved
  BY NodeOfFunction, BelowFacts DEF Leads, Contracted
<1>2. PICK o \in Calls(children, m) \cap InForest : m \in Leads(o)
  BY DEF OnCycle, Leads
<1>3. m \in OwnNodes
  BY <1>1, <1>2, ImportsCallNothing DEF OwnNodes
<1>4. o \in Leads(n)
  BY <1>1, <1>2, BelowFacts DEF Leads
<1>5. o \in OwnNodes
  <2> SUFFICES ASSUME o \in Import PROVE FALSE
    BY <1>2 DEF OwnNodes
  <2>1. {o} \in ClosedUnderCalls(children, InForest)
    BY <1>2, ImportsCallNothing DEF ClosedUnderCalls
  <2>2. m = o
    BY <1>2, <2>1, BelowFacts DEF Leads
  <2> QED
    BY <1>3, <2>2 DEF OwnNodes
<1>6. PICK a \in Members(m), b \in Members(o) : b \in RawCalls(a)
  BY <1>2, <1>3, <1>5, NodesReach
<1>7. a \in Defined /\ b \in Defined
  BY <1>3, <1>5, NodeOfFunction
<1>8. a \in RawBelow(f) /\ b \in RawBelow(f)
  BY <1>1, <1>3, <1>4, <1>5, <1>7, LeadsReach DEF RawBelow
<1>9. a \in RawBelow(b)
  BY <1>2, <1>3, <1>5, <1>7, LeadsReach DEF RawBelow
<1>10. b \in RawBelow(a)
  BY <1>1, <1>6, <1>7, RawBelowFacts
<1>11. CallsBack(a) # {}
  BY <1>6, <1>9 DEF CallsBack
<1>12. CallsBack(b) # {}
  <2>1. CASE a = b
    BY <1>11, <2>1
  <2>2. CASE a # b
    BY <1>1, <1>7, <1>9, <1>10, <2>2, BothWays
  <2> QED
    BY <2>1, <2>2
<1> QED
  BY <1>2, <1>3, <1>5, <1>8, <1>11, <1>12

(* A function calls finitely many others.                                  *)
LEMMA CallsAreFinite ==
  ASSUME Contracted, NEW f \in Defined
  PROVE  IsFiniteSet(CallsBack(f))
<1> DEFINE s == built[f]
           N == Len(s)
<1>1. s \in Seq(Node)
  <2>1. f \in Node
    BY InnerFacts DEF Inner
  <2> QED
    BY <2>1 DEF Contracted, ContractionIInv, ContractionTypeOK
<1>2. CallsBack(f) \subseteq ToSet(s)
  BY DEF CallsBack, Contracted, Resolved, Calls
<1> HIDE DEF s
<1>3. N \in Nat /\ DOMAIN s = 1..N /\ s = [i \in 1..N |-> s[i]]
  BY <1>1
<1> HIDE DEF N
<1>4. s \in Surjection(1..N, ToSet(s))
  BY <1>3 DEF Surjection, ToSet
<1>5. IsFiniteSet(1..N)
  BY <1>3, FS_Interval
<1>6. IsFiniteSet(ToSet(s))
  BY <1>4, <1>5, FS_Surjection
<1> QED
  BY <1>2, <1>6, FS_Subset

(* The functions below f that call themselves back: a ring, or none.       *)
Cyclic(f) == {g \in RawBelow(f) : CallsBack(g) # {}}

LEMMA LoneCycleIsResolved ==
  ASSUME AnalysisIInv, RingsIInv, Done, NEW f \in Defined,
         \A g, h \in Cyclic(f) : h \in RawBelow(g),
         \A g \in Cyclic(f) : Cardinality(CallsBack(g)) = 1
  PROVE  Unknown \notin recorded[f]
<1> SUFFICES ASSUME Unknown \in recorded[f] PROVE FALSE
  OBVIOUS
<1> USE DEF Cyclic
<1>1. Contracted /\ Resolved /\ Blame /\ RingsStaySolitary /\ searchRoots = <<>>
  BY DEF AnalysisIInv, RingsIInv, Done, Analyzed, Contracted
<1>2. PICK n \in OwnNodes : f \in Members(n) /\ n \in Inferred /\ recorded[f] = result[n]
  BY ResultOfFunction
<1>3. PICK m \in Leads(n) : OnCycle(children, InForest, m)
  BY <1>1, <1>2 DEF Blame, ResultsDeserved, Deserved
<1>4. m \in OwnNodes
  BY <1>1, <1>2, <1>3, NodeOnCycle
<1>5. PICK o \in OwnNodes : /\ o \in Calls(children, m)
                           /\ \E a \in Members(m), b \in Members(o) :
                                a \in Cyclic(f) /\ b \in Cyclic(f)
  BY <1>1, <1>2, <1>3, NodeOnCycle
<1>6. Ring(Cyclic(f))
  <2>1. Cyclic(f) \in (SUBSET Defined) \ {{}}
    BY <1>1, <1>5, RawBelowFacts
  <2>2. ASSUME NEW x \in Cyclic(f)
        PROVE  /\ x \in Defined
               /\ \A y \in RawBelow(x) : CallsBack(y) # {} => y \in Cyclic(f)
               /\ \E y \in Cyclic(f) : CallsBack(x) = {y}
    <3>1. x \in Defined /\ x \in RawBelow(f) /\ RawBelow(x) \subseteq RawBelow(f)
      BY <1>1, RawBelowFacts
    <3>2. PICK y : CallsBack(x) = {y}
      BY <1>1, <3>1, CallsAreFinite, FS_Singleton
    <3>3. y \in RawCalls(x) /\ x \in RawBelow(y)
      BY <3>2 DEF CallsBack
    <3>4. y \in RawBelow(x)
      BY <1>1, <3>1, <3>3, RawBelowFacts
    <3>5. CallsBack(y) # {}
      <4>1. CASE x = y
        BY <3>2, <4>1
      <4>2. CASE x # y
        BY <1>1, <3>1, <3>3, <3>4, <4>2, BothWays
      <4> QED
        BY <4>1, <4>2
    <3> QED
      BY <3>1, <3>2, <3>4, <3>5
  <2> QED
    BY <2>1, <2>2 DEF Ring
<1> DEFINE C == Cyclic(f)
<1>7. Solitary(C)
  BY <1>1, <1>6 DEF RingsStaySolitary
<1> HIDE DEF C
<1>8. \E a \in Members(m), b \in Members(o) : a \in C /\ b \in C
  BY <1>5 DEF C
<1>9. Whole(C) \in OwnNodes /\ Members(Whole(C)) = C
  <2>1. ToSet(searchRoots) = {}
    BY <1>1 DEF ToSet
  <2>2. C \in (SUBSET Defined) \ {{}}
    BY <1>6 DEF C, Ring
  <2>3. Whole(C) \in Combined
    BY <2>2 DEF Whole, Combined
  <2>4. Members(Whole(C)) = C
    BY <2>3 DEF Members, Whole
  <2> QED
    BY <1>7, <1>8, <2>1, <2>4 DEF Solitary
<1>10. m = Whole(C) /\ o = Whole(C)
  BY <1>1, <1>4, <1>5, <1>8, <1>9, NodeOfFunction
<1> QED
  BY <1>5, <1>7, <1>9, <1>10 DEF Solitary

LEMMA LoneCyclesResolved ==
  ASSUME AnalysisIInv, RingsIInv
  PROVE  LoneCyclesAreResolved
<1> SUFFICES ASSUME Done PROVE LoneCyclesAreResolved
  BY DEF LoneCyclesAreResolved
<1> DEFINE below == [f \in Defined |-> RawBelow(f)]
           Within(f) == {g \in RawCalls(f) : f \in below[g]}
           In(f) == {g \in below[f] : Within(g) # {}}
<1>1. Resolved
  BY DEF AnalysisIInv, Contracted, Done
<1>2. \A f \in Defined : below[f] = RawBelow(f)
  OBVIOUS
<1>3. ASSUME NEW f \in Defined PROVE Within(f) = CallsBack(f)
  <2>1. RawCalls(f) \subseteq Defined
    BY <1>1, RawBelowFacts
  <2> QED
    BY <1>2, <2>1 DEF CallsBack
<1> HIDE DEF below, Within
<1>4. ASSUME NEW f \in Defined
      PROVE  In(f) = Cyclic(f) /\ \A g \in In(f) : below[g] = RawBelow(g) /\ Within(g) = CallsBack(g)
  <2>1. RawBelow(f) \subseteq Defined
    BY <1>1, RawBelowFacts
  <2> QED
    BY <1>2, <1>3, <2>1 DEF Cyclic
<1> HIDE DEF In
<1>5. \A f \in Defined :
        /\ \A g, h \in In(f) : h \in below[g]
        /\ \A g \in In(f) : Cardinality(Within(g)) = 1
        => Unknown \notin recorded[f]
  <2> SUFFICES ASSUME NEW f \in Defined, \A g, h \in In(f) : h \in below[g],
                      \A g \in In(f) : Cardinality(Within(g)) = 1
               PROVE  Unknown \notin recorded[f]
    OBVIOUS
  <2>1. \A g, h \in Cyclic(f) : h \in RawBelow(g)
    BY <1>4
  <2>2. \A g \in Cyclic(f) : Cardinality(CallsBack(g)) = 1
    BY <1>4
  <2> QED
    BY <2>1, <2>2, LoneCycleIsResolved
<1> QED
  BY <1>5 DEF LoneCyclesAreResolved, below, Within, In
-----------------------------------------------------------------------------
(* For any functions, classes and calls between them, and any order of     *)
(* these: a call that left reasons.calls in _built_call_graph is a child   *)
(* of its node or one of its unknown calls, unless the called function is  *)
(* still being handled.                                                    *)
THEOREM NoCallIsLost == Spec => []NoCallLost
<1>1. AnalysisIInv => NoCallLost
  BY DEF AnalysisIInv, BuildIInv, NoCallLost
<1> QED
  BY <1>1, AnalysisInductive, PTL

(* A function that was entered and has calls left is being handled; when   *)
(* the loop over raw_reasons ends, every function is in the forest and has *)
(* handled all its calls.                                                  *)
THEOREM AllAreBuilt == Spec => []NothingHalfBuilt
<1>1. AnalysisIInv => NothingHalfBuilt
  BY NothingLeft DEF AnalysisIInv, NothingHalfBuilt
<1> QED
  BY <1>1, AnalysisInductive, PTL

(* _handle_cycles leaves a forest that _analyze_purity can work on: no     *)
(* ValueError is raised about a node without a result, and in the end      *)
(* exactly the functions and classes of the module have one.               *)
THEOREM EveryoneHasAResult == Spec => []EveryoneGetsAResult
<1>1. AnalysisIInv => EveryoneGetsAResult
  BY AllHaveResults
<1> QED
  BY <1>1, AnalysisInductive, PTL

(* From the resolved references to current_purity_results: a recorded      *)
(* result names every function, parameter, import and builtin its function *)
(* can lead to, or says that something is unknown.                         *)
THEOREM ResultsHideNothing == Spec => []NothingHiddenInResults
<1>1. AnalysisIInv => NothingHiddenInResults
  BY HiddenInNoResult
<1> QED
  BY <1>1, AnalysisInductive, PTL

(* A recorded result blames no function that the analysed one does not     *)
(* lead to, although the members of a cycle share one result.              *)
THEOREM BlameIsReachable == Spec => []NoFalseBlame
<1>1. AnalysisIInv => NoFalseBlame
  BY BlamedFairly
<1> QED
  BY <1>1, AnalysisInductive, PTL

(* Recursion costs a function no precision that reaches one cycle only, on *)
(* which every function calls just the next: _test_cgn_for_cycles finds    *)
(* this cycle before any node of it is passed over, _contract_cycle makes  *)
(* one node of it that does not call itself, and so UnknownProto is in no  *)
(* recorded result.                                                        *)
THEOREM LoneCyclesLeaveNoUnknown == Spec => []LoneCyclesAreResolved
<1>1. AnalysisIInv /\ RingsIInv => LoneCyclesAreResolved
  BY LoneCyclesResolved
<1> QED
  BY <1>1, AnalysisInductive, RingsInductive, PTL
=============================================================================
