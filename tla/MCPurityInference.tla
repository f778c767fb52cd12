------------------------- MODULE MCPurityInference -------------------------
(* All small call graphs: functions and classes on their own, combined     *)
(* nodes, imported functions and builtins, in every order of the forest.   *)
EXTENDS PurityInference

CONSTANTS f1, f2, c1, i1, b1, kImport, kBuiltin, MaxCalls

MCKey ==
  [s \in Import \cup Builtin |-> IF s \in Import THEN kImport ELSE kBuiltin]

(* The ways to combine some of the functions and classes.  Two functions   *)
(* that are combined with themselves only would tell nothing new.          *)
Groupings ==
  {G \in SUBSET ((Defined \cup Combined) \ {[of |-> {f2}]}) :
     \A f \in Defined : Cardinality({n \in G : f \in Members(n)}) = 1}

Forests == UNION {SetToSeqs(G \cup Import) : G \in Groupings}

(* Calls lead from a place in the forest to another, or to the builtin.    *)
Places == 1..Cardinality(Defined \cup Import)
CallSets ==
  {{}} \cup {ToSet(list) : list \in [1..MaxCalls -> Places \X (Places \cup {0})]}

PlaceOf(order, n) == CHOOSE i \in DOMAIN order : order[i] = n

(* Children are in one fixed order; as the forest takes every order, both  *)
(* agree in some graphs and disagree in others.                            *)
ChildOrder == FoldSet(LAMBDA n, list : Append(list, n), <<>>, Node)

Children(order, calls, n) ==
  IF n \in External \/ n \notin ToSet(order) THEN <<>>
  ELSE LET to == {e[2] : e \in {e \in calls : e[1] = PlaceOf(order, n)}}
           called == {order[i] : i \in to \cap DOMAIN order}
                     \cup (IF 0 \in to THEN Builtin ELSE {})
       IN  SelectSeq(ChildOrder, LAMBDA c : c \in called)

MCInputs ==
  {[forest   |-> order,
    children |-> [n \in Node |-> Children(order, calls, n)],
    reasons  |-> [n \in Node |-> IF n \in External THEN {} ELSE Members(n)]] :
      order \in Forests, calls \in CallSets}
=============================================================================
