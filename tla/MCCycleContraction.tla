------------------------ MODULE MCCycleContraction -------------------------
(* Call graphs of four functions and an imported one, in source order.     *)
EXTENDS CycleContraction

CONSTANTS
  f1, f2, f3, f4, i1,
  kImport,
  MaxCalls   \* bound on the number of calls in the call graph

Source == <<f1, i1, f2, f3, f4>>
MCKey == [s \in Import |-> kImport]

(* Children are added in the order of their ids.                           *)
Sorted(S) == SelectSeq(Source, LAMBDA c : c \in S)

CallsOf(calls, f) == {c \in Defined \cup Import : <<f, c>> \in calls}

(* Any calls of the functions, and the forest in source order or reversed. *)
(* An imported function is in the forest if it is called.                  *)
MCInputs ==
  LET few == UNION {kSubset(k, Defined \X (Defined \cup Import)) : k \in 0..MaxCalls}
      InGraph(calls) == Defined \cup {e[2] : e \in calls}
  IN  {[forest |-> SelectSeq(order, LAMBDA n : n \in InGraph(calls)),
        children |-> [n \in Node |->
                        IF n \in Defined THEN Sorted(CallsOf(calls, n)) ELSE <<>>]] :
         order \in {Source, Reverse(Source)}, calls \in few}
=============================================================================
