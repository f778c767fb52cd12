------------------------- MODULE MCImportedModules -------------------------
(* Three modules that import each other, and one that cannot be read.      *)
EXTENDS ImportedModules

CONSTANTS main, a, b, bad, m1, m2, a1, a2, bf, badf, native, MaxCalls

MCModuleOf ==
  [f \in Function |-> CASE f \in {m1, m2} -> main
                        [] f \in {a1, a2} -> a
                        [] f = bf -> b
                        [] OTHER -> bad]

(* The children of a function are in the order of the source.              *)
SourceOrder == <<m1, m2, a1, a2, bf, badf, native>>

(* Functions of the modules that are read call anything else.  Within a    *)
(* module a function calls only those that come after it: there is no      *)
(* cycle.                                                                  *)
Before(f, c) ==
  \E i, j \in DOMAIN SourceOrder :
    SourceOrder[i] = f /\ SourceOrder[j] = c /\ i < j

PossibleCalls ==
  {e \in (Function \ {badf}) \X Target :
     /\ e[1] \notin Unlisted
     /\ Imported(e[1], e[2]) \/ (Before(e[1], e[2]) /\ e[2] \notin Unlisted)}

CallSets ==
  {{}} \cup {ToSet(list) : list \in [1..MaxCalls -> PossibleCalls]}

Forests ==
  {[m \in Module |->
      SetToSeq(Own(m) \ {m1, m2}) \o (IF m = main THEN order ELSE <<>>)] :
     order \in SetToSeqs({m1, m2})}

MCInputs ==
  {[calls  |-> [f \in Function |->
                  SelectSeq(SourceOrder, LAMBDA c : <<f, c>> \in set)],
    forest |-> forests] :
     set \in CallSets, forests \in Forests}
=============================================================================
