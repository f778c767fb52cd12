--------------------------- MODULE PurityAnalysis ---------------------------
(***************************************************************************)
(* The purity analysis of one module from the resolved references to the   *)
(* recorded results: build the call graph, contract its cycles, infer the  *)
(* results.  The three phases work on one forest; each is a module of its  *)
(* own.                                                                    *)
(***************************************************************************)
EXTENDS CallGraphBuild, CycleContraction, PurityInference

VARIABLE phase

searchVars == <<removed, searchRoots, path, untried>>
inferVars == <<inferred, result, visited, roots, stack, separated, recorded,
               marked, outcome>>
resolvedVars == <<raw, calls, unknown, entered, queue, frames>>
vars == <<phase, forest, children, resolvedVars, built, reasons, searchVars,
          inferVars>>

(* Mutant: unknown calls are no reason.                                    *)
ImpurityReasonsKnown(n) == IF n \in Function THEN {n} ELSE {}

(* _get_impurity_result: the reads and writes of a function are the reason *)
(* named after it.  Of its unknown calls, those of symbols that are no     *)
(* Reference, Parameter or Import are passed over.                         *)
ImpurityReasons(n) ==
  IF n \in Function THEN {n} \cup (unknown[n] \ Other) ELSE {}

(* Each phase finds its own variables as they were initialised, and takes  *)
(* its own copy of the forest to iterate over.                             *)
Init ==
  /\ phase = "build"
  /\ BuildInit
  /\ built = children
  /\ reasons = [n \in Node |-> {}]
  /\ StartContraction
  /\ StartInference

Build ==
  /\ phase = "build" /\ BuildNext
  /\ UNCHANGED <<phase, built, reasons, searchVars, inferVars>>

HandleCycles ==
  /\ phase = "build" /\ BuildDone
  /\ phase' = "contract"
  /\ built' = children
  /\ reasons' = [n \in Node |-> ImpurityReasons(n)]
  /\ searchRoots' = forest
  /\ UNCHANGED <<forest, children, resolvedVars, removed, path, untried,
                 inferVars>>

ContractCycles ==
  /\ phase = "contract" /\ ContractionNext
  /\ UNCHANGED <<phase, resolvedVars, inferVars>>

AnalyzePurity ==
  /\ phase = "contract" /\ ContractionDone
  /\ phase' = "infer"
  /\ roots' = forest
  /\ UNCHANGED <<forest, children, resolvedVars, built, reasons, searchVars,
                 inferred, result, visited, stack, separated, recorded,
                 marked, outcome>>

Infer ==
  /\ phase = "infer" /\ InferenceNext
  /\ UNCHANGED <<phase, resolvedVars, built, searchVars>>

Next == Build \/ HandleCycles \/ ContractCycles \/ AnalyzePurity \/ Infer

Spec == Init /\ [][Next]_vars /\ WF_vars(Next)
-----------------------------------------------------------------------------
Done == phase = "infer" /\ outcome = "done"

(* What a function or class calls inside the module, as it was resolved.   *)
RawCalls(f) ==
  IF f \in Class THEN ToSet(Ctors[f]) ELSE raw[f] \cap Defined

(* What f can lead to, and f itself: no set that is closed under these     *)
(* calls contains f without it.                                            *)
RawClosed == {X \in SUBSET Defined : \A f \in X : RawCalls(f) \subseteq X}
RawBelow(f) == {g \in Defined : \A X \in RawClosed : f \in X => g \in X}

(* While the call graph is built no call is lost (_built_call_graph): a     *)
(* call that left reasons.calls is a child of the node or one of its       *)
(* unknown calls, unless the called function is still being handled.       *)
NoCallLost == phase = "build" => EveryCallLeadsSomewhere

(* A function with calls left is being handled or not reached yet, so that *)
(* nothing but an activation in progress can still change a node; at the   *)
(* end every function is in the forest and has handled all its calls.      *)
NothingHalfBuilt == phase = "build" => OpenOnesAreInProgress

(* The forest the contraction leaves is one the inference can work on      *)
(* (_handle_cycles): in the end every function has a result, and the value *)
(* error about a node without one is never raised.                         *)
EveryoneGetsAResult ==
  phase = "infer" =>
    /\ WellContracted([forest |-> forest, children |-> children, reasons |-> reasons])
    /\ outcome # "failed"
    /\ Done => DOMAIN recorded = Defined

(* End to end: whatever a function can lead to, over any number of calls,  *)
(* recursions and class instantiations, is named in its recorded result,   *)
(* or the result says that something is unknown.  An imported function or  *)
(* builtin is named by one of the calls that share its id.                 *)
NothingHiddenInResults ==
  Done => \A f \in Defined : \A g \in RawBelow(f) \cap Function :
            \/ Unknown \in recorded[f]
            \/ /\ {g} \cup (raw[g] \cap Parameter) \subseteq recorded[f]
               /\ \A s \in raw[g] \cap (Import \cup Builtin) :
                    \E r \in recorded[f] : Id(r) = Id(s)

(* A result blames no function that the analysed one cannot reach.         *)
NoFalseBlame ==
  Done => \A f \in Defined : recorded[f] \cap Defined \subseteq RawBelow(f)

(* Recursion costs no precision for a function that reaches one cycle      *)
(* only, on which every function calls just the next: a search that finds  *)
(* no other cycle first finds this one, whatever leads to it.              *)
LoneCyclesAreResolved ==
  Done => LET below == [f \in Defined |-> RawBelow(f)]
              Within(f) == {g \in RawCalls(f) : f \in below[g]}
              Cyclic(f) == {g \in below[f] : Within(g) # {}}
          IN  \A f \in Defined :
                /\ \A g, h \in Cyclic(f) : h \in below[g]
                /\ \A g \in Cyclic(f) : Cardinality(Within(g)) = 1
                => Unknown \notin recorded[f]

(* The phases follow each other until the results are recorded.            *)
Termination == <>Done
=============================================================================
