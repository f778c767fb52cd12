-------------------------- MODULE ImportedModules --------------------------
(***************************************************************************)
(* The purity analysis across modules: a PurityAnalyzer that meets a call  *)
(* of an imported function runs infer_purity on the imported module, and   *)
(* both share cached_module_results.  The analyzers form a stack, each     *)
(* with a stack of activations of _process_node of its own.                *)
(*                                                                         *)
(* Modules may import each other.  The cycles of calls inside a module are *)
(* the subject of CycleContraction and PurityInference; what is left of    *)
(* them would be met here as well, and the model checker looks at programs *)
(* without any.                                                            *)
(***************************************************************************)
EXTENDS Naturals, FiniteSets, SequencesExt

CONSTANTS
  Module,
  Root,        \* the module infer_purity is called for
  Unreadable,  \* modules whose source cannot be decoded
  Function,
  ModuleOf,    \* function |-> its module
  Unlisted,    \* functions that get no result when their module is analysed
  Opaque,      \* imported calls that are not resolved or lead to native code
  Unknown,     \* the reason of an UnknownCall that says no more
  Inputs       \* what the functions call, and the order of the forests

Target == Function \cup Opaque
Reason == Target \cup {Unknown}

Own(m) == {f \in Function \ Unlisted : ModuleOf[f] = m}

(* Children that belong to the module of the caller are not imported.      *)
Imported(f, c) == c \in Function => ModuleOf[c] # ModuleOf[f]

WellFormed(in) ==
  /\ in.calls \in [Function -> Seq(Target)]
  /\ \A f \in Function : \A c \in ToSet(in.calls[f]) :
        ~Imported(f, c) => c \notin Unlisted
  /\ in.forest \in [Module -> Seq(Function)]
  /\ \A m \in Module : ToSet(in.forest[m]) = Own(m)

ASSUME ModuleInputs ==
  /\ Root \in Module /\ Unreadable \subseteq Module \ {Root}
  /\ ModuleOf \in [Function -> Module] /\ Unlisted \subseteq Function
  /\ Opaque \cap Function = {} /\ Unknown \notin Target
  /\ \A in \in Inputs : WellFormed(in)

VARIABLES
  calls,      \* function |-> its children
  forest,     \* module |-> its functions, in the order of the forest
  cache,      \* cached_module_results: module |-> function |-> result
  analyzers,  \* the analyzers at work, the innermost last
  returned    \* what infer_purity returned for Root

program == <<calls, forest>>
vars == <<program, cache, analyzers, returned>>

Put(map, key, value) ==
  [k \in DOMAIN map \cup {key} |-> IF k = key THEN value ELSE map[k]]

(* An analyzer: node.reasons.result of the inferred nodes, visited_nodes,  *)
(* what _analyze_purity still has to look at, current_purity_results, and  *)
(* the activations of _process_node.                                       *)
Analyzer(m) ==
  [module |-> m, inferred |-> <<>>, visited |-> {}, queue |-> forest[m],
   recorded |-> <<>>, frames |-> <<>>]

Init ==
  /\ \E in \in Inputs : calls = in.calls /\ forest = in.forest
  /\ cache = <<>>
  /\ analyzers = <<Analyzer(Root)>>
  /\ returned = <<>>

Working == analyzers # <<>>
Current == Last(analyzers)
Frame == Last(Current.frames)
AtRoot == Working /\ Current.frames = <<>> /\ Current.queue # <<>>
AtCall ==
  Working /\ Current.frames # <<>> /\ Frame.next <= Len(calls[Frame.fn])
Callee == calls[Frame.fn][Frame.next]

Cached(m, f) == m \in DOMAIN cache /\ f \in DOMAIN cache[m]

(* What _process_node answers without processing f.                        *)
Known(f) ==
  f \in DOMAIN Current.inferred \cup Current.visited \/ Cached(ModuleOf[f], f)
Answer(f) ==
  IF f \in DOMAIN Current.inferred THEN Current.inferred[f]
  ELSE IF Cached(ModuleOf[f], f) THEN cache[ModuleOf[f]][f] ELSE {Unknown}

(* Mutant: what is being analysed has no reasons yet.                      *)
ImportAnswerPure(c) ==
  IF c \in Opaque THEN {c}
  ELSE IF Cached(ModuleOf[c], c) THEN cache[ModuleOf[c]][c] ELSE {}

(* What _process_imported_node answers without an analysis of the module.  *)
ImportKnown(c) == c \in Function => ModuleOf[c] \in DOMAIN cache
ImportAnswer(c) ==
  IF c \in Opaque THEN {c}
  ELSE IF Cached(ModuleOf[c], c) THEN cache[ModuleOf[c]][c] ELSE {Unknown}

WithCurrent(a) == [analyzers EXCEPT ![Len(analyzers)] = a]

(* The result of the child at hand is added to what its caller collects.   *)
Advance(a, res) ==
  [a EXCEPT !.frames[Len(a.frames)] =
     [fn |-> @.fn, next |-> @.next + 1, acc |-> @.acc \cup res]]

Enter(a, f) ==
  [a EXCEPT !.visited = @ \cup {f},
            !.frames = Append(@, [fn |-> f, next |-> 1, acc |-> {}])]

Record(a, f, res) ==
  [a EXCEPT !.recorded = Put(@, f, res), !.queue = Tail(@)]

RootKnown ==
  /\ AtRoot /\ Known(Head(Current.queue))
  /\ LET f == Head(Current.queue)
     IN  analyzers' = WithCurrent(Record(Current, f, Answer(f)))
  /\ UNCHANGED <<program, cache, returned>>

EnterRoot ==
  /\ AtRoot /\ ~Known(Head(Current.queue))
  /\ analyzers' = WithCurrent(Enter(Current, Head(Current.queue)))
  /\ UNCHANGED <<program, cache, returned>>

CallKnown ==
  /\ AtCall /\ ~Imported(Frame.fn, Callee) /\ Known(Callee)
  /\ analyzers' = WithCurrent(Advance(Current, Answer(Callee)))
  /\ UNCHANGED <<program, cache, returned>>

EnterCall ==
  /\ AtCall /\ ~Imported(Frame.fn, Callee) /\ ~Known(Callee)
  /\ analyzers' = WithCurrent(Enter(Current, Callee))
  /\ UNCHANGED <<program, cache, returned>>

ImportedKnown ==
  /\ AtCall /\ Imported(Frame.fn, Callee) /\ ImportKnown(Callee)
  /\ analyzers' = WithCurrent(Advance(Current, ImportAnswer(Callee)))
  /\ UNCHANGED <<program, cache, returned>>

(* The module is marked as being analysed, also if it cannot be read.      *)
ReadFails ==
  /\ AtCall /\ Imported(Frame.fn, Callee) /\ ~ImportKnown(Callee)
  /\ ModuleOf[Callee] \in Unreadable
  /\ cache' = Put(cache, ModuleOf[Callee], <<>>)
  /\ analyzers' = WithCurrent(Advance(Current, {Unknown}))
  /\ UNCHANGED <<program, returned>>

(* Mutant: the module is not marked.                                       *)
EnterModuleUnmarked ==
  /\ AtCall /\ Imported(Frame.fn, Callee) /\ ~ImportKnown(Callee)
  /\ ModuleOf[Callee] \notin Unreadable
  /\ analyzers' = Append(analyzers, Analyzer(ModuleOf[Callee]))
  /\ UNCHANGED <<program, cache, returned>>

EnterModule ==
  /\ AtCall /\ Imported(Frame.fn, Callee) /\ ~ImportKnown(Callee)
  /\ ModuleOf[Callee] \notin Unreadable
  /\ cache' = Put(cache, ModuleOf[Callee], <<>>)
  /\ analyzers' = Append(analyzers, Analyzer(ModuleOf[Callee]))
  /\ UNCHANGED <<program, returned>>

(* All children of the function are processed.                             *)
Return ==
  /\ Working /\ Current.frames # <<>> /\ ~AtCall
  /\ LET f == Frame.fn
         res == {f} \cup Frame.acc
         left == [Current EXCEPT !.inferred = Put(@, f, res),
                                 !.frames = Front(@)]
     IN  analyzers' =
           WithCurrent(IF left.frames = <<>> THEN Record(left, f, res)
                                             ELSE Advance(left, res))
  /\ UNCHANGED <<program, cache, returned>>

(* Mutants: the results are lost; those of other modules are.              *)
CacheAfterNothing(m, results) == cache
CacheAfterOnly(m, results) == [k \in {m} |-> results]

(* cached_module_results.update                                            *)
CacheAfter(m, results) == Put(cache, m, results)

(* The analysis of an imported module ends: its results are cached, and    *)
(* the call that led to it is answered.                                    *)
ModuleDone ==
  /\ Len(analyzers) > 1 /\ Current.frames = <<>> /\ Current.queue = <<>>
  /\ cache' = CacheAfter(Current.module, Current.recorded)
  /\ LET below == analyzers[Len(analyzers) - 1]
         at == Last(below.frames)
         callee == calls[at.fn][at.next]
         found == cache'[Current.module]
     IN  analyzers' =
           Append(SubSeq(analyzers, 1, Len(analyzers) - 2),
                  Advance(below, IF callee \in DOMAIN found THEN found[callee]
                                                            ELSE {Unknown}))
  /\ UNCHANGED <<program, returned>>

AllDone ==
  /\ Len(analyzers) = 1 /\ Current.frames = <<>> /\ Current.queue = <<>>
  /\ returned' = Current.recorded
  /\ analyzers' = <<>>
  /\ UNCHANGED <<program, cache>>

Terminated == analyzers = <<>> /\ UNCHANGED vars

Next ==
  \/ RootKnown \/ EnterRoot \/ CallKnown \/ EnterCall \/ Return
  \/ ImportedKnown \/ ReadFails \/ EnterModule \/ ModuleDone \/ AllDone
  \/ Terminated

Spec == Init /\ [][Next]_vars
-----------------------------------------------------------------------------
(* The shape of the variables: maps of results, and analyzers that are in  *)
(* the middle of a walk.                                                   *)
ResultMap == UNION {[D -> SUBSET Reason] : D \in SUBSET Function}
FrameState == [fn : Function, next : Nat \ {0}, acc : SUBSET Reason]
AnalyzerState ==
  [module : Module, inferred : ResultMap, visited : SUBSET Function,
   queue : Seq(Function), recorded : ResultMap, frames : Seq(FrameState)]

TypeOK ==
  /\ calls \in [Function -> Seq(Target)]
  /\ forest \in [Module -> Seq(Function)]
  /\ cache \in UNION {[D -> ResultMap] : D \in SUBSET Module}
  /\ analyzers \in Seq(AnalyzerState)
  /\ returned \in ResultMap

(* Every result somebody may still read or get, as pairs.                  *)
Pairs(map) == {<<f, map[f]>> : f \in DOMAIN map}
Results ==
  Pairs(returned)
  \cup (UNION {Pairs(cache[m]) : m \in DOMAIN cache})
  \cup (UNION {Pairs(a.inferred) \cup Pairs(a.recorded) : a \in ToSet(analyzers)})

(* Sets of functions and opaque calls that no call leads out of.           *)
Closed(X) == \A f \in X \cap Function : ToSet(calls[f]) \subseteq X

(* Whatever a function can lead to, over any number of modules that import *)
(* each other in any way, is named in all its results, or the result says  *)
(* that something is unknown: it contains the function, and with every     *)
(* function all that it calls.                                             *)
NothingHiddenAcrossModules ==
  \A r \in Results : Unknown \notin r[2] => r[1] \in r[2] /\ Closed(r[2])

Imports(m, k) ==
  \E f \in Function : ModuleOf[f] = m /\
    \E c \in ToSet(calls[f]) \cap Function : Imported(f, c) /\ ModuleOf[c] = k

ClosedModules(M) == \A m \in M, k \in Module : Imports(m, k) => k \in M

(* Modules each of which imports one of them, and the same for calls       *)
(* inside a module.                                                        *)
ImportCycle(C) == C # {} /\ \A m \in C : \E k \in C : Imports(m, k)
OwnCycle(C) ==
  C # {} /\ \A f \in C : \E c \in ToSet(calls[f]) \cap C : ~Imported(f, c)

(* Functions without a result: nothing is to be known about them.          *)
Lost == Unlisted \cup {f \in Function : ModuleOf[f] \in Unreadable}

(* A result blames nothing its function cannot reach.  Something is        *)
(* unknown in it only if there is nothing to be known about a function it  *)
(* reaches, if its module depends on modules that import each other, or if *)
(* a cycle of calls was left inside a module.                              *)
UnknownOnlyForImportCycles ==
  \A X \in SUBSET Target : Closed(X) =>
    \A r \in Results : r[1] \in X =>
      /\ r[2] \subseteq X \cup {Unknown}
      /\ Unknown \in r[2] /\ X \cap Lost = {} =>
           \/ \E C \in SUBSET (X \cap Function) : OwnCycle(C)
           \/ \A M \in SUBSET Module :
                ModuleOf[r[1]] \in M /\ ClosedModules(M) =>
                  \E C \in SUBSET M : ImportCycle(C)

(* However modules import each other, nested analyses are of different     *)
(* modules, each marked in the cache until it ends: there are never more   *)
(* of them than modules.  The module that infer_purity was called for is   *)
(* not marked, so that it can be among them.                               *)
NestedAnalysesDiffer ==
  /\ Working => analyzers[1].module = Root
  /\ \A i \in 2..Len(analyzers) :
       /\ analyzers[i].module \in DOMAIN cache
       /\ cache[analyzers[i].module] = <<>>
       /\ \A j \in 2..Len(analyzers) :
            analyzers[i].module = analyzers[j].module => i = j

(* A cached result is never taken back or changed, whoever got it.         *)
CacheIsFinal ==
  [][\A m \in DOMAIN cache : m \in DOMAIN cache' /\
       \A f \in DOMAIN cache[m] :
         f \in DOMAIN cache'[m] /\ cache'[m][f] = cache[m][f]]_vars
=============================================================================
