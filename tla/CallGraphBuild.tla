-------------------------- MODULE CallGraphBuild ---------------------------
(***************************************************************************)
(* The first half of CallGraphBuilder: _prepare_classes and the recursive  *)
(* _built_call_graph, run for every function of the module.  The recursion *)
(* is an explicit stack; one action is one iteration of a loop or one      *)
(* return.                                                                 *)
(*                                                                         *)
(* The set reasons.calls of a node doubles as its progress marker: a node  *)
(* in the forest with no calls left counts as finished.  The same object   *)
(* is raw_reasons[f], so the marker of a function changes while callers    *)
(* further up the stack still wait for it.                                 *)
(***************************************************************************)
EXTENDS ResolvedReferences

VARIABLES
  raw,       \* the calls the reference resolver found, function |-> symbols
  calls,     \* reasons.calls: the calls that are not handled yet
  unknown,   \* reasons.unknown_calls
  entered,   \* visited: functions _built_call_graph was entered for
  queue,     \* functions _build_call_graph_forest still has to look at
  frames     \* activations of _built_call_graph: function, calls to handle

buildVars == <<forest, children, raw, calls, unknown, entered, queue, frames>>

(* Mutant: a node in the forest is taken for finished.                     *)
FinishedOnceAdded(s) == HasId(forest, Id(s))

Finished(s) ==
  /\ HasId(forest, Id(s))
  /\ s \in Function => calls[s] = {}

(* The resolver records a member call of a module twice: as the resolved   *)
(* Import symbol and as an unknown call with the same call node.           *)
BuildInit ==
  /\ raw \in RawReasons
  /\ calls = raw
  /\ unknown = [f \in Function |-> raw[f] \cap MemberCall]
  /\ forest = PreparedForest
  /\ children = [n \in Node |-> IF n \in Class THEN Ctors[n] ELSE <<>>]
  /\ entered = {}
  /\ queue = FunctionOrder
  /\ frames = <<>>

Current == Last(frames)
Caller == Current.fn

(* Entering _built_call_graph for a function that is not finished.         *)
Enter(f, below) ==
  /\ entered' = entered \cup {f}
  /\ forest' = IF HasId(forest, f) THEN forest ELSE Append(forest, f)
  /\ frames' = Append(below, [fn |-> f, todo |-> calls'[f]])

(* The loop of _build_call_graph_forest.                                   *)
SkipFunction ==
  /\ frames = <<>> /\ queue # <<>>
  /\ Finished(Head(queue)) \/ Head(queue) \in entered
  /\ queue' = Tail(queue)
  /\ UNCHANGED <<raw, calls, unknown, forest, children, entered, frames>>

StartFunction ==
  /\ frames = <<>> /\ queue # <<>>
  /\ ~Finished(Head(queue)) /\ Head(queue) \notin entered
  /\ queue' = Tail(queue)
  /\ UNCHANGED <<raw, calls, unknown, children>>
  /\ Enter(Head(queue), <<>>)

(* The next call in the sorted snapshot; it leaves reasons.calls before it *)
(* is looked at.                                                           *)
TakeCall(s) ==
  /\ frames # <<>>
  /\ s \in Current.todo
  /\ \A t \in Current.todo : Rank[s] <= Rank[t]
  /\ calls' = [calls EXCEPT ![Caller] = @ \ {s}]
  /\ UNCHANGED <<raw, queue>>

CallDone(s) ==
  frames' = [frames EXCEPT ![Len(frames)].todo = @ \ {s}]

(* get_graph(id) of the node that is in the forest under that id.          *)
GraphOf(s) == CHOOSE n \in ToSet(forest) : Id(n) = Id(s)

CallBuiltin(s) ==
  /\ s \in Builtin
  /\ TakeCall(s) /\ CallDone(s)
  /\ children' = [children EXCEPT ![Caller] = AddChild(@, s)]
  /\ UNCHANGED <<unknown, forest, entered>>

(* The called node is finished: only a pointer is needed.                  *)
CallFinished(s) ==
  /\ s \notin Builtin
  /\ TakeCall(s) /\ CallDone(s)
  /\ HasId(forest, Id(s)) /\ (s \in Function => calls'[s] = {})
  /\ children' = [children EXCEPT ![Caller] = AddChild(@, GraphOf(s))]
  /\ UNCHANGED <<unknown, forest, entered>>

(* _handle_unknown_call for an imported function.                          *)
CallImport(s) ==
  /\ s \in Import /\ ~HasId(forest, Id(s))
  /\ TakeCall(s) /\ CallDone(s)
  /\ forest' = Append(forest, s)
  /\ children' = [children EXCEPT ![Caller] = AddChild(@, s)]
  /\ unknown' = [unknown EXCEPT ![Caller] = @ \ {s}]
  /\ UNCHANGED entered

(* _handle_unknown_call for a parameter or anything else.                  *)
CallUnknown(s) ==
  /\ s \in Parameter \cup Other
  /\ TakeCall(s) /\ CallDone(s)
  /\ unknown' = [unknown EXCEPT ![Caller] = @ \cup {s}]
  /\ UNCHANGED <<forest, children, entered>>

(* Mutant: a recursive call leaves no pointer.                             *)
CallOpenUnlinked(s) ==
  /\ s \in entered
  /\ TakeCall(s) /\ CallDone(s)
  /\ calls'[s] # {}
  /\ UNCHANGED <<unknown, forest, children, entered>>

(* The called function is not finished.  If it was entered before, it is   *)
(* further down the stack and the recursive call returns at once.          *)
CallOpen(s) ==
  /\ s \in entered
  /\ TakeCall(s) /\ CallDone(s)
  /\ calls'[s] # {}
  /\ children' = [children EXCEPT ![Caller] = AddChild(@, s)]
  /\ UNCHANGED <<unknown, forest, entered>>

CallRecurse(s) ==
  /\ s \in Function \ entered
  /\ TakeCall(s)
  /\ ~HasId(forest, s) \/ calls'[s] # {}
  /\ Enter(s, [frames EXCEPT ![Len(frames)].todo = @ \ {s}])
  /\ UNCHANGED <<unknown, children>>

(* The activation ends; the caller adds the pointer to its child.          *)
ReturnToCaller ==
  /\ frames # <<>> /\ Current.todo = {}
  /\ frames' = Front(frames)
  /\ children' = IF Len(frames) = 1 THEN children
                 ELSE [children EXCEPT ![frames[Len(frames) - 1].fn] =
                         AddChild(@, Caller)]
  /\ UNCHANGED <<raw, calls, unknown, forest, entered, queue>>

BuildNext ==
  \/ SkipFunction \/ StartFunction \/ ReturnToCaller
  \/ \E s \in Callable :
        \/ CallBuiltin(s) \/ CallFinished(s) \/ CallImport(s)
        \/ CallUnknown(s) \/ CallOpen(s) \/ CallRecurse(s)

BuildDone == queue = <<>> /\ frames = <<>>
-----------------------------------------------------------------------------
InProgress(f) == \E i \in DOMAIN frames : frames[i].fn = f

(* What became of a call once it was taken out of reasons.calls.           *)
Answered(f, s) ==
  IF s \in Parameter \cup Other
  THEN s \in unknown[f]
  ELSE HasId(children[f], Id(s))

Awaited(f, s) ==
  \E i \in 1..Len(frames) - 1 : frames[i].fn = f /\ frames[i + 1].fn = s

(* A call that left reasons.calls is a child of the node or one of its     *)
(* unknown calls, unless _built_call_graph is busy with the called one.    *)
EveryCallLeadsSomewhere ==
  \A f \in Function : \A s \in raw[f] \ calls[f] :
    Answered(f, s) \/ Awaited(f, s)

(* A function with calls left is in progress or not reached yet; in the    *)
(* end every function is in the forest and has none left.                  *)
OpenOnesAreInProgress ==
  /\ \A f \in entered : calls[f] # {} => InProgress(f)
  /\ BuildDone => \A f \in Function : HasId(forest, f) /\ calls[f] = {}
=============================================================================
