-------------------------- MODULE PurityInference --------------------------
(***************************************************************************)
(* PurityAnalyzer._analyze_purity for one module: a depth-first walk over  *)
(* the call graph forest that gives every node the reasons for impurity of *)
(* everything it calls.  The recursion of _process_node is an explicit     *)
(* stack; one action is one child or one return.                           *)
(*                                                                         *)
(* A result is a set of reasons: Pure is the empty set.  reasons.result of *)
(* a node is None until the node is in the set inferred.                   *)
(***************************************************************************)
EXTENDS CallGraph

CONSTANTS
  Unknown,           \* the UnknownCall that breaks a recursion
  ContractedGraphs   \* the call graphs to analyse

Reason == Callable \cup {Unknown}

(* What the inference is given: all children of nodes in the forest are in *)
(* the forest or builtins, a combined node has replaced its members, no    *)
(* function is part of two nodes, and nothing is known of an imported      *)
(* function but that it is called.                                         *)
WellContracted(in) ==
  LET nodes == ToSet(in.forest)
  IN  /\ in.forest \in Seq(Node \ Builtin)
      /\ in.children \in [Node -> Seq(Node)]
      /\ in.reasons \in [Node -> SUBSET Callable]
      /\ \A n \in nodes : Calls(in.children, n) \subseteq nodes \cup Builtin
      /\ \A m, n \in nodes : m = n \/ Members(m) \cap Members(n) = {}
      /\ \A n \in nodes \cap Import :
           in.reasons[n] = {} /\ Calls(in.children, n) = {}

ASSUME InferenceInputs ==
  /\ Unknown \notin Callable
  /\ \A in \in ContractedGraphs : WellContracted(in)

VARIABLES
  inferred,   \* the nodes whose reasons.result is not None
  result,     \* their reasons.result
  visited,    \* visited_nodes
  roots,      \* what _analyze_purity still has to look at
  stack,      \* activations of _process_node
  separated,  \* separated_nodes
  recorded,   \* current_purity_results of the module
  marked,     \* the classes whose recorded result has is_class set
  outcome     \* "running", "done" or "failed"

graph == <<forest, children, reasons>>
inferenceVars == <<graph, inferred, result, visited, roots, stack, separated,
                   recorded, marked, outcome>>

StartInference ==
  /\ inferred = {} /\ result = [n \in Node |-> {}]
  /\ visited = {} /\ stack = <<>> /\ separated = {}
  /\ recorded = <<>> /\ marked = {}
  /\ roots = forest
  /\ outcome = "running"

External == Import \cup Builtin

Top == Last(stack)
Child == children[Top.node][Top.next]
ChildrenLeft == stack # <<>> /\ Top.next <= Len(children[Top.node])

(* Mutant: only a recursion is noticed.                                    *)
KnownIfOnStack(n) == n \in External \/ \E i \in DOMAIN stack : stack[i].node = n

(* _process_node answers at once for imported functions and builtins, for  *)
(* nodes that are inferred, and for nodes it was already entered for.      *)
Known(n) == n \in External \cup inferred \cup visited
(* Mutants: a recursion is pure; every visited node is one.                *)
AnswerPure(n) ==
  IF n \in External THEN {n} ELSE IF n \in inferred THEN result[n] ELSE {}
AnswerRecursion(n) ==
  IF n \in External THEN {n}
  ELSE IF n \in visited THEN {Unknown} ELSE result[n]
Answer(n) ==
  IF n \in External THEN {n}
  ELSE IF n \in inferred THEN result[n] ELSE {Unknown}

(* Mutant: nobody is separated.                                            *)
SeparateNobody(n, known, res) ==
  /\ n \in Node
  /\ inferred' = known /\ result' = res /\ UNCHANGED separated

(* separate(): the members share the result of the combined node, even if  *)
(* that is still None.                                                     *)
Separate(n, known, res) ==
  LET members == IF n \in Combined THEN n.of ELSE {}
  IN  /\ separated' = separated \cup members
      /\ inferred' = IF n \in known THEN known \cup members
                                    ELSE known \ members
      /\ result' = [m \in Node |-> IF m \in members THEN res[n] ELSE res[m]]

(* The loop of _analyze_purity is done with n.                             *)
Record(n, res) ==
  /\ recorded' = IF n \in Combined THEN recorded
                 ELSE [f \in DOMAIN recorded \cup {n} |->
                         IF f = n THEN res ELSE recorded[f]]
  /\ marked' = marked \cup ({n} \cap Class)
  /\ roots' = Tail(roots)

(* Mutant: all activations collect into one set.                           *)
PushShared(n) ==
  /\ visited' = visited \cup {n}
  /\ stack' = Append(stack, [node |-> n, next |-> 1,
                             acc |-> IF stack = <<>> THEN {} ELSE Top.acc])
  /\ UNCHANGED <<graph, inferred, result, roots, separated, recorded, marked,
                 outcome>>

Push(n) ==
  /\ visited' = visited \cup {n}
  /\ stack' = Append(stack, [node |-> n, next |-> 1, acc |-> {}])
  /\ UNCHANGED <<graph, inferred, result, roots, separated, recorded, marked,
                 outcome>>

Advance(below, res) ==
  [below EXCEPT ![Len(below)] =
     [node |-> @.node, next |-> @.next + 1, acc |-> @.acc \cup res]]

Idle == stack = <<>> /\ roots # <<>> /\ outcome = "running"

SkipImport ==
  /\ Idle /\ Head(roots) \in Import
  /\ roots' = Tail(roots)
  /\ UNCHANGED <<graph, inferred, result, visited, stack, separated, recorded,
                 marked, outcome>>

KnownRoot ==
  /\ Idle /\ Head(roots) \notin Import /\ Known(Head(roots))
  /\ Record(Head(roots), Answer(Head(roots)))
  /\ Separate(Head(roots), inferred, result)
  /\ UNCHANGED <<graph, visited, stack, outcome>>

EnterRoot == Idle /\ ~Known(Head(roots)) /\ Push(Head(roots))

KnownChild ==
  /\ ChildrenLeft /\ Known(Child)
  /\ stack' = Advance(stack, Answer(Child))
  /\ Separate(Child, inferred, result)
  /\ UNCHANGED <<graph, visited, roots, recorded, marked, outcome>>

EnterChild == ChildrenLeft /\ ~Known(Child) /\ Push(Child)

(* All children are processed.                                             *)
Return ==
  /\ stack # <<>> /\ ~ChildrenLeft
  /\ LET n == Top.node
         res == reasons[n] \cup Top.acc
     IN  /\ Separate(n, inferred \cup {n}, [result EXCEPT ![n] = res])
         /\ IF Len(stack) = 1
            THEN stack' = <<>> /\ Record(n, res)
            ELSE /\ stack' = Advance(Front(stack), res)
                 /\ UNCHANGED <<recorded, marked, roots>>
  /\ UNCHANGED <<graph, visited, outcome>>

(* The separated nodes are recorded, or raise a ValueError.                *)
Finish ==
  /\ stack = <<>> /\ roots = <<>> /\ outcome = "running"
  /\ IF separated \subseteq inferred
     THEN /\ outcome' = "done"
          /\ recorded' = [f \in DOMAIN recorded \cup separated |->
                            IF f \in separated THEN result[f] ELSE recorded[f]]
     ELSE outcome' = "failed" /\ UNCHANGED recorded
  /\ UNCHANGED <<graph, inferred, result, visited, roots, stack, separated,
                 marked>>

InferenceNext ==
  \/ SkipImport \/ KnownRoot \/ EnterRoot
  \/ KnownChild \/ EnterChild \/ Return \/ Finish

InferenceInit ==
  /\ \E in \in ContractedGraphs :
        /\ forest = in.forest
        /\ children = in.children
        /\ reasons = in.reasons
  /\ StartInference

InferenceSpec ==
  /\ InferenceInit /\ [][InferenceNext]_inferenceVars
  /\ WF_inferenceVars(InferenceNext)
-----------------------------------------------------------------------------
(* The variables keep their shape.                                         *)
InferenceTypeOK ==
  /\ inferred \subseteq Node /\ visited \subseteq Node
  /\ result \in [Node -> SUBSET Reason]
  /\ roots \in Seq(Node)
  /\ stack \in Seq([node : Node, next : Nat, acc : SUBSET Reason])
  /\ separated \subseteq Defined
  /\ recorded \in [DOMAIN recorded -> SUBSET Reason]
  /\ DOMAIN recorded \subseteq Defined
  /\ marked \subseteq Class
  /\ outcome \in {"running", "done", "failed"}

Inferred == inferred \cap InForest

(* S says all that can be said about calling c.                            *)
Covers(S, c) ==
  \/ Unknown \in S
  \/ IF c \in External THEN c \in S
     ELSE c \in inferred /\ result[c] \subseteq S

(* No result hides a reason: it has the reasons of the node itself and of  *)
(* every node it calls, unless it says that something is unknown.  So what *)
(* is called by a pure function is pure.                                   *)
NothingHidden ==
  \A n \in Inferred :
    /\ Unknown \in result[n] \/ reasons[n] \subseteq result[n]
    /\ \A c \in Calls(children, n) : Covers(result[n], c)

(* An activation works for a node that has no result yet, it has collected *)
(* what the children it is done with have to say, and it waits for the     *)
(* child that the activation above it works for.                           *)
FramesInStep ==
  \A i \in DOMAIN stack :
    LET frame == stack[i]
        kids == children[frame.node]
    IN  /\ frame.node \in visited \cap (InForest \ External)
        /\ frame.node \notin inferred
        /\ frame.next \in 1..Len(kids) + 1
        /\ \A j \in 1..frame.next - 1 : Covers(frame.acc, kids[j])
        /\ i < Len(stack) =>
             frame.next <= Len(kids) /\ kids[frame.next] = stack[i + 1].node

(* What a node is to blame for itself.                                     *)
Direct(n) == reasons[n] \cup (Calls(children, n) \cap External)

(* A result that names no unknown has exactly the reasons of all nodes     *)
(* that are reachable from its node.                                       *)
ExactUnlessUnknown ==
  \A n \in Inferred : Unknown \notin result[n] =>
    result[n] = UNION {Direct(m) : m \in Below(children, InForest, n)}

(* Unknown is only answered for a recursion: it comes from a node on a     *)
(* cycle of the call graph.                                                *)
UnknownOnlyForCycles ==
  \A n \in Inferred : Unknown \in result[n] =>
    \E m \in Below(children, InForest, n) : OnCycle(children, InForest, m)

(* A result does not change any more, whoever asks for it later.           *)
ResultsAreFinal ==
  [][\A n \in Inferred :
       n \in inferred' /\ result'[n] = result[n]]_inferenceVars
=============================================================================
