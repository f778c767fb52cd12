------------------------- MODULE CycleContraction --------------------------
(***************************************************************************)
(* The second half of CallGraphBuilder: _handle_cycles.  It walks once     *)
(* over a copy of the forest; a depth-first search from each node looks    *)
(* for one cycle, which is contracted into a CombinedCallGraphNode.  The   *)
(* search is an explicit stack: path, and for every node on the path the   *)
(* children it still has to try.                                           *)
(***************************************************************************)
EXTENDS CallGraph

CONSTANT BuiltGraphs   \* the call graphs it may be given: forest and children

(* What the first half of CallGraphBuilder leaves: every function and      *)
(* class is in the forest, and so is every imported function that is       *)
(* called.                                                                 *)
WellBuilt(in) ==
  /\ in.forest \in Seq(Defined \cup Import) /\ Defined \subseteq ToSet(in.forest)
  /\ in.children \in [Node -> Seq(Defined \cup Import \cup Builtin)]
  /\ \A n \in Node :
       /\ Calls(in.children, n) \subseteq ToSet(in.forest) \cup Builtin
       /\ n \notin Defined => in.children[n] = <<>>

ASSUME BuiltGraphsAreWellBuilt == \A in \in BuiltGraphs : WellBuilt(in)

VARIABLES
  removed,      \* removed_nodes: everything that was part of a found cycle
  searchRoots,  \* what is left of the copy of the forest
  path,         \* the nodes of the depth-first search in progress
  untried,      \* for every node of path, its children not tried yet
  built         \* history: the children before the first contraction

contractionVars ==
  <<forest, children, reasons, removed, searchRoots, path, untried, built>>

(* removed_nodes is created empty, and the loop runs over a copy.          *)
StartContraction ==
  /\ removed = {}
  /\ searchRoots = forest
  /\ path = <<>> /\ untried = <<>>

ContractionInit ==
  /\ \E in \in BuiltGraphs : forest = in.forest /\ children = in.children
  /\ built = children
  /\ reasons = [n \in Node |-> IF n \in Defined THEN {n} ELSE {}]
  /\ StartContraction

BetweenSearches == path = <<>> /\ searchRoots # <<>>
Searching == path # <<>>
ChildToTry == Searching /\ Last(untried) # <<>>
NextChild == Head(Last(untried))
PopChild == [untried EXCEPT ![Len(untried)] = Tail(@)]

(* Mutant: the search is over after the first cycle.                       *)
SkippedAfterCycle(n) ==
  \/ removed # {}
  \/ \A c \in Calls(children, n) : Id(c) \in removed

(* A node that became part of a cycle, or has only such children, is not   *)
(* searched; a node without children never is.                             *)
Skipped(n) ==
  \/ n \in removed
  \/ \A c \in Calls(children, n) : Id(c) \in removed

SkipRoot ==
  /\ BetweenSearches /\ Skipped(Head(searchRoots))
  /\ searchRoots' = Tail(searchRoots)
  /\ UNCHANGED <<built, forest, children, reasons, removed, path, untried>>

StartSearch ==
  /\ BetweenSearches /\ ~Skipped(Head(searchRoots))
  /\ path' = <<Head(searchRoots)>>
  /\ untried' = <<children[Head(searchRoots)]>>
  /\ UNCHANGED <<built, forest, children, reasons, removed, searchRoots>>

(* Mutant: the search goes one level deep.                                 *)
TryLeafOrNot ==
  /\ ChildToTry /\ NextChild \notin ToSet(path)
  /\ untried' = PopChild
  /\ UNCHANGED <<built, forest, children, reasons, removed, searchRoots, path>>

(* _test_cgn_for_cycles is called for a child that is not on the path.  A  *)
(* leaf returns before it gets there.                                      *)
TryLeaf ==
  /\ ChildToTry /\ NextChild \notin ToSet(path) /\ children[NextChild] = <<>>
  /\ untried' = PopChild
  /\ UNCHANGED <<built, forest, children, reasons, removed, searchRoots, path>>

Descend ==
  /\ ChildToTry /\ NextChild \notin ToSet(path) /\ children[NextChild] # <<>>
  /\ path' = Append(path, NextChild)
  /\ untried' = Append(PopChild, children[NextChild])
  /\ UNCHANGED <<built, forest, children, reasons, removed, searchRoots>>

(* Mutant: the root is searched again.                                     *)
BacktrackForever ==
  /\ Searching /\ Last(untried) = <<>>
  /\ path' = Front(path)
  /\ untried' = Front(untried)
  /\ UNCHANGED <<built, forest, children, reasons, removed, searchRoots>>

Backtrack ==
  /\ Searching /\ Last(untried) = <<>>
  /\ path' = Front(path)
  /\ untried' = Front(untried)
  /\ searchRoots' = IF Len(path) = 1 THEN Tail(searchRoots) ELSE searchRoots
  /\ UNCHANGED <<built, forest, children, reasons, removed>>

(* Mutant: what leads to the cycle counts as a part of it.                 *)
CycleWithTail == path

(* The part of the path from the first occurrence of the child on.         *)
Cycle ==
  LET at == CHOOSE i \in DOMAIN path : path[i] = NextChild
  IN  SubSeq(path, at, Len(path))

(* combines: nodes that are combined themselves are flattened.             *)
CombinedNode(cycle) == [of |-> UNION {Members(n) : n \in ToSet(cycle)}]

Without(s, nodes) ==
  LET kept[i \in 0..Len(s)] ==
        IF i = 0 THEN <<>>
        ELSE IF s[i] \in nodes THEN kept[i - 1] ELSE Append(kept[i - 1], s[i])
  IN  kept[Len(s)]

(* The children of the combined node: the calls that leave the cycle, of   *)
(* calls with the same id the first.                                       *)
OuterChildren(cycle) ==
  LET outer[i \in 0..Len(cycle)] ==
        IF i = 0 THEN <<>>
        ELSE outer[i - 1] \o
               Without(children[cycle[i]],
                       {c \in Calls(children, cycle[i]) :
                          c \in ToSet(cycle) \/ HasId(outer[i - 1], Id(c))})
  IN  outer[Len(cycle)]

(* Mutant: pointers are only deleted.                                      *)
RedirectDeletes(kids, nodes, new) == Without(kids, nodes)

(* _update_pointers for one node.                                          *)
Redirect(kids, nodes, new) ==
  IF ToSet(kids) \cap nodes = {} THEN kids
  ELSE AddChild(Without(kids, nodes), new)

(* _contract_cycle, and the end of the search that found the cycle.        *)
Contract ==
  /\ ChildToTry /\ NextChild \in ToSet(path)
  /\ LET nodes == ToSet(Cycle)
         new == CombinedNode(Cycle)
     IN  /\ removed' = removed \cup nodes
         /\ IF HasId(forest, new)
            THEN UNCHANGED <<forest, children, reasons>>
            ELSE /\ forest' = Append(Without(forest, nodes), new)
                 /\ reasons' = [reasons EXCEPT ![new] =
                                  UNION {reasons[n] : n \in nodes}]
                 /\ children' =
                      [n \in Node |->
                         IF n = new THEN OuterChildren(Cycle)
                         ELSE IF n \in InForest \ nodes
                              THEN Redirect(children[n], nodes, new)
                              ELSE children[n]]
  /\ path' = <<>> /\ untried' = <<>>
  /\ searchRoots' = Tail(searchRoots)
  /\ UNCHANGED built

ContractionNext ==
  \/ SkipRoot \/ StartSearch \/ TryLeaf \/ Descend \/ Backtrack \/ Contract

ContractionSpec ==
  /\ ContractionInit /\ [][ContractionNext]_contractionVars
  /\ WF_contractionVars(ContractionNext)

ContractionDone == searchRoots = <<>> /\ path = <<>>
-----------------------------------------------------------------------------
(* The functions, classes and combined nodes of the forest.                *)
OwnNodes == InForest \ Import

(* A search that comes back empty-handed, although it prunes nothing but   *)
(* the path and the leaves, proves that no cycle is reachable from its     *)
(* root.                                                                   *)
EmptySearchMeansNoCycle ==
  [][Backtrack /\ Len(path) = 1 =>
       \A n \in Below(children, OwnNodes, path[1]) :
         ~OnCycle(children, OwnNodes, n)]_contractionVars

(* Every step is a merge of groups of functions that call each other, as   *)
(* module Condensation allows it, or changes nothing a caller could see.   *)
NodeCalls == {e \in OwnNodes \X OwnNodes : e[2] \in Calls(children, e[1])}
GroupCalls == {<<Members(e[1]), Members(e[2])>> : e \in NodeCalls}
Groups == {Members(n) : n \in OwnNodes}
BuiltCalls == {e \in Defined \X Defined : e[2] \in Calls(built, e[1])}
Abs ==
  INSTANCE Condensation WITH
    Vertex <- Defined,
    built <- BuiltCalls, group <- Groups, calls <- GroupCalls

ImplementsCondensation == Abs!Spec
=============================================================================
