----------------------------- MODULE CallGraph -----------------------------
(***************************************************************************)
(* Vocabulary of the purity analysis of one module: the symbols a call can *)
(* resolve to, the nodes of the call graph forest, and the dictionary      *)
(* operations on the children of a node.                                   *)
(*                                                                         *)
(* A node is the symbol it stands for; a CombinedCallGraphNode is a record *)
(* of the functions and classes it combines.  A forest and the children of *)
(* a node are Python dicts, whose iteration order matters: both are        *)
(* modelled as sequences of nodes in insertion order.  All phases work on  *)
(* the same forest, which is why it is declared here.                      *)
(***************************************************************************)
EXTENDS Naturals, FiniteSets, SequencesExt

CONSTANTS
  Function,   \* functions, methods and lambdas: the keys of raw_reasons
  Class,      \* classes of the module
  Import,     \* calls of imported functions, one symbol per call site
  Builtin,    \* calls of builtins, one symbol per call site
  Parameter,  \* parameters that are called
  Other,      \* any other symbol that is called: class variables, ...
  Key         \* the NodeID of the import and builtin symbols

VARIABLES
  forest,    \* call_graph_forest.graphs, in insertion order
  children,  \* node |-> its children, in insertion order
  reasons    \* node |-> what it is to blame for itself

Defined == Function \cup Class
Callable == Defined \cup Import \cup Builtin \cup Parameter \cup Other
Combined == {[of |-> S] : S \in (SUBSET Defined) \ {{}}}
Node == Defined \cup Import \cup Builtin \cup Combined

ASSUME SymbolKinds ==
  /\ LET kind == <<Function, Class, Import, Builtin, Parameter, Other>>
     IN  \A i, j \in 1..6 : i # j => kind[i] \cap kind[j] = {}
  /\ Callable \cap Combined = {}
  /\ DOMAIN Key = Import \cup Builtin
  /\ \A s \in DOMAIN Key : Key[s] \notin Callable \cup Combined

(* symbol.id.  All symbols made from one import statement share one id     *)
(* object, and all calls of one builtin have the id BUILTIN.<name>.        *)
Id(n) == IF n \in Import \cup Builtin THEN Key[n] ELSE n

(* The original functions and classes a node stands for.                   *)
Members(n) == IF n \in Combined THEN n.of ELSE {n}

HasId(nodes, id) == \E n \in ToSet(nodes) : Id(n) = id

(* children[child.symbol.id] = child: an equal key keeps its place, and    *)
(* its value is replaced.                                                  *)
AddChild(kids, c) ==
  IF HasId(kids, Id(c))
  THEN [i \in DOMAIN kids |-> IF Id(kids[i]) = Id(c) THEN c ELSE kids[i]]
  ELSE Append(kids, c)

InForest == ToSet(forest)

Calls(kids, n) == ToSet(kids[n])

(* What n leads to among the given nodes, and n itself: no set that is     *)
(* closed under calls contains n without it.                               *)
ClosedUnderCalls(kids, nodes) ==
  {X \in SUBSET nodes : \A x \in X : Calls(kids, x) \cap nodes \subseteq X}
Below(kids, nodes, n) ==
  {m \in nodes : \A X \in ClosedUnderCalls(kids, nodes) : n \in X => m \in X}

OnCycle(kids, nodes, n) ==
  \E c \in Calls(kids, n) \cap nodes : n \in Below(kids, nodes, c)
=============================================================================
