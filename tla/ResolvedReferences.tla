------------------------- MODULE ResolvedReferences -------------------------
(***************************************************************************)
(* What the purity analysis of one module begins with: its functions and   *)
(* classes in their order, the constructors of the classes, and the calls  *)
(* the reference resolver may have found.                                  *)
(***************************************************************************)
EXTENDS CallGraph

CONSTANTS
  FunctionOrder,  \* the functions in the order of the dict raw_reasons
  ClassOrder,     \* the classes in the order of the dict classes
  Ctors,          \* class |-> its __new__, __init__, __post_init__, in order
  MemberCall,     \* the import symbols made for a call like module.name()
  Rank,           \* symbol |-> position of its NodeID under NodeID.__lt__
  RawReasons      \* the maps function |-> symbols the resolver may find

ASSUME ModuleIsWellFormed ==
  /\ FunctionOrder \in Seq(Function) /\ ToSet(FunctionOrder) = Function
  /\ ClassOrder \in Seq(Class) /\ ToSet(ClassOrder) = Class
  /\ Ctors \in [Class -> Seq(Function)]
  /\ \A c, d \in Class : \A i \in DOMAIN Ctors[c], j \in DOMAIN Ctors[d] :
        Ctors[c][i] = Ctors[d][j] => c = d /\ i = j
  /\ MemberCall \subseteq Import
  /\ Rank \in [Callable -> Nat]
  /\ \A raw_reasons \in RawReasons : raw_reasons \in [Function -> SUBSET Callable]

(* _prepare_classes: the constructors and the class itself enter the       *)
(* forest, and the constructors become the children of the class.          *)
PreparedForest ==
  LET graphs[i \in 0..Len(ClassOrder)] ==
        IF i = 0 THEN <<>>
        ELSE graphs[i - 1] \o Ctors[ClassOrder[i]] \o <<ClassOrder[i]>>
  IN  graphs[Len(ClassOrder)]
=============================================================================
