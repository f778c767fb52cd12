-------------------------- MODULE MCPurityAnalysis --------------------------
(* Instances of PurityAnalysis: symbols are ordered as in the source file. *)
EXTENDS PurityAnalysis

CONSTANTS f1, f2, f3, c1, i1, i2, b1, p1, o1, kImport, kBuiltin

SymbolOrder == <<f1, f2, f3, c1, i1, i2, p1, o1>>

(* Builtins have no line and sort before all others.                       *)
MCRank ==
  [s \in Callable |->
     IF s \in Builtin THEN 0
     ELSE CHOOSE i \in DOMAIN SymbolOrder : SymbolOrder[i] = s]

MCFunctionOrder == SelectSeq(<<f1, f2, f3>>, LAMBDA f : f \in Function)
MCClassOrder == SelectSeq(<<c1>>, LAMBDA c : c \in Class)
MCCtors == [c \in Class |-> <<f1>>]
MCKey ==
  [s \in Import \cup Builtin |-> IF s \in Import THEN kImport ELSE kBuiltin]

(* All calls among most symbols, and one call per function of any symbol.  *)
MCRawReasons ==
  LET UpTo(n, symbols) == [Function -> {S \in SUBSET symbols : Cardinality(S) <= n}]
  IN  UpTo(2, Callable \ {b1, o1}) \cup UpTo(1, Callable)
=============================================================================
