SPECIFICATION Spec
CONSTANTS
  f1 = f1
  f2 = f2
  f3 = f3
  c1 = c1
  i1 = i1
  i2 = i2
  b1 = b1
  p1 = p1
  o1 = o1
  kImport = kImport
  kBuiltin = kBuiltin
  Unknown = Unknown
  Function = {f1, f2, f3}
  Class = {c1}
  Import = {i1, i2}
  Builtin = {b1}
  Parameter = {p1}
  Other = {o1}
  MemberCall = {i2}
  RawReasons <- MCRawReasons
  BuiltGraphs = {}
  ContractedGraphs = {}
  Key <- MCKey
  FunctionOrder <- MCFunctionOrder
  ClassOrder <- MCClassOrder
  Ctors <- MCCtors
  Rank <- MCRank
INVARIANTS
  NoCallLost
  NothingHalfBuilt
  EveryoneGetsAResult
  NothingHiddenInResults
  NoFalseBlame
  LoneCyclesAreResolved
PROPERTIES
  Termination
CHECK_DEADLOCK FALSE
