SPECIFICATION InferenceSpec
CONSTANTS
  f1 = f1
  f2 = f2
  c1 = c1
  i1 = i1
  b1 = b1
  kImport = kImport
  kBuiltin = kBuiltin
  Unknown = Unknown
  Function = {f1, f2}
  Class = {c1}
  Import = {i1}
  Builtin = {b1}
  Parameter = {}
  Other = {}
  MaxCalls = 3
  Key <- MCKey
  ContractedGraphs <- MCInputs
INVARIANTS
  NothingHidden
  ExactUnlessUnknown
  UnknownOnlyForCycles
PROPERTIES
  ResultsAreFinal
CHECK_DEADLOCK FALSE
