SPECIFICATION ContractionSpec
CONSTANTS
  f1 = f1
  f2 = f2
  f3 = f3
  f4 = f4
  i1 = i1
  kImport = kImport
  Function = {f1, f2, f3, f4}
  Import = {i1}
  Class = {}
  Builtin = {}
  Parameter = {}
  Other = {}
  Key <- MCKey
  BuiltGraphs <- MCInputs
  MaxCalls = 5
PROPERTIES
  EmptySearchMeansNoCycle
  ImplementsCondensation
CHECK_DEADLOCK FALSE
