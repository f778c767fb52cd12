SPECIFICATION Spec
CONSTANTS
  main = main
  a = a
  b = b
  bad = bad
  m1 = m1
  m2 = m2
  a1 = a1
  a2 = a2
  bf = bf
  badf = badf
  native = native
  Unknown = Unknown
  Module = {main, a, b, bad}
  Root = main
  Unreadable = {bad}
  Function = {m1, m2, a1, a2, bf, badf}
  ModuleOf <- MCModuleOf
  Unlisted = {a2}
  Opaque = {native}
  Inputs <- MCInputs
  MaxCalls = 4
INVARIANTS
  NothingHiddenAcrossModules
  UnknownOnlyForImportCycles
  NestedAnalysesDiffer
PROPERTIES
  CacheIsFinal
