SPECIFICATION Spec
CONSTANTS
  Programs <- MCPrograms
INVARIANTS
  PlainFunctionsAreComplete
  TargetsReachTheirFunction
  NoCallForgotten
