SPECIFICATION Spec
CONSTANTS
  Programs <- MCPrograms
  Order <- MCOrder
  Builtins = {"open"}
INVARIANT OverridingMethodsAreFound
