SPECIFICATION Spec
CONSTANTS
  Programs <- MCPrograms
  Order <- MCOrder
  Builtins = {"open"}
INVARIANTS
  NoWriteLost
  NoReadLost
  BlameIsDeserved
  CallsFindTheirFunctions
