SPECIFICATION Spec
CONSTANTS
  A1 = A1
  B1 = B1
  a1 = a1
  b1 = b1
  p1 = p1
  A2 = A2
  B2 = B2
  a2 = a2
  b2 = b2
  p2 = p2
  V1 = {A1, B1, a1, b1, p1}
  V2 = {A2, B2, a2, b2, p2}
  Kind <- MCKind
  Parent <- MCParent
  NoParent = NoParent
  SameId <- MCSameId
  One = 800
  Creation = 488
  Between = 184
  NoGroup = NoGroup
  Inputs <- MCInputs
INVARIANTS
  ElementsMappedOnce
  GroupsAreComponents
  UnchangedPairsStay
PROPERTIES
  ClassesKeepTheirGroups
