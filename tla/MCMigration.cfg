SPECIFICATION Spec
CONSTANTS
  A1 = A1
  f1 = f1
  g1 = g1
  p1 = p1
  q1 = q1
  r1 = r1
  A2 = A2
  f2 = f2
  g2 = g2
  p2 = p2
  q2 = q2
  x = x
  y = y
  V1 = {A1, f1, g1, p1, q1, r1}
  V2 = {A2, f2, g2, p2, q2}
  Kind <- MCKind
  Parent <- MCParent
  NoParent = NoParent
  ReliableSimilarity = 85
  UnsureSimilarity = 75
  Scenarios <- MCScenarios
INVARIANTS
  NothingVanishes
  ConflictsAreMarked
  OneOfEachClass
  NothingNewAdmitted
