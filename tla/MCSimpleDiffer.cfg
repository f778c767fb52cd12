SPECIFICATION DifferSpec
CONSTANTS
  One = 3600
  Inputs <- MCInputs
INVARIANTS
  AnswersAreFresh
  PathsAreComparedWell
