SPECIFICATION Spec
CONSTANTS
  TopK = 3
  Fields = 1
  Scores <- MCScores
  BaseScore = 4
  Drops <- MCDrops
  PValues <- MCPValues
  One = 5
  Multiple = 6
  Corrected = TRUE
  MinDrop = 3
INVARIANTS
  AdjustedIsStepUp
  GoIsEarned
CHECK_DEADLOCK FALSE
