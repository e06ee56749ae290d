SPECIFICATION Spec
CONSTANTS
  Events = {e1, e2}
  Limit = 4
  WriteFaults = FALSE
  TornLines = TRUE
  MaxRestarts = 2
  MaxInserts = 4
INVARIANTS
  NeverSecondTurn
CHECK_DEADLOCK FALSE
