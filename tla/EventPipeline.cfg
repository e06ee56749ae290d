SPECIFICATION PipelineSpec
CONSTANTS
  Events = {e1, e2, e3}
  Limit = 2
  WriteFaults = TRUE
  TornLines = TRUE
  MaxRestarts = 2
  MaxInserts = 5
SYMMETRY EventSymmetry
INVARIANTS
  TypeOK
  NoReplayInLife
  NoReplayInWindow
  OnlyPostedEvents
CHECK_DEADLOCK FALSE
