SPECIFICATION Spec
CONSTANTS
  Events = {e1, e2}
  NoEvent = NoEvent
  Channels = {c1, c2}
  NoChannel = NoChannel
  Fallback = c2
  Control = NoChannel
  MaxAttempts = 2
  BatchLimit = 2
  StoreFaults = TRUE
  MaxCrashes = 1
SYMMETRY EventSymmetry
INVARIANTS
  TypeOK
  ToldWherePromised
  NoStrandedRow
  BackoffRespected
  FailsForCause
PROPERTIES
  FinalStays
  KeepsPromise
CHECK_DEADLOCK FALSE
