SPECIFICATION Spec
CONSTANTS
  Events = {e1, e2}
  NoEvent = NoEvent
  Channels = {c1, c2}
  NoChannel = NoChannel
  Fallback = c2
  Control = NoChannel
  MaxAttempts = 2
  BatchLimit = 2
  StoreFaults = FALSE
  MaxCrashes = 1
SYMMETRY EventSymmetry
INVARIANTS
  AttemptCap
CHECK_DEADLOCK FALSE
