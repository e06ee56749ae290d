SPECIFICATION FairSpec
CONSTANTS
  Events = {e1, e2}
  NoEvent = NoEvent
  Channels = {c1}
  NoChannel = NoChannel
  Fallback = NoChannel
  Control = c1
  MaxAttempts = 2
  BatchLimit = 2
  StoreFaults = FALSE
  MaxCrashes = 1
PROPERTIES
  EverySettles
CHECK_DEADLOCK FALSE
