SPECIFICATION MCSpec
CONSTANTS
  Agent = agent
  Starter = starter
  Watchdog = watchdog
  Syncs = {}
  Thread <- Threads
  Nobody = Nobody
  Child = {c1, c2}
  NoChild = NoChild
  MaxFaults = 2
  MaxSyncs = 1
  Threshold = 2
  Shares = {0, 40, 60, 80, 100}
  Thin = Thin
  Unset = Unset
  Points = 10
  Step = 25
  Hold = 2
  Start = 50
  Choices = {0, 50}
  MaxFailedApplies = 1
INVARIANTS
  DriftHeld
PROPERTIES
  Recovers
  TimerEnds
CHECK_DEADLOCK FALSE
