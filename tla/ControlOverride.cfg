SPECIFICATION Spec
CONSTANTS
  Agents = {proto}
  TrackOf <- InLab
  Handlers = {h1}
  Adaptive = adaptive
  NoThread = NoThread
  NoAgent = NoAgent
  Locks <- LabLocks
  MaxRequests = 2
  MaxMishaps = 0
PROPERTIES
  OperatorOverrideWins
CHECK_DEADLOCK FALSE
