SPECIFICATION MCSpec
CONSTANTS
  Agents = {proto, sci}
  TrackOf <- InLab
  Handlers = {h1}
  Adaptive = adaptive
  NoThread = NoThread
  NoAgent = NoAgent
  Locks <- LabLocks
  MaxRequests = 3
  MaxMishaps = 2
SYMMETRY AgentSymmetry
INVARIANTS
  TypeOK
  KnownPause
  PauseIsOpen
  Agreement
  LockReasserted
CHECK_DEADLOCK FALSE
