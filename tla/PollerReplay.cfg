SPECIFICATION Spec
CONSTANTS
  Issues = {1, 2}
  PageSize = 1
  MaxPages = 3
  Overlap = 1
  Lookback = 9
  Delay = 1
  Past = {"todo", "done"}
  BlockedColumn = FALSE
  SlowBootstrap = TRUE
  MaxWrites = 2
  MaxFaults = 1
INVARIANTS
  NoHistoryReplay
CHECK_DEADLOCK FALSE
