SPECIFICATION FairSpec
CONSTANTS
  Issues = {1, 2}
  PageSize = 1
  MaxPages = 3
  Overlap = 1
  Lookback = 9
  Delay = 1
  Past = {"todo", "done"}
  BlockedColumn = FALSE
  SlowBootstrap = FALSE
  MaxWrites = 2
  MaxFaults = 1
INVARIANTS
  TypeOK
  NoHistoryReplay
  NothingBehindCursor
PROPERTIES
  RecordedIsAnnounced
  EveryEndAnnounced
CHECK_DEADLOCK FALSE
