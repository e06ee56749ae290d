SPECIFICATION MCSpec
CONSTANTS
  Agent = agent
  Starter = starter
  Watchdog = watchdog
  Syncs = {s1, s2}
  Thread <- Threads
  Nobody = Nobody
  Child = {c1, c2}
  NoChild = NoChild
  MaxFaults = 1
  MaxSyncs = 1
  Threshold = 2
  Session = {a, b}
  Never = Never
  TTL = 2
  MaxNow = 5
  owner = owner
  stranger = stranger
  mOwner = mOwner
  mStranger = mStranger
  mBroken = mBroken
  Message <- Posts
  Author <- PostAuthor
  NoAuthor = NoAuthor
  Trusted = {owner}
  Blank = {}
  Malformed = {mBroken}
  Retention = 1
  MinShards = 1
  MaxDay = 2
  oFirst = oFirst
  oSecond = oSecond
  oForged = oForged
  oGrant = oGrant
  oUndo = oUndo
  oStop = oStop
  Handler = {h1, h2}
  Order <- Orders
  Says <- OrderText
  SignedBy <- OrderAuthor
  PostedAt <- OrderTime
  Operator = owner
  NoCall = NoCall
  Grants <- GrantSet
  Overrides <- OverrideSet
  Runs = {1}
  MaxAge = 0
  MaxRows = 2
  MaxTime = 1
  MaxRestarts = 1
  Run = {r1}
  Slow = 1
  Stall = 2
  Reminder = 2
  MaxClock = 2
  MaxCrashes = 1
  Unseen = Unseen
  RunIds = {1, 2, 3}
  Limit = 2
  Overlap = 1
  NoCursor = NoCursor
  MaxMoment = 3
  MaxErrors = 1
  Key = {ka, kb}
  Pool = {1, 2}
  NoPort = NoPort
  Caller = {ca, cb}
  NoKey = NoKey
  Concurrent = FALSE
  MaxLosses = 2
  MaxMishaps = 1
  s1 = s1
  s2 = s2
  c1 = c1
  c2 = c2
  h1 = h1
  h2 = h2
  ka = ka
  kb = kb
  ca = ca
  cb = cb
SYMMETRY PartSymmetry
INVARIANTS
  TypeOK
  SingleFlight
  Owned
  CleanShutdown
  TrackedSyncs
  LedgerExact
  StoredOnce
  Accounted
  OneCommand
  NoWidening
  NoticeBacked
  AlarmNeedsSilence
  SweepCovers
  AddressBacked
  NoOrphan
CHECK_DEADLOCK FALSE
