SPECIFICATION MCSpec
CONSTANTS
  a1 = a1  a2 = a2  a3 = a3  b1 = b1  plaza = plaza  den = den
  None = None
  Tasks <- MCMessages
  Channels <- MCChannels
  ChannelOf <- MCChannelOf
  Limit = 1
  MaxQueued = 1
  MaxWindows = 1
  r1 = r1  r2 = r2  r3 = r3  o1 = o1
  ana = ana  beto = beto  marta = marta  p1 = p1  p2 = p2
  NoOne = NoOne
  Reports <- MCReports
  Orders <- MCOrders
  AuthorOf <- MCAuthors
  PlaceOf <- MCPlaces
  CitedOf <- MCCited
  PersonGap = 2
  PlaceGap = 1
  DayLength = 2
  DailyCap = 2
  EndOfTime = 2
  MaxRepeats = 1
  MaxPosts = 2
  MaxVersions = 2
  PageSize = 1
  MaxPages = 2
  Kept = 1
  MaxLag = 2
  MaxLost = 1
  i1 = i1  i2 = i2  i3 = i3  d1 = d1  d2 = d2
  Null = Null
  Media <- MCMedia
  Taken <- MCTaken
  Outlets <- MCOutlets
  WindowSize = 2
  PushCap = 1
  Horizon = 1
  StartTime = 1
  MaxTime = 2
  MaxOps = 2
  MaxReloads = 1
  Budget = 3
  Day = 1
  AuthPause = 2
  HardPause = 2
  TripCount = 2
  AuthCooldown = 1
  RateCooldown = 1
  LongCooldown = 2
  EndTime = 2
  MaxCommands = 1
  MaxRestarts = 1
  Threshold = 3
  Flushes = {f1, f2}
  NoNotice = NoNotice
  Accounts = {u1, u2}
  Learnable <- MCLearnable
  Cold = 2
  Ceil = 3
  MaxBackoff = 2
  HardLimit = 2
  DayTicks = 12
  Quiet = 3
  Ceiling = 7
  Gap = 2
  Stale = 1
  MaxFailures = 1
  MaxOrders = 1
  Unknown = Unknown
  MaxReads = 4
  MaxNudges = 2
  MaxReboots = 2
INVARIANTS
  CacheTruthful
  ReadsInOrder
  TrailTruthful
  PollsPaced
  RecoveryOwed
  ReadsAccounted
PROPERTIES
  ImplementsOrder
  EachPostOnce
  PollingBounded
CHECK_DEADLOCK FALSE
