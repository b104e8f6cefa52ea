SPECIFICATION MCSpec
CONSTANTS
  report = report
  book = book
  Files <- MCFiles
  Big = {book}
  Horizon = 3
  Budget <- MCBudget
  Lossy = TRUE
  LastInstant = 5
  MaxTurns = 2
  MinOlder = 1
  Fetches = {2, 5}
  Transcripts = {1, 5}
  Members = {ana, beto}
  Rooms = {r1, r2}
  MaxSessions = 1
  Clicks = {k1, k2}
  Closers = {j1, j2}
  MaxCrashes = 1
  NoRoom = NoRoom
  NoMember = NoMember
  MaxBoots = 3
  MaxRows = 2
  Channels = {"console", "c1", "dm"}
  ConfigChannel = "console"
  DirectChannels = {"dm"}
  Candidates <- BootOrder
  EnvSeed <- BoundByEnv
  MaxStarts = 2
  MaxOrders = 2
  MaxMessages = 1
INVARIANTS
  SessionsAccounted
  SummaryExact
  SchemaWhole
  OperatorsObeyed
PROPERTIES
  FilesKept
  ClosedDirGoes
CHECK_DEADLOCK FALSE
