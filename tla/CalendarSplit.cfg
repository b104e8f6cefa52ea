SPECIFICATION MCSpec
CONSTANTS
  m1 = m1  m2 = m2  m3 = m3
  exe = exe  iso = iso
  b1 = b1  b2 = b2  b3 = b3
  v1 = v1  v2 = v2
  Messages <- MCMessages
  Hashes <- MCHashes
  Files <- MCFiles
  Large = {iso}
  MinInterval = 1
  Window = 2
  Budget = 2
  MaxDepth = 2
  MaxPolls = 1
  MaxCrashes = 1
  Bursts = {b1, b2, b3}
  Voices = {v1, v2}
  Nobody = Nobody
  FlushBursts = 2
  MaxFailures = 1
  MaxCuts = 1
  DayLen = 2
  MonthLengths <- MCMonths
  Rules <- MCRules
  Starts = {2, 60}
  Lengths = {1}
  Bounds = {0, 1, 2}
  Picked = {8, 31}
  RowIds = {1, 2}
  MaxSeriesEdits = 2
PROPERTY
  SplitKeepsDays
CHECK_DEADLOCK FALSE
