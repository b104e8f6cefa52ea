SPECIFICATION MCSpec
CONSTANTS
  a1 = a1  a2 = a2  a3 = a3  a = a
  None = None
  Tasks <- MCMessages
  Channels <- MCChannels
  ChannelOf <- MCChannelOf
  Limit = 1
  MaxQueued = 1
  Threshold = 3
  Cooldown = 2
  Window = 2
  Logins = 2
  LastTime = 5
  MaxBoots = 3
  Never = Never
  MaxNews = 3
  MaxParts = 2
  MaxFaults = 2
  LastMonth = 3
  Templates = {2}
  Outlets = {"o1", "o2"}
  NoOutlet = NoOutlet
  EnvOutlet = NoOutlet
  MaxEvents = 2
  j1 = j1  j2 = j2  k1 = k1  k2 = k2  e1 = e1  e2 = e2
  Joins = {j1, j2}
  NoSession = NoSession
  MaxRestarts = 2
  Handlers = {h1, h2}
  Cards = {k1, k2}
  Proposals = {e1, e2}
  Images = {i1, i2}
  Scanned = Scanned
  Nothing = Nothing
  MaxForms = 2
  MaxTools = 3
INVARIANTS
  NewestNeverDropped
  AnswersInOrder
  WatchTruthful
  NothingLeftBehind
  BoardKept
  MinutesPostedOnce
  OpenJobShowsOpen
PROPERTIES
  EveryMessageSettles
  MonthComes
  EverySessionSettles
  DecisionsStand
CHECK_DEADLOCK FALSE
