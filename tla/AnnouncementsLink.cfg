SPECIFICATION MCSpec
CONSTANTS
  news = news  club = club
  h1 = h1  h2 = h2
  d1 = d1  d2 = d2
  s1 = s1  s2 = s2
  e1 = e1  e2 = e2
  None = None
  Legacy = Legacy
  Channels <- MCChannels
  Announce = news
  Homes <- MCHomes
  Drafts <- MCDrafts
  Passes = {p1}
  Lease = 2
  Ttl = 2
  Dawn = 1
  Patience = 1
  Horizon = 3
  Targets <- MCTargets
  Reposts = {d2}
  MaxTurns = 2
  MaxFaults = 1
  Announces = {a1}
  Texts = {b1}
  Page = 4
  Lines = 1
  Copies = 2
  Hiccups = 1
  Rows <- MCRows
  Events <- MCEvents
  Likeness <- MCLikeness
  Nobody = Nobody
  Span = 2
  Changes = 1
  Mishaps = 1
  Forced = 1
  Callers = {c1}
  Contents = {k1, k2}
  Past = Past
  MaxWrites = 4
  MaxTroubles = 2
  MaxHands = 1
  MaxIterations = 3
  MaxEmpty = 1
  MaxCalls = 2
  Calls = {w, r}
  Uncached = {r}
  Inputs <- MCInputs
PROPERTY
  ForgottenLinkIsGone
CHECK_DEADLOCK FALSE
