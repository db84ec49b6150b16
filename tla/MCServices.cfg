\* Three users, one of them in ADMIN_USER_IDS and one with a row that does not
\* match its DTO; pages of one or two rows; two changes during the request.
\* Rate limit: four calls against two per window of four ticks.  Cache: two
\* fills, two changes.  Pub/sub: two handlers, two drops.  Holder: four opens.
SPECIFICATION ServicesFairSpec
CONSTANTS
  Users = {"ann", "bob", "odd"}
  Odd = {"odd"}
  AdminUserIds = {"bob"}
  AdminOnly = {"find"}
  Production = TRUE
  MaxLimit = 2
  MaxPage = 3
  MaxChanges = 2
  MaxHits = 4
  Limit = 2
  Window = 4
  MaxAhead = 1
  MaxLate = 1
  MaxResends = 1
  MaxTime = 6
  Fills = {f1, f2}
  MaxWrites = 2
  TTL = 2
  MaxFill = 1
  MaxClock = 7
  Callbacks = {h1, h2}
  MaxCalls = 5
  MaxSent = 3
  MaxDrops = 2
  Contexts = {a, b, c}
  Nil = Nil
  MaxOpens = 4
INVARIANTS
  PagesAddUp
  AccessIsRight
  CauseHidden
  ServicesTypeOK
  LimitKept
  ResultsHold
  RefusalsJustified
  StalenessBounded
  StaleOnlyByRace
  MapMatchesChannel
  NoMessageMissed
  RefIsLatest
PROPERTIES
  EveryRequestAnswered
  HandlersServed
CHECK_DEADLOCK FALSE
