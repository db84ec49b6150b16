\* One context and one decorated call are enough.
SPECIFICATION ServicesSpec
CONSTANTS
  Users = {"ann"}
  Odd = {}
  AdminUserIds = {}
  AdminOnly = {"find"}
  Production = TRUE
  MaxLimit = 2
  MaxPage = 3
  MaxChanges = 2
  MaxHits = 4
  Limit = 2
  Window = 4
  MaxAhead = 1
  MaxLate = 1
  MaxResends = 1
  MaxTime = 6
  Fills = {f1, f2}
  MaxWrites = 2
  TTL = 2
  MaxFill = 1
  MaxClock = 7
  Callbacks = {h1, h2}
  MaxCalls = 5
  MaxSent = 3
  MaxDrops = 2
  Contexts = {a, b, c}
  Nil = Nil
  MaxOpens = 4
INVARIANTS
  DecoratedMethodRuns
CHECK_DEADLOCK FALSE
