\* One caller renews, the other does not; timers can be later than the TTL, so
\* that locks are lost under a running fn.
SPECIFICATION FairSpec
CONSTANTS
  Clients = {c1, c2}
  AutoRenew = {c1}
  TTL = 3
  Wait = 2
  MinDelay = 1
  MaxDelay = 2
  Lag = 3
  MaxCalls = 3
  MaxFaults = 1
INVARIANTS
  OwnerHasGreatestFence
  AbortMeansLost
PROPERTIES
  LostLockIsNoticed
  AcquireEnds
CHECK_DEADLOCK FALSE
