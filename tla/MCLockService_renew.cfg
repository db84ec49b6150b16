\* Both callers renew; timers and replies are late by less than Period / 4; one
\* fault, which can be a failed renewal.
SPECIFICATION Spec
CONSTANTS
  Clients = {c1, c2}
  AutoRenew = {c1, c2}
  TTL = 15
  Wait = 3
  MinDelay = 2
  MaxDelay = 3
  Lag = 1
  MaxCalls = 3
  MaxFaults = 1
INVARIANTS
  TypeOK
  ExclusiveWhileRenewed
  WaitKept
CHECK_DEADLOCK FALSE
