\* Two worker processes, three rows of which row 2 is poison, batches of two;
\* one fault.
SPECIFICATION FairSpec
CONSTANTS
  Relays = {w1, w2}
  MaxRows = 3
  Poison = {2}
  Batch = 2
  MaxAttempts = 2
  MaxFaults = 1
INVARIANTS
  TypeOK
  PublishedReachedBroker
  AttemptsMatchStatus
  OneOpenClaim
  DuplicatesNeedFaults
PROPERTIES
  SettledIsFinal
  ImplementsPromise
  EveryEventSettles
CHECK_DEADLOCK FALSE
