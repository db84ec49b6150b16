\* One message published twice, two handlers, two retries, two faults.
SPECIFICATION Spec
CONSTANTS
  Subs = {mail}
  Msgs = {m1}
  Invalid = {}
  NoId = {}
  Handlers = {h1, h2}
  NoCopy = NoCopy
  MaxRetries = 2
  Tiers = 2
  DeliveryLimit = 2
  Expires = {}
  MaxPublishes = 2
  MaxFaults = 2
SYMMETRY HandlerSymmetry
INVARIANTS
  OneRunAtATime
  AttemptsAreFailures
PROPERTIES
  ImplementsSubscription
CHECK_DEADLOCK FALSE
