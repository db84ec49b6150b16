\* One message published once, delivery limit two, one fault.
SPECIFICATION Spec
CONSTANTS
  Subs = {mail}
  Msgs = {m1}
  Invalid = {}
  NoId = {}
  Handlers = {h1, h2}
  NoCopy = NoCopy
  MaxRetries = 1
  Tiers = 1
  DeliveryLimit = 2
  Expires = {}
  MaxPublishes = 1
  MaxFaults = 1
INVARIANTS
  LimitStopsCrashLoops
CHECK_DEADLOCK FALSE
