\* Two subscribers of one event; one publish and nothing fails.
SPECIFICATION Spec
CONSTANTS
  Subs = {mail, crm}
  Msgs = {m1}
  Invalid = {}
  NoId = {}
  Handlers = {h1, h2}
  NoCopy = NoCopy
  MaxRetries = 1
  Tiers = 1
  DeliveryLimit = 2
  Expires = {}
  MaxPublishes = 1
  MaxFaults = 0
INVARIANTS
  NoMessageLost
CHECK_DEADLOCK FALSE
