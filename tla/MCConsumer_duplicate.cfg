\* The relay publishes one message twice; nothing fails and no TTL runs out.
SPECIFICATION Spec
CONSTANTS
  Subs = {mail}
  Msgs = {m1}
  Invalid = {}
  NoId = {}
  Handlers = {h1, h2}
  NoCopy = NoCopy
  MaxRetries = 1
  Tiers = 1
  DeliveryLimit = 2
  Expires = {}
  MaxPublishes = 2
  MaxFaults = 0
PROPERTIES
  DuplicatesSkipped
CHECK_DEADLOCK FALSE
