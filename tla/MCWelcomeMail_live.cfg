\* One user, two handlers, one retry; one fault of the consumer and two
\* elsewhere, so that a job can stall once too often.
SPECIFICATION WFairSpec
CONSTANTS
  Subs = {mail}
  Msgs = {ann}
  Invalid = {}
  NoId = {}
  Handlers = {h1, h2}
  NoCopy = NoCopy
  MaxRetries = 1
  Tiers = 1
  DeliveryLimit = 1
  Expires = {}
  MaxPublishes = 1
  MaxFaults = 1
  MaxStalls = 1
  MaxMishaps = 2
INVARIANTS
  WTypeOK
  MailsHaveUsers
  HandledHasJob
  EventAccountedFor
PROPERTIES
  WelcomeArrives
CHECK_DEADLOCK FALSE
