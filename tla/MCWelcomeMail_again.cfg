\* One delivery and no fault but a call of mail.enqueue that rejects after
\* Redis has taken the job.
SPECIFICATION WSpec
CONSTANTS
  Subs = {mail}
  Msgs = {ann}
  Invalid = {}
  NoId = {}
  Handlers = {h1, h2}
  NoCopy = NoCopy
  MaxRetries = 1
  Tiers = 1
  DeliveryLimit = 1
  Expires = {}
  MaxPublishes = 1
  MaxFaults = 0
  MaxStalls = 1
  MaxMishaps = 0
PROPERTIES
  RepeatedEnqueueDropped
CHECK_DEADLOCK FALSE
