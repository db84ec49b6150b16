\* Liveness and TTLs that run out early: of three messages one breaks its
\* contract and one has no messageId.
SPECIFICATION FairSpec
CONSTANTS
  Subs = {mail}
  Msgs = {good, bad, anon}
  Invalid = {bad}
  NoId = {anon}
  Handlers = {h1, h2}
  NoCopy = NoCopy
  MaxRetries = 1
  Tiers = 1
  DeliveryLimit = 1
  Expires = {"lock", "marker"}
  MaxPublishes = 1
  MaxFaults = 1
INVARIANTS
  NoMessageLost
PROPERTIES
  OnlyOwnerReleases
  EveryMessageSettles
CHECK_DEADLOCK FALSE
