SPECIFICATION FairCardSpec
CONSTANTS
  Sockets = {s1, s2}
  NoSocket = NoSocket
  MaxReconnects = 1
  MaxInbox = 2
INVARIANTS
  CardTypeOK
  OpenIsBacked
  HealthyPriceIsFromThisRequest
  LostLinkIsShown
PROPERTIES
  FailureIsShown
\* A card that left the page and a request that wound down have nothing to do.
CHECK_DEADLOCK FALSE
