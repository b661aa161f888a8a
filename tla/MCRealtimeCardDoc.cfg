SPECIFICATION CardSpec
CONSTANTS
  Sockets = {s1, s2}
  NoSocket = NoSocket
  MaxReconnects = 1
  MaxInbox = 2
PROPERTIES
  HealthNeedsAPrice
CHECK_DEADLOCK FALSE
