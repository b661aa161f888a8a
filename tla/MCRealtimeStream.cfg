SPECIFICATION FairStreamSpec
CONSTANTS
  Sockets = {s1, s2}
  NoSocket = NoSocket
  MaxReconnects = 3
INVARIANTS
  StreamTypeOK
  SingleFeed
  CleanupIsFinal
  OpenReportIsTrue
PROPERTIES
  SilentAfterClose
  KeepsFeedPromise
  RetriesEnd
  SocketsDrain
\* A handler that closed and whose sockets are gone has nothing left to do.
CHECK_DEADLOCK FALSE
