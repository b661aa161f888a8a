SPECIFICATION SqliteSpec
CONSTANTS
  Processes = {gateway, command}
  Records <- SomeRecords
  NearWindow = 1
  LookBack = 1
  MaxBatch = 2
  MaxRows = 2
SYMMETRY SqliteSymmetry
INVARIANTS
  SqliteTypeOK
  KeysAreUnique
  RacesAreFew
  NearSnapshotsAreExplained
PROPERTIES
  LatestNeverGoesBack
  KeepsStorePromise
\* At MaxRows no call starts any more.
CHECK_DEADLOCK FALSE
