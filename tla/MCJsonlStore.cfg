SPECIFICATION JsonlSpec
CONSTANTS
  Processes = {p1, p2}
  Records = {a, b, c}
  Shared = FALSE
  Faults = {"refused", "torn", "death"}
  MaxBatch = 2
SYMMETRY JsonlSymmetry
INVARIANTS
  JsonlTypeOK
  NoRecordTwice
  OpenStoreKnowsFile
  InsertedIsWritten
PROPERTIES
  AllOrNothing
  KeepsStorePromise
\* A file with a broken line can never be opened again.
CHECK_DEADLOCK FALSE
