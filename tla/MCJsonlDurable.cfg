SPECIFICATION JsonlSpec
CONSTANTS
  Processes = {p1, p2}
  Records = {a, b, c}
  Shared = FALSE
  Faults = {"refused"}
  MaxBatch = 2
INVARIANTS
  DurableSamples
CHECK_DEADLOCK FALSE
