SPECIFICATION FairCaptureSpec
CONSTANTS
  Requests = {r1}
  Modes = {"once"}
  Sources = {"live", "mock"}
  Parts <- OneOrTwoParts
  FullLiveReplay = FALSE
  FullLiveLab = TRUE
  MaxClock = 1
INVARIANTS
  RecordsAreSound
PROPERTIES
  RequestsEnd
\* The request ends and nothing else is left to do.
CHECK_DEADLOCK FALSE
