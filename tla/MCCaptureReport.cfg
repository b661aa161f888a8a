SPECIFICATION CaptureSpec
CONSTANTS
  Requests = {r1, r2}
  Modes = {"replay-metrics", "strategy-lab"}
  Sources = {"live", "mock"}
  Parts <- OnePart
  FullLiveReplay = TRUE
  FullLiveLab = TRUE
  MaxClock = 1
INVARIANTS
  LiveReportsNeedLiveReplays
CHECK_DEADLOCK FALSE
