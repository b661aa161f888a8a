SPECIFICATION CaptureSpec
CONSTANTS
  Requests = {r1, r2}
  Modes = {"binance-candles", "polymarket-markets", "replay-metrics", "strategy-lab"}
  Sources = {"live", "mock"}
  Parts <- OneOrTwoParts
  FullLiveReplay = TRUE
  FullLiveLab = TRUE
  MaxClock = 2
SYMMETRY RequestSymmetry
INVARIANTS
  OneRowPerKey
  RunsAccountForRows
  SuccessIsComplete
\* Requests that ended stop the system.
CHECK_DEADLOCK FALSE
