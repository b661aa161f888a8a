SPECIFICATION Spec
CHECK_DEADLOCK FALSE
CONSTANTS
  ClockMinutes = {1, 5, 6}
  MaxConsoles = 2
  MaxStored = 2
  ConsoleSignals <- PanelSignals
  PanelProfiles = {"balanced", "aggressive"}
  PanelHorizons = {"5m", "10m"}
  PriceAt <- PanelPrices
  Schedule <- CaptureSchedule
  FirstTime = 3
  LastTime = 6
  MaxSweeps = 3
INVARIANTS
  WindowsAreJudgedFromTheirStart
