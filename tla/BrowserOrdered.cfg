SPECIFICATION Spec
CONSTANTS
  CreateTarget = TRUE
  Ordered = TRUE
  PauseReasons = {"other"}
  MaxNavigations = 1
  MaxRestores = 0
  MaxDownloads = 1
  MaxAborts = 1
  MaxThrows = 1
  MaxLogs = 0
  MaxActions = 1
  MaxFrameless = 1
  MaxSkips = 1
  MaxHangs = 0
  MaxSubframes = 0
  MaxDestroys = 0
  MaxInterrupts = 0
  MaxIntrusions = 0
INVARIANTS
  TypeOK
  PausedIsPaused
  
  ScreenshotShowsReport
CHECK_DEADLOCK FALSE
