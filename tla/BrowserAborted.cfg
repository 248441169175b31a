SPECIFICATION FairSpec
CONSTANTS
  CreateTarget = TRUE
  Ordered = TRUE
  PauseReasons = {"other"}
  MaxNavigations = 1
  MaxRestores = 0
  MaxDownloads = 0
  MaxAborts = 1
  MaxThrows = 0
  MaxLogs = 0
  MaxActions = 1
  MaxFrameless = 0
  MaxSkips = 0
  MaxHangs = 0
  MaxSubframes = 0
  MaxDestroys = 0
  MaxInterrupts = 0
  MaxIntrusions = 0
PROPERTIES
  WatchdogForcesState
CHECK_DEADLOCK FALSE
