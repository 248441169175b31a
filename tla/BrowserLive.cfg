SPECIFICATION FairSpec
CONSTANTS
  CreateTarget = TRUE
  Ordered = TRUE
  PauseReasons = {"other"}
  MaxNavigations = 1
  MaxRestores = 1
  MaxDownloads = 0
  MaxAborts = 0
  MaxThrows = 0
  MaxLogs = 0
  MaxActions = 1
  MaxFrameless = 0
  MaxSkips = 0
  MaxHangs = 1
  MaxSubframes = 1
  MaxDestroys = 0
  MaxInterrupts = 1
  MaxIntrusions = 0
PROPERTIES
  StateEventuallyReported
  TerminateReturns
CHECK_DEADLOCK FALSE
