SPECIFICATION Spec
CONSTANTS
  CreateTarget = TRUE
  Ordered = TRUE
  PauseReasons = {"other"}
  MaxNavigations = 1
  MaxRestores = 0
  MaxDownloads = 0
  MaxAborts = 0
  MaxThrows = 0
  MaxLogs = 1
  MaxActions = 1
  MaxFrameless = 0
  MaxSkips = 0
  MaxHangs = 0
  MaxSubframes = 0
  MaxDestroys = 0
  MaxInterrupts = 0
  MaxIntrusions = 0
INVARIANTS
  ConsoleOfReportedPage
CHECK_DEADLOCK FALSE
