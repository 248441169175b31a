SPECIFICATION Spec
CONSTANTS
  CreateTarget = FALSE
  Ordered = FALSE
  PauseReasons = {"other", "exception"}
  MaxNavigations = 0
  MaxRestores = 0
  MaxDownloads = 0
  MaxAborts = 0
  MaxThrows = 2
  MaxLogs = 2
  MaxActions = 1
  MaxFrameless = 0
  MaxSkips = 0
  MaxHangs = 0
  MaxSubframes = 0
  MaxDestroys = 1
  MaxInterrupts = 0
  MaxIntrusions = 1
INVARIANTS
  ExceptionsReportedOnce
  ConsoleNeverRepeated
CHECK_DEADLOCK FALSE
