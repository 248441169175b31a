SPECIFICATION Spec
CONSTANTS
  CreateTarget = TRUE
  Ordered = FALSE
  PauseReasons = {"other"}
  MaxNavigations = 0
  MaxRestores = 1
  MaxDownloads = 1
  MaxAborts = 1
  MaxThrows = 1
  MaxLogs = 0
  MaxActions = 2
  MaxFrameless = 0
  MaxSkips = 1
  MaxHangs = 0
  MaxSubframes = 0
  MaxDestroys = 0
  MaxInterrupts = 0
  MaxIntrusions = 0
INVARIANTS
  OneActionPerGeneration
  ChannelsNeverOverflow
PROPERTIES
  ActionAnswersLatestReport
CHECK_DEADLOCK FALSE
