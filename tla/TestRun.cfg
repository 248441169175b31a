SPECIFICATION FairSpec
CONSTANTS
  Generated <- MCGenerated
  NoActions <- NoTree
  Converted <- TryMap
  Restricted <- OnlyBack
  Prunes <- Prune
  Chooses <- Picks
  LeavesOf <- Leaves
  HasZeroWeight <- HasZero
  Convertible <- ToBrowserAction
  GoBack <- Back
  Urls <- MCUrls
  NoPart = "no"
  Origin <- MCOrigin
  MaxStates = 2
  MaxViolations = 1
  MaxTime = 1
  MaxInterrupts = 1
INVARIANTS
  TypeOK
  TraceIsAPath
  EntriesHaveScreenshots
  ActionsWereGenerated
  ActsWhenItCan
PROPERTIES
  
  EveryTurnEnds
CHECK_DEADLOCK FALSE
