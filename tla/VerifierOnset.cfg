SPECIFICATION Spec
CONSTANTS
  Call <- MCCall
  Go <- GoCase
  Evaluate <- EvaluateCase
  Step <- StepCase
  StopDefault <- StopDefaultCase
  Verdict <- VerdictCase
  TrueAtEnd <- TrueAtEndCase
  FailsOnce <- FailsOnceCase
  Watches <- WatchesCase
  Depth <- Height
  Specifications <- MCSpecifications
  Syntaxes <- MCSyntaxes
  States <- MCStates
  Waits = {1, 2}
  MaxStates = 4
INVARIANTS
  EveryOnsetFails
CHECK_DEADLOCK FALSE
