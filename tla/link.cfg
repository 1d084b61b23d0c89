SPECIFICATION FairSpec
CONSTANTS
  primary = p0
  secondary = p1
  InitLinks <- AnyLink
  FlapStates <- AtRest
  FlapInWindow = FALSE
  WatchdogPrompt = TRUE
  MaxInputs = 4
INVARIANTS  NoFalseCarrier
 
CHECK_DEADLOCK FALSE
