SPECIFICATION Spec
CONSTANTS
  Sendable = {"inject", "pause", "resume", "stop"}
  SendFaults = {"slow", "dies"}
  SendsWhileBooting = TRUE
  SkipSteps = TRUE
  EmptyRunSet = TRUE
  MinGap = 1
  MaxWait = 2
  MaxSends = 3
  MaxRun = 2
INVARIANT InSendOrder
 
PROPERTY SignalEndsRun
CHECK_DEADLOCK FALSE
