SPECIFICATION Spec
CONSTANTS
  PidReuse = FALSE
  Handles <- OneOrTwoNames
  Overlaps = FALSE
  MaxFork = 2
  MaxSession = 2
INVARIANT NoStragglers
PROPERTY TasksAreAnnounced
PROPERTY SessionReturns
PROPERTY SignalEndsSession
CHECK_DEADLOCK FALSE
