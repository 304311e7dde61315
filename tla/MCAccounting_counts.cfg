SPECIFICATION AccountsSpec
CONSTANTS
  Worker <- SomeWorkers
  Ruler <- SomeRulings
  RulerAgent = "claude"
  Budget = 4
  DudLimit = 2
  Cap = 2
  Buffer = 1
  SessionCeiling = 2
  MaxLaunches = 3
  MaxLate = 1
  MaxNow = 1
INVARIANT AccountsAgree
INVARIANT LifetimeCountsEverySession
INVARIANT OnlyTheLastSessionIsLost
CHECK_DEADLOCK FALSE
