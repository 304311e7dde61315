CONSTANTS
    Names <- MCNames
    Paths <- MCPaths
    StrayPaths <- MCStrayPaths
    Entries <- MCEntries
    Trees <- MCTrees
    Steps <- MCSteps
    MaxSessions = 2
    MaxWrites = 2
    MaxStrays = 1
SPECIFICATION Spec
INVARIANT WalkMissesNothing
PROPERTY TaintedSpanNeverMerges
PROPERTY RestoredBeforeJudging
CHECK_DEADLOCK FALSE
