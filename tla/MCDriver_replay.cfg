SPECIFICATION DriverSpec
CONSTANTS
    Flows <- StandingFlows
    Judges <- MCJudges
    Grades <- MCGrades
    StepEnds = {"work", "idle", "vetoed", "violated"}
    Stagings = {"failed", "vetoed"}
    Rollback = TRUE
    RequireImprovement = TRUE
    SessionLimit = 3
    TokenLimit = 6
    Unwritable = {"lint_clean"}
    MaxRuns = 2
INVARIANT ReplayReproduces
INVARIANT ResumeRebuildsTheState
PROPERTY NothingLandedIsRedone
CHECK_DEADLOCK FALSE
