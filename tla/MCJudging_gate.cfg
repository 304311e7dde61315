CONSTANTS
    Judges <- MCJudges
    Outputs <- MCOutputs
    Invariants = {}
    Groups <- MCGroups
    Ratchets <- MCRatchets
    DoneIf <- MCDoneIf
    AbortIf <- MCAbortIf
    Untils <- MCUntils
    GateRegressions = TRUE
    RequireImprovement = TRUE
    Branching <- Branches
    Window = 2
    MaxSessions = 2
    MaxStarts = 2
SPECIFICATION JudgingSpec
INVARIANT SuccessIsGraded
INVARIANT NoSessionTooMany
PROPERTY GroupKeepsGround
PROPERTY RatchetHoldsGround
CHECK_DEADLOCK FALSE
