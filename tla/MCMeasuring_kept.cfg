CONSTANTS
    Judges <- MCJudges
    Ratchet <- MCRatchet
    Trees <- MCTrees
    Whole <- MCWhole
    Changes <- MCChanges
    Scores <- MCScores
    Lazy = FALSE
    CacheCap = 3
    MaxSessions = 1
    MaxStarts = 2
    MaxFaults = 1
    MaxStrays = 1
SPECIFICATION Spec
INVARIANT VerdictIsOfTheTree
INVARIANT IncumbentsAreOneKept
INVARIANT FailureNeverHelps
CHECK_DEADLOCK FALSE
