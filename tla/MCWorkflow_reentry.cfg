CONSTANTS
    Programs <- MCPrograms
    Files <- MCFiles
    Versions = {0, 1, 2}
    Limit = 1
    Untils <- MCUntils
    Resets = FALSE
    MaxRuns = 2
    MaxEdits = 0
SPECIFICATION Spec
PROPERTY RefreshIsCurrent
PROPERTY ApprovalStands
PROPERTY RunsEnd
CHECK_DEADLOCK FALSE
