SPECIFICATION Spec
CONSTANTS
    Launches <- Sliced
    Paths <- AllPaths
    Dests <- AllDests
    MaxSessions = 4
    Faults = {"wrapper", "engine", "relay"}
INVARIANT AcceptedSessionsStart
INVARIANT AcceptedGuardHolds
INVARIANT ConfinedAsAsked
