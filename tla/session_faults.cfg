SPECIFICATION Spec
CONSTANTS
    ann = ann
    bob = bob
    Names <- TwoNames
    MinPlayers = 2
    MaxLobbySize = 2
    SnapshotMayFail = TRUE
    ResultMayFail = TRUE
    LoadMayFail = TRUE
    MaxGames = 2
    MaxIDs = 3
    MaxSteps = 2
    MaxSubs = 1
    MaxRuns = 3
CHECK_DEADLOCK FALSE
INVARIANTS
    TypeOK
    FinishedNotActive
    StartedMatchesEngine
    CrashLosesNothing
