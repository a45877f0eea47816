SPECIFICATION Spec
CONSTANTS
    t1 = t1
    t2 = t2
    Tabs = {t1, t2}
    NoTab = NoTab
    Inputs <- BoundaryForms
    MinPlayers = 6
    MaxLobbySize = 8
    Shuffles <- SomeShuffles
SYMMETRY TabSymmetry
INVARIANTS
    TypeOK
    StartedIsPlayable
    AnnouncedIsInForce
