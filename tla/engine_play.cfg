SPECIFICATION Spec
CONSTANTS
    p1 = p1
    p2 = p2
    p3 = p3
    p4 = p4
    p5 = p5
    NoPlayer = NoPlayer
    NotVoted = NotVoted
    HostID = NoPlayer
    Players <- FivePlayers
    Roster <- FiveRoster
    Senders <- HostOnly
    Deals <- TwoOfFive
    Ballots <- MafiaOrTown
    MinPlayers = 5
    MaxPlayers = 12
    MafiaCount = 2
    IntroSecondsPerPlayer = 1
    DiscussionSeconds = 2
    NightMafiaSeconds = 1
    NightPoliceSeconds = 1
    NightDoctorSeconds = 1
    DoctorSelfHealAllowed = TRUE
    NightIntroSeconds = 1
    DayIntroSeconds = 1
    FinalResultBufferSeconds = 1
    Thresholds = {1}
    VoiceInputs = {TRUE}
    MaxTickLag = 1
    MaxTickGap = 2
    MaxPause = 1
    MaxNow = 1000
    MaxDay = 2
VIEW RelativeTime
INVARIANTS
    TypeOK
    NightTargetsInStep
    CueOncePerDay
    ElectionOpen
    NoUnnoticedWin
    PoliceHistorySound
    RepresentativeLives
PROPERTIES
    TickCatchesUp
    DeathHasCause
    ImplementsLifecycle
