SPECIFICATION FairSpec
CONSTANTS
    p1 = p1
    p2 = p2
    p3 = p3
    p4 = p4
    p5 = p5
    NoPlayer = NoPlayer
    NotVoted = NotVoted
    HostID = NoPlayer
    Players <- FourPlayers
    Roster <- FourRoster
    Senders <- HostOnly
    Deals <- OneDeal
    Ballots <- MafiaBallot
    MinPlayers = 4
    MaxPlayers = 4
    MafiaCount = 1
    IntroSecondsPerPlayer = 1
    DiscussionSeconds = 1
    NightMafiaSeconds = 1
    NightPoliceSeconds = 1
    NightDoctorSeconds = 1
    DoctorSelfHealAllowed = TRUE
    NightIntroSeconds = 1
    DayIntroSeconds = 1
    FinalResultBufferSeconds = 1
    Thresholds = {}
    VoiceInputs = {TRUE}
    MaxTickLag = 0
    MaxTickGap = 2
    MaxPause = 2
    MaxNow = 7
    MaxDay = 1
PROPERTIES
    BufferRunsOut
    NightPasses
