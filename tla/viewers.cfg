SPECIFICATION ViewSpec
CONSTANTS
    p1 = p1
    p2 = p2
    p3 = p3
    p4 = p4
    p5 = p5
    s = s
    NoPlayer = NoPlayer
    NotVoted = NotVoted
    HostID = NoPlayer
    Players <- FivePlayers
    Roster <- FiveRoster
    Screen = s
    Flaky = {p2, p4, s}
    MaxAway = 1
    Senders <- HostOnly
    Deals <- TwoOfFive
    Ballots <- MafiaVersusTown
    MinPlayers = 5
    MaxPlayers = 12
    MafiaCount = 2
    IntroSecondsPerPlayer = 1
    DiscussionSeconds = 1
    NightMafiaSeconds = 1
    NightPoliceSeconds = 1
    NightDoctorSeconds = 1
    DoctorSelfHealAllowed = TRUE
    NightIntroSeconds = 1
    DayIntroSeconds = 1
    FinalResultBufferSeconds = 1
    Thresholds = {}
    VoiceInputs = {TRUE}
    MaxTickLag = 0
    MaxTickGap = 1
    MaxPause = 1
    MaxNow = 1000
    MaxDay = 1
VIEW ViewersRelativeTime
INVARIANTS
    KeepsSecrets
    ResumeRestores
    CopiesAgree
