CONSTANTS
    Players = {p1, p2}
    TotalWords = 2
    QueueCapacity = 2
    RaceMax = 1
    Grace = 1
    Bytes = {"word", "finish"}
    StopAllowed = FALSE
    ByteBudget = 2
    PreStartTicks = 0
    MaxClock = 2
SPECIFICATION Spec
SYMMETRY Symmetry
INVARIANTS
    LobbyLeaversAccounted
