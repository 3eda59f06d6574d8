CONSTANTS
    Players = {p1, p2}
    TotalWords = 1
    QueueCapacity = 1
    RaceMax = 1
    Grace = 1
    Bytes = {"finish", "noise"}
    StopAllowed = TRUE
    ByteBudget = 1
    PreStartTicks = 1
    MaxClock = 3
SPECIFICATION FairSpec
PROPERTIES
    RaceEnds
INVARIANTS
    TimesWithinRace
