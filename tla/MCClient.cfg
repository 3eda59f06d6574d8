CONSTANTS
    Letters = {"w", "s"}
    Lines <- MCLines
    Keys <- MCKeys
    Presses = 3
    Ahead = 1
    PlayerWordMax = 2
    ChunkMax = 2
    AccumMax = 8
    Updates = 1
    PlayerCount = 3
    Times <- MCTimes
SPECIFICATION FairSpec
INVARIANTS
    TypeOK
    SendsWhatEngineCounts
    CursorFollowsText
    ClosedOnce
    ShutdownOfOpenSocket
    ResultsNotLost
    LeaderboardSorted
PROPERTIES
    ClientEnds
