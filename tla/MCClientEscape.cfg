CONSTANTS
    Letters = {"w", "s"}
    Lines <- OneLine
    Keys <- FewKeys
    Presses = 3
    Ahead = 1
    PlayerWordMax = 2
    ChunkMax = 2
    AccumMax = 8
    Updates = 1
    PlayerCount = 3
    Times <- MCTimes
SPECIFICATION Spec
INVARIANT EscapesConsumed
