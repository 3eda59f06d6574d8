CONSTANTS
    Letters = {"w", "s"}
    Requests = {r1, r2}
    Codes = {c1, c2}
    PlayersAsked = {0, 1, 4}
    MAX_LOBBY_CAPACITY = 3
    EngineMaxPlayers = 3
    RoomLimit = 1
    Files <- MCFiles
    None = None
SPECIFICATION FairSpec
INVARIANTS
    TypeOK
    NothingLeaked
    ReplyTruthful
    RoomsPlayable
PROPERTIES
    EveryRequestAnswered
