CONSTANTS
    Contents <- MCContents
    Messages = 2
    Updates = 1
    ChunkMax = 18
SPECIFICATION FairSpec
INVARIANTS
    TypeOK
    RelaysInOrder
    OneError
    LobbyOrRace
PROPERTIES
    SessionEnds
