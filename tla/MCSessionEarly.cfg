CONSTANTS
    Contents <- MCContents
    Messages = 2
    Updates = 1
    ChunkMax = 18
SPECIFICATION Spec
INVARIANT SeatedWhereTold
