CONSTANTS
    Producers = {p1, p2}
    Consumer = hub
    Owner = owner
    Nodes = {n1, n2, n3}
    Capacity = 2
    Waits = {"poll", "timed", "forever"}
    Null = null
    Busy = busy
    Nothing = nothing
    Pushes = 2
    Spurious = 1
SPECIFICATION FairSpec
INVARIANTS
    TypeOK
    ListSound
PROPERTIES
    PopReturns
    KeepsChannel
