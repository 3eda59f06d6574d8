CONSTANTS
    Rooms = {r1, r2}
    Conns = {w1, w2, w3}
    Codes = {a, b}
    Commands = {"JOIN", "CREATE"}
    Capacity = 2
    RoomLimit = 1
    WorkerLimit = 2
    StopAllowed = TRUE
    Main = main
    None = none
SPECIFICATION Spec
SYMMETRY Symmetry
INVARIANTS
    TypeOK
    ListSound
    OneOwner
    ThreadsOwned
    FreedRoomsUnused
PROPERTIES
    KeepsLobby
