CONSTANTS
    Rooms = {r1}
    Conns = {w1, w2}
    Codes = {a}
    Commands = {"JOIN"}
    Capacity = 2
    RoomLimit = 1
    WorkerLimit = 2
    StopAllowed = TRUE
    Main = main
    None = none
SPECIFICATION Spec
INVARIANTS
    EverySocketShut
