CONSTANTS
    Rooms = {r1, r2}
    Conns = {w1, w2}
    Codes = {a}
    Commands = {"JOIN", "CREATE", "INFO", "SUMMARY"}
    Capacity = 1
    RoomLimit = 1
    WorkerLimit = 2
    StopAllowed = TRUE
    Main = main
    None = none
SPECIFICATION FairSpec
PROPERTIES
    CommandsAnswered
    FullRoomStarts
    RoomsFreed
