---------------------------- MODULE Coordinator ----------------------------
(***************************************************************************)
(* The coordinator of the game engine: the list of rooms, the workers that *)
(* answer one connection each (INFO, CREATE, SUMMARY, JOIN), the thread    *)
(* that runs each room's race, the threads of the players who wait in a    *)
(* room, the main thread that prunes rooms, accepts connections and at the *)
(* end shuts everything down, and the destruction of a room.               *)
(*                                                                         *)
(* The steps are the spans between the points where a thread may block:    *)
(* gCoordinatorMutex and roomMutex are variables because they are held     *)
(* while waiting for something else; a startMutex is held across steps     *)
(* only by a lobby thread that found its connection dead.  The race itself *)
(* is module Race; here it is the start, the moment its event loop is left *)
(* and the join of the players' threads.                                   *)
(*                                                                         *)
(* gRoomHead is a set: no operation depends on the order of the list.  Age *)
(* limits are a free choice (a room old enough to be pruned may be found   *)
(* so at any pass).  Condition variables do not wake without a signal.     *)
(*                                                                         *)
(* A definition whose comment starts with "Fault:" is no part of the       *)
(* specification: it is a plausible mistake in the one that follows.       *)
(***************************************************************************)
EXTENDS Integers, Sequences, FiniteSets

CONSTANTS
    Rooms,          \* RoomHub allocations; a freed one may be allocated again
    Conns,          \* connections: each is a worker first, and a player if its JOIN succeeds
    Codes,          \* room codes
    Commands,       \* the commands clients send
    Capacity,       \* maxPlayers of every room
    RoomLimit,      \* MAX_COORDINATOR_ROOMS
    WorkerLimit,    \* most connection workers at a time
    StopAllowed,    \* may the process be told to stop
    Main,           \* the main thread
    None

ASSUME CoordinatorAssumption ==
    /\ IsFiniteSet(Rooms) /\ IsFiniteSet(Conns)
    /\ Main \notin Conns /\ None \notin Conns \cup Rooms \cup Codes \cup {Main}
    /\ Commands \subseteq {"INFO", "CREATE", "SUMMARY", "JOIN"}
    /\ Capacity \in Nat \ {0} /\ RoomLimit \in Nat \ {0} /\ WorkerLimit \in Nat \ {0}
    /\ StopAllowed \in BOOLEAN

VARIABLES
    running,        \* gCoordinatorRunning
    main,           \* where the main thread is
    coord,          \* who holds gCoordinatorMutex
    scan,           \* rooms its holder has yet to look at
    picked,         \* the room that is about to be pruned
    listed,         \* gRoomHead
    doom,           \* rooms each thread has taken from the list and must destroy
    \* RoomHub and Game fields
    code, state, slots, closeRequested, started,
    runner,         \* where roomRunner is
    mutex,          \* who holds roomMutex
    dying,          \* how far coordinator_destroy_room is
    \* one connection worker per connection
    pc, cmd, want,  \* where it is, its command and the room code in it
    hub,            \* the room it joins, and later plays in
    \* one player per connection whose JOIN succeeded
    thread,         \* where its handleClient is
    gone,           \* players marked disconnected
    sock,           \* the engine's end of the connection
    hung            \* clients that have closed their end

control == <<running, main, coord, scan, picked>>
list == <<listed, code>>
room == <<state, slots, closeRequested, started>>
workers == <<pc, cmd, want, hub>>
players == <<thread, gone, sock, hung>>

vars == <<control, list, doom, room, runner, mutex, dying, workers, players>>

Agents == Conns \cup {Main}

ControlTypes ==
    /\ running \in BOOLEAN
    /\ main \in {"loop", "scan", "sweep", "accept", "take", "lastSweep", "end"}
    /\ coord \in Agents \cup {None} /\ scan \subseteq Rooms /\ picked \in Rooms \cup {None}

ListTypes ==
    /\ listed \subseteq Rooms
    /\ code \in [Rooms -> Codes \cup {None}]

\* The vector of players has maxPlayers places.
RoomTypes ==
    /\ state \in [Rooms -> {"free", "waiting", "racing", "finished"}]
    /\ slots \in [Rooms -> Seq(Conns)] /\ \A r \in Rooms : Len(slots[r]) <= Capacity
    /\ closeRequested \in [Rooms -> BOOLEAN] /\ started \in [Rooms -> BOOLEAN]

WorkerTypes ==
    /\ pc \in [Conns -> {"idle", "read", "asked", "lookup", "tour", "enter", "sweep", "register", "done"}]
    /\ cmd \in [Conns -> Commands \cup {None}] /\ want \in [Conns -> Codes \cup {None}]
    /\ hub \in [Conns -> Rooms \cup {None}]

PlayerTypes ==
    /\ thread \in [Conns -> {"none", "lobby", "leaving", "left", "reader", "done"}]
    /\ gone \subseteq Conns /\ hung \subseteq Conns
    /\ sock \in [Conns -> {"open", "rdshut", "shut", "closed"}]

TypeOK ==
    /\ ControlTypes /\ ListTypes /\ RoomTypes /\ WorkerTypes /\ PlayerTypes
    /\ doom \in [Agents -> SUBSET Rooms]
    /\ runner \in [Rooms -> {"none", "check", "asleep", "start", "race", "join", "finish", "done"}]
    /\ mutex \in [Rooms -> Conns \cup {None}]
    /\ dying \in [Rooms -> {"no", "release", "wake", "runner", "threads", "close"}]

Init ==
    /\ running = TRUE /\ main = "loop"
    /\ coord = None /\ scan = {} /\ picked = None
    /\ listed = {} /\ doom = [a \in Agents |-> {}]
    /\ code = [r \in Rooms |-> None]
    /\ state = [r \in Rooms |-> "free"]
    /\ slots = [r \in Rooms |-> <<>>]
    /\ closeRequested = [r \in Rooms |-> FALSE]
    /\ started = [r \in Rooms |-> FALSE]
    /\ runner = [r \in Rooms |-> "none"]
    /\ mutex = [r \in Rooms |-> None]
    /\ dying = [r \in Rooms |-> "no"]
    /\ pc = [w \in Conns |-> "idle"]
    /\ cmd = [w \in Conns |-> None] /\ want = [w \in Conns |-> None]
    /\ hub = [w \in Conns |-> None]
    /\ thread = [w \in Conns |-> "none"]
    /\ gone = {} /\ hung = {}
    /\ sock = [w \in Conns |-> "open"]

-----------------------------------------------------------------------------
(* The parts of a room. *)

Players(r) == {slots[r][s] : s \in 1 .. Len(slots[r])}

\* countActivePlayers.
ActivePlayers(r) == Players(r) \ gone
Active(r) == Cardinality({s \in 1 .. Len(slots[r]) : slots[r][s] \notin gone})

StartMutexFree(r) == \A w \in Players(r) : thread[w] \notin {"leaving", "left"}
RoomMutexFree(r) == mutex[r] = None

Returned(w) == thread[w] \in {"none", "done"}

\* shutdown() of every descriptor the room still holds: of its reading end after the race, of
\* both ends at a destruction.
ReadShut(r) == [w \in Conns |-> IF w \in Players(r) /\ sock[w] = "open" THEN "rdshut" ELSE sock[w]]
Shut(r) == [w \in Conns |-> IF w \in Players(r) /\ sock[w] \in {"open", "rdshut"} THEN "shut"
                            ELSE sock[w]]

-----------------------------------------------------------------------------
(* roomRunner. *)

Full(r) == Active(r) >= Capacity

\* The wait for a full room: each pass is made under roomMutex.
RunnerCheck(r) ==
    /\ runner[r] = "check" /\ RoomMutexFree(r)
    /\ IF closeRequested[r]
       THEN runner' = [runner EXCEPT ![r] = "done"] /\ UNCHANGED state
       ELSE IF Full(r)
       THEN /\ runner' = [runner EXCEPT ![r] = "start"]
            /\ state' = [state EXCEPT ![r] = "racing"]
       ELSE runner' = [runner EXCEPT ![r] = "asleep"] /\ UNCHANGED state
    /\ UNCHANGED <<control, list, doom, slots, closeRequested, started, mutex, dying, workers, players>>

\* runGameHub sets gameStarted.
RunnerStart(r) ==
    /\ runner[r] = "start" /\ StartMutexFree(r)
    /\ runner' = [runner EXCEPT ![r] = "race"]
    /\ started' = [started EXCEPT ![r] = TRUE]
    /\ UNCHANGED <<control, list, doom, state, slots, closeRequested, mutex, dying, workers, players>>

\* Its event loop is over: the readers are unblocked, then joined.
RunnerUnblock(r) ==
    /\ runner[r] = "race"
    /\ runner' = [runner EXCEPT ![r] = "join"]
    /\ sock' = ReadShut(r)
    /\ UNCHANGED <<control, list, doom, room, mutex, dying, workers, thread, gone, hung>>

RunnerJoin(r) ==
    /\ runner[r] = "join"
    /\ \A w \in Players(r) : Returned(w)
    /\ runner' = [runner EXCEPT ![r] = "finish"]
    /\ UNCHANGED <<control, list, doom, room, mutex, dying, workers, players>>

RunnerFinish(r) ==
    /\ runner[r] = "finish" /\ RoomMutexFree(r)
    /\ runner' = [runner EXCEPT ![r] = "done"]
    /\ state' = [state EXCEPT ![r] = "finished"]
    /\ UNCHANGED <<control, list, doom, slots, closeRequested, started, mutex, dying, workers, players>>

Runner(r) ==
    RunnerCheck(r) \/ RunnerStart(r) \/ RunnerUnblock(r) \/ RunnerJoin(r) \/ RunnerFinish(r)

-----------------------------------------------------------------------------
(* handleClient, one thread per player. *)

LobbyWake(w) ==
    /\ thread[w] = "lobby" /\ started[hub[w]]
    /\ thread' = [thread EXCEPT ![w] = "reader"]
    /\ UNCHANGED <<control, list, doom, room, runner, mutex, dying, workers, gone, sock, hung>>

\* The peek finds the connection dead; startMutex stays with the thread.  A byte the client
\* sent before it left hides the end of the connection, so this need never happen.
LobbyPeek(w) ==
    /\ thread[w] = "lobby" /\ ~started[hub[w]] /\ StartMutexFree(hub[w])
    /\ w \in hung \/ sock[w] = "shut"
    /\ thread' = [thread EXCEPT ![w] = "leaving"]
    /\ UNCHANGED <<control, list, doom, room, runner, mutex, dying, workers, gone, sock, hung>>

LobbyLeave(w) ==
    /\ thread[w] = "leaving" /\ RoomMutexFree(hub[w])
    /\ thread' = [thread EXCEPT ![w] = "left"]
    /\ gone' = gone \cup {w}
    /\ sock' = [sock EXCEPT ![w] = "closed"]
    /\ UNCHANGED <<control, list, doom, room, runner, mutex, dying, workers, hung>>

LobbyReturn(w) ==
    /\ thread[w] = "left"
    /\ thread' = [thread EXCEPT ![w] = "done"]
    /\ UNCHANGED <<control, list, doom, room, runner, mutex, dying, workers, gone, sock, hung>>

\* The reader loop ends: the client finished, or recv() found the end of the connection.  Bytes
\* that still arrive after the shutdown of the reading end are read first.
ReaderReturn(w) ==
    /\ thread[w] = "reader"
    /\ thread' = [thread EXCEPT ![w] = "done"]
    /\ UNCHANGED <<control, list, doom, room, runner, mutex, dying, workers, gone, sock, hung>>

Player(w) ==
    LobbyWake(w) \/ LobbyPeek(w) \/ LobbyLeave(w) \/ LobbyReturn(w) \/ ReaderReturn(w)

\* A client leaves.
HangUp(w) ==
    /\ thread[w] \in {"lobby", "reader"} /\ w \notin hung
    /\ hung' = hung \cup {w}
    /\ UNCHANGED <<control, list, doom, room, runner, mutex, dying, workers, thread, gone, sock>>

-----------------------------------------------------------------------------
(* coordinator_destroy_room, by the thread that took the room from the list. *)

\* Each thread destroys its rooms one after the other.
DestroyBegin(a, r) ==
    /\ r \in doom[a] /\ \A q \in doom[a] : dying[q] = "no"
    /\ a \in Conns => pc[a] = "sweep"
    /\ a = Main => main \in {"sweep", "lastSweep"}
    /\ dying' = [dying EXCEPT ![r] = "release"]
    /\ closeRequested' = [closeRequested EXCEPT ![r] = TRUE]
    /\ sock' = Shut(r)
    /\ UNCHANGED <<control, list, doom, state, slots, started, runner, mutex, workers, thread, gone, hung>>

DestroyRelease(r) ==
    /\ dying[r] = "release" /\ StartMutexFree(r)
    /\ dying' = [dying EXCEPT ![r] = "wake"]
    /\ started' = [started EXCEPT ![r] = TRUE]
    /\ UNCHANGED <<control, list, doom, state, slots, closeRequested, runner, mutex, workers, players>>

\* Fault: roomCond is not signalled (RoomsFreed).
NotWoken(r) == runner

\* pthread_cond_signal(roomCond).
Woken(r) == IF runner[r] = "asleep" THEN [runner EXCEPT ![r] = "check"] ELSE runner

DestroyWake(r) ==
    /\ dying[r] = "wake" /\ RoomMutexFree(r)
    /\ dying' = [dying EXCEPT ![r] = "runner"]
    /\ runner' = Woken(r)
    /\ UNCHANGED <<control, list, doom, room, mutex, workers, players>>

DestroyJoinRunner(r) ==
    /\ dying[r] = "runner" /\ runner[r] = "done"
    /\ dying' = [dying EXCEPT ![r] = "threads"]
    /\ UNCHANGED <<control, list, doom, room, runner, mutex, workers, players>>

\* Fault: the players' threads are not joined (FreedRoomsUnused).
NotJoined(r) == TRUE

ThreadsReturned(r) == \A w \in Players(r) : Returned(w)

DestroyJoinThreads(r) ==
    /\ dying[r] = "threads" /\ ThreadsReturned(r)
    /\ dying' = [dying EXCEPT ![r] = "close"]
    /\ UNCHANGED <<control, list, doom, room, runner, mutex, workers, players>>

\* The sockets are closed and the room is freed: nothing is left of it.
DestroyFree(a, r) ==
    /\ r \in doom[a] /\ dying[r] = "close"
    /\ dying' = [dying EXCEPT ![r] = "no"]
    /\ doom' = [doom EXCEPT ![a] = @ \ {r}]
    /\ sock' = [w \in Conns |-> IF w \in Players(r) THEN "closed" ELSE sock[w]]
    /\ code' = [code EXCEPT ![r] = None]
    /\ state' = [state EXCEPT ![r] = "free"]
    /\ slots' = [slots EXCEPT ![r] = <<>>]
    /\ closeRequested' = [closeRequested EXCEPT ![r] = FALSE]
    /\ started' = [started EXCEPT ![r] = FALSE]
    /\ runner' = [runner EXCEPT ![r] = "none"]
    /\ UNCHANGED <<control, listed, mutex, workers, thread, gone, hung>>

Destroy(r) ==
    \/ \E a \in Agents : DestroyBegin(a, r) \/ DestroyFree(a, r)
    \/ DestroyRelease(r) \/ DestroyWake(r) \/ DestroyJoinRunner(r) \/ DestroyJoinThreads(r)

-----------------------------------------------------------------------------
(* coordinator_connection_worker. *)

Goto(w, place) == pc' = [pc EXCEPT ![w] = place]
Lock(a) == coord = None /\ coord' = a
Unlock(a) == coord = a /\ coord' = None
CloseConn(w) == sock' = [sock EXCEPT ![w] = "closed"]

\* No command in time, or an unknown one: the connection ends here.
WorkerGivesUp(w) ==
    /\ pc[w] = "read"
    /\ Goto(w, "done") /\ CloseConn(w)
    /\ UNCHANGED <<control, list, doom, room, runner, mutex, dying, cmd, want, hub, thread, gone, hung>>

\* A command is read.  SO_RCVTIMEO limits one recv(), not the number of them.
WorkerReads(w, what, c) ==
    /\ pc[w] = "read"
    /\ cmd' = [cmd EXCEPT ![w] = what]
    /\ want' = [want EXCEPT ![w] = c]
    /\ Goto(w, "asked")
    /\ UNCHANGED <<control, list, doom, room, runner, mutex, dying, hub, players>>

\* gCoordinatorMutex is taken.  INFO looks at every room in turn.
WorkerLocks(w) ==
    /\ pc[w] = "asked" /\ Lock(w)
    /\ Goto(w, IF cmd[w] = "INFO" THEN "tour" ELSE "lookup")
    /\ scan' = IF cmd[w] = "INFO" THEN listed ELSE {}
    /\ UNCHANGED <<running, main, picked, list, doom, room, runner, mutex, dying, cmd, want, hub,
                   players>>

InfoRoom(w, r) ==
    /\ pc[w] = "tour" /\ r \in scan /\ RoomMutexFree(r)
    /\ scan' = scan \ {r}
    /\ UNCHANGED <<running, main, coord, picked, list, doom, room, runner, mutex, dying, workers, players>>

InfoReply(w) ==
    /\ pc[w] = "tour" /\ scan = {}
    /\ Unlock(w) /\ Goto(w, "done") /\ CloseConn(w)
    /\ UNCHANGED <<running, main, scan, picked, list, doom, room, runner, mutex, dying, cmd, want, hub,
                   thread, gone, hung>>

\* coordinator_get_room; what follows waits for the mutex of the room found, if any.
Found(w) == {r \in listed : code[r] = want[w]}
FoundFinished(w) == {r \in Found(w) : state[r] = "finished"}
FoundLive(w) == Found(w) \ FoundFinished(w)

Lookup(w, what) ==
    /\ pc[w] = "lookup" /\ cmd[w] = what
    /\ \A r \in Found(w) : RoomMutexFree(r)

Summary(w) ==
    /\ Lookup(w, "SUMMARY")
    /\ Unlock(w) /\ Goto(w, "done") /\ CloseConn(w)
    /\ UNCHANGED <<running, main, scan, picked, list, doom, room, runner, mutex, dying, cmd, want, hub,
                   thread, gone, hung>>

\* CREATE for a code in use.
CreateRefused(w) ==
    /\ Lookup(w, "CREATE") /\ FoundLive(w) # {}
    /\ Unlock(w) /\ Goto(w, "done") /\ CloseConn(w)
    /\ UNCHANGED <<running, main, scan, picked, list, doom, room, runner, mutex, dying, cmd, want, hub,
                   thread, gone, hung>>

\* A finished room of that code is taken from the list, for this thread to destroy.
Extract(w) == doom' = [doom EXCEPT ![w] = @ \cup FoundFinished(w)]

\* Fault: the finished room stays on the list (OneOwner).
KeptOnList(w) == listed

Remaining(w) == listed \ FoundFinished(w)

\* Fault: one room too many (ListSound).
PlaceLeftOver(rest) == Cardinality(rest) <= RoomLimit

PlaceLeft(rest) == Cardinality(rest) < RoomLimit

\* coordinator_create_room: a new room with its runner thread.
NewRoom(w, r) ==
    /\ FoundLive(w) = {}
    /\ PlaceLeft(Remaining(w))
    /\ state[r] = "free"
    /\ listed' = Remaining(w) \cup {r}
    /\ code' = [code EXCEPT ![r] = want[w]]
    /\ state' = [state EXCEPT ![r] = "waiting"]
    /\ runner' = [runner EXCEPT ![r] = "check"]
    /\ Extract(w)

\* The limit is reached, or there is no memory, no sentence or no thread for a room.
NoRoom(w) ==
    /\ FoundLive(w) = {}
    /\ listed' = Remaining(w)
    /\ Extract(w)

\* CREATE answers after it has destroyed the room it replaces.
CreateRoom(w, r) ==
    /\ Lookup(w, "CREATE") /\ NewRoom(w, r)
    /\ Unlock(w) /\ Goto(w, "sweep")
    /\ UNCHANGED <<running, main, scan, picked, slots, closeRequested, started, mutex, dying, cmd, want,
                   hub, players>>

CreateFails(w) ==
    /\ Lookup(w, "CREATE") /\ NoRoom(w)
    /\ Unlock(w) /\ Goto(w, "sweep")
    /\ UNCHANGED <<running, main, scan, picked, code, room, runner, mutex, dying, cmd, want, hub, players>>

JoinFails(w) ==
    /\ Lookup(w, "JOIN") /\ NoRoom(w)
    /\ Unlock(w) /\ Goto(w, "sweep")
    /\ UNCHANGED <<running, main, scan, picked, code, room, runner, mutex, dying, cmd, want, hub, players>>

\* JOIN keeps gCoordinatorMutex until it holds the room's mutex.
JoinFound(w, r) ==
    /\ Lookup(w, "JOIN") /\ r \in FoundLive(w)
    /\ hub' = [hub EXCEPT ![w] = r]
    /\ Goto(w, "enter")
    /\ UNCHANGED <<control, list, doom, room, runner, mutex, dying, cmd, want, players>>

JoinCreates(w, r) ==
    /\ Lookup(w, "JOIN") /\ NewRoom(w, r)
    /\ hub' = [hub EXCEPT ![w] = r]
    /\ Goto(w, "enter")
    /\ UNCHANGED <<control, slots, closeRequested, started, mutex, dying, cmd, want, players>>

JoinEnter(w) ==
    /\ pc[w] = "enter" /\ RoomMutexFree(hub[w])
    /\ mutex' = [mutex EXCEPT ![hub[w]] = w]
    /\ Unlock(w) /\ Goto(w, "sweep")
    /\ UNCHANGED <<running, main, scan, picked, list, doom, room, runner, dying, cmd, want, hub, players>>

\* The room it replaced is gone; a JOIN does this holding the new room's mutex.
Swept(w) ==
    /\ pc[w] = "sweep" /\ doom[w] = {}
    /\ IF hub[w] # None
       THEN Goto(w, "register") /\ UNCHANGED sock
       ELSE Goto(w, "done") /\ CloseConn(w)
    /\ UNCHANGED <<control, list, doom, room, runner, mutex, dying, cmd, want, hub, thread, gone, hung>>

\* Fault: a player is let into a running race (KeepsLobby).
AdmitsRacing(r) == Active(r) < Capacity \/ state[r] = "racing"

Admits(r) == state[r] = "waiting" /\ Active(r) < Capacity

\* Fault: the way out of JOIN leaves the mutex locked (CommandsAnswered).
KeepMutex(r) == UNCHANGED mutex

ReleaseMutex(r) == mutex' = [mutex EXCEPT ![r] = None]

JoinRefused(w) ==
    /\ pc[w] = "register" /\ ~Admits(hub[w])
    /\ ReleaseMutex(hub[w])
    /\ hub' = [hub EXCEPT ![w] = None]
    /\ Goto(w, "done") /\ CloseConn(w)
    /\ UNCHANGED <<control, list, doom, room, runner, dying, cmd, want, thread, gone, hung>>

Vacated(r) == {s \in 1 .. Len(slots[r]) : slots[r][s] \in gone}

\* Fault: vacated slots are never used again (TypeOK).
NextSlot(r) == Len(slots[r]) + 1

\* The first slot a player has left, or the next one.
FreeSlot(r) ==
    IF Vacated(r) = {} THEN Len(slots[r]) + 1
    ELSE CHOOSE s \in Vacated(r) : \A t \in Vacated(r) : s <= t

\* Fault: the thread of the slot's last player is not joined (ThreadsOwned).
SlotAtOnce(r) == TRUE

\* The thread of the slot's last player is joined before the slot is given away.
SlotReady(r) == FreeSlot(r) <= Len(slots[r]) => Returned(slots[r][FreeSlot(r)])

\* Fault: the runner is not told when the last place was vacated before (FullRoomStarts).
CompletesNewSlot(r) == Active(r) + 1 = Capacity /\ Vacated(r) = {}

\* With the player just registered the room is full.
Completes(r) == Active(r) + 1 = Capacity

\* The player gets the slot; its thread may fail to start, which leaves the slot vacated.
JoinRegister(w, r) ==
    /\ pc[w] = "register" /\ hub[w] = r
    /\ Admits(r) /\ SlotReady(r)
    /\ slots' = [slots EXCEPT ![r] = IF FreeSlot(r) > Len(@) THEN Append(@, w)
                                     ELSE [@ EXCEPT ![FreeSlot(r)] = w]]
    /\ \/ /\ thread' = [thread EXCEPT ![w] = "lobby"]
          /\ runner' = IF Completes(r) THEN Woken(r) ELSE runner
          /\ UNCHANGED <<gone, sock>>
       \/ gone' = gone \cup {w} /\ CloseConn(w) /\ UNCHANGED <<thread, runner>>
    /\ ReleaseMutex(r) /\ Goto(w, "done")
    /\ UNCHANGED <<control, list, doom, state, closeRequested, started, dying, cmd, want, hub, hung>>

\* What a worker does by itself once it has its command.
WorkerAnswers(w) ==
    \/ WorkerLocks(w)
    \/ (\E r \in Rooms : InfoRoom(w, r)) \/ InfoReply(w)
    \/ Summary(w)
    \/ CreateRefused(w) \/ (\E r \in Rooms : CreateRoom(w, r)) \/ CreateFails(w)
    \/ JoinFails(w) \/ (\E r \in Rooms : JoinFound(w, r) \/ JoinCreates(w, r)) \/ JoinEnter(w)
    \/ Swept(w) \/ JoinRefused(w) \/ (\E r \in Rooms : JoinRegister(w, r))

Worker(w) ==
    \/ WorkerGivesUp(w) \/ (\E what \in Commands, c \in Codes : WorkerReads(w, what, c))
    \/ WorkerAnswers(w)

-----------------------------------------------------------------------------
(* The main thread: startCoordinatorServer, then stopCoordinatorServer. *)

\* SIGINT or SIGTERM.
Signal ==
    /\ StopAllowed /\ running
    /\ running' = FALSE
    /\ UNCHANGED <<main, coord, scan, picked, list, doom, room, runner, mutex, dying, workers, players>>

MainLoop ==
    /\ main = "loop" /\ running
    /\ Lock(Main) /\ scan' = listed
    /\ main' = "scan"
    /\ UNCHANGED <<running, picked, list, doom, room, runner, mutex, dying, workers, players>>

\* Fault: a room with players waiting in it is pruned (KeepsLobby).
AgedOut(r) == state[r] \in {"waiting", "finished"}

Prunable(r) == state[r] = "finished" \/ (state[r] = "waiting" /\ Active(r) = 0)

\* coordinator_prune_finished_rooms_unlocked decides about one room under its mutex (it may be
\* too young), and removes it when that mutex is free again.
PruneLook(r) ==
    /\ main = "scan" /\ picked = None /\ r \in scan /\ RoomMutexFree(r)
    /\ scan' = scan \ {r}
    /\ UNCHANGED picked \/ (Prunable(r) /\ picked' = r)
    /\ UNCHANGED <<running, main, coord, list, doom, room, runner, mutex, dying, workers, players>>

PruneTake(r) ==
    /\ main = "scan" /\ picked = r
    /\ picked' = None
    /\ listed' = listed \ {r}
    /\ doom' = [doom EXCEPT ![Main] = @ \cup {r}]
    /\ UNCHANGED <<running, main, coord, scan, code, room, runner, mutex, dying, workers, players>>

PruneEnd ==
    /\ main = "scan" /\ picked = None /\ scan = {}
    /\ Unlock(Main)
    /\ main' = "sweep"
    /\ UNCHANGED <<running, scan, picked, list, doom, room, runner, mutex, dying, workers, players>>

MainSwept ==
    /\ main = "sweep" /\ doom[Main] = {}
    /\ main' = "accept"
    /\ UNCHANGED <<running, coord, scan, picked, list, doom, room, runner, mutex, dying, workers, players>>

\* gActiveConnectionWorkers.
ActiveWorkers == Cardinality({w \in Conns : pc[w] \notin {"idle", "done"}})

\* A connection gets a worker, or the answer that the server is busy.
Accept(w) ==
    /\ main = "accept" /\ pc[w] = "idle"
    /\ main' = "loop"
    /\ IF ActiveWorkers >= WorkerLimit
       THEN Goto(w, "done") /\ CloseConn(w)
       ELSE Goto(w, "read") /\ UNCHANGED sock
    /\ UNCHANGED <<running, coord, scan, picked, list, doom, room, runner, mutex, dying, cmd, want, hub,
                   thread, gone, hung>>

\* select() times out, or accept() or the creation of the worker fails.
AcceptNobody ==
    /\ main = "accept"
    /\ main' = "loop"
    /\ UNCHANGED <<running, coord, scan, picked, list, doom, room, runner, mutex, dying, workers, players>>

\* The wait for the workers: it ends when they are done or after a second.
MainDrain ==
    /\ main = "loop" /\ ~running
    /\ main' = "take"
    /\ UNCHANGED <<running, coord, scan, picked, list, doom, room, runner, mutex, dying, workers, players>>

\* All rooms are taken from the list, under the mutex.
MainTake ==
    /\ main = "take" /\ coord = None
    /\ main' = "lastSweep"
    /\ doom' = [doom EXCEPT ![Main] = listed]
    /\ listed' = {}
    /\ UNCHANGED <<running, coord, scan, picked, code, room, runner, mutex, dying, workers, players>>

\* They are destroyed and the process exits.
MainEnd ==
    /\ main = "lastSweep" /\ doom[Main] = {}
    /\ main' = "end"
    /\ UNCHANGED <<running, coord, scan, picked, list, doom, room, runner, mutex, dying, workers, players>>

MainThread ==
    \/ MainLoop \/ (\E r \in Rooms : PruneLook(r) \/ PruneTake(r)) \/ PruneEnd \/ MainSwept
    \/ (\E w \in Conns : Accept(w)) \/ AcceptNobody
    \/ MainDrain \/ MainTake \/ MainEnd

-----------------------------------------------------------------------------
\* The main thread is done.  The process exits here; what other threads could do until then
\* they may still do.
Exited == main = "end" /\ UNCHANGED vars

Next ==
    \/ \E r \in Rooms : Runner(r) \/ Destroy(r)
    \/ \E w \in Conns : Worker(w) \/ Player(w) \/ HangUp(w)
    \/ MainThread \/ Signal
    \/ Exited

Spec == Init /\ [][Next]_vars

\* What a player's thread does by itself.  No client owes an end to what it sends: a reader returns
\* for sure only when its client has left or both ends of the connection are shut down.
PlayerProceeds(w) ==
    \/ LobbyWake(w) \/ LobbyLeave(w) \/ LobbyReturn(w)
    \/ (w \in hung \/ sock[w] = "shut") /\ ReaderReturn(w)

\* Threads are scheduled, and a worker that waits for gCoordinatorMutex, which the main thread
\* takes at every pass, gets it in the end.  No client owes a command.
Fairness ==
    /\ \A r \in Rooms : WF_vars(Runner(r)) /\ WF_vars(Destroy(r))
    /\ \A w \in Conns : SF_vars(WorkerAnswers(w)) /\ WF_vars(PlayerProceeds(w))
    /\ WF_vars(MainThread)

FairSpec == Spec /\ Fairness

-----------------------------------------------------------------------------
(* Properties. *)

\* gRoomHead is a list of live rooms with distinct codes, never longer than its limit: the
\* lookup, the limit check and the insertion are one critical section, and no room on the list
\* is being destroyed.
ListSound ==
    /\ Cardinality(listed) <= RoomLimit
    /\ \A r \in listed :
          /\ state[r] # "free" /\ dying[r] = "no"
          /\ \A q \in listed \ {r} : code[q] # code[r]

\* coordinator_destroy_room frees the room with its mutexes and slots.  Nobody may then still
\* use it: no runner, no player's thread, no worker that looked it up or holds its mutex.
FreedRoomsUnused ==
    \A r \in Rooms : state[r] = "free" =>
        /\ runner[r] = "none" /\ RoomMutexFree(r)
        /\ \A w \in Conns : hub[w] = r => pc[w] = "done" /\ Returned(w)

\* Every allocated room is either on the list or in the hands of exactly one thread that will
\* destroy it: none is leaked and none is freed twice.
OneOwner ==
    \A r \in Rooms :
        Cardinality({a \in Agents : r \in doom[a]}) + (IF r \in listed THEN 1 ELSE 0)
            = IF state[r] = "free" THEN 0 ELSE 1

\* Each running thread of a player belongs to a slot of its room, so that whoever destroys the
\* room joins it: recycling a slot never drops a thread that is still running.
ThreadsOwned ==
    \A w \in Conns : ~Returned(w) => w \in Players(hub[w])

\* The comment at server.c:931 says that the sockets are shut down so that any recv() in the
\* players' threads wakes up: when these are joined, no socket is left open.
EverySocketShut ==
    \A r \in Rooms : dying[r] = "threads" => \A w \in Players(r) : sock[w] \in {"shut", "closed"}

\* Every command is answered, or its connection becomes a player: no worker waits forever for
\* a mutex, for a thread it joins while it holds one, or for the finished room that its CREATE or
\* JOIN replaces, also while the service stops.  A connection asks once, so none is stuck if again
\* and again no command is under way.
CommandsAnswered == []<>(\A w \in Conns : pc[w] \in {"idle", "read", "done"})

\* A full room starts its race, unless a player leaves first or the room is to be destroyed: the
\* signal that wakes the runner is never lost.
FullRoomStarts ==
    []<>(\A r \in Rooms : state[r] = "waiting" /\ Full(r) => closeRequested[r])

\* The destruction shut down the sockets before this player was among them.
Missed(r) == \E w \in Players(r) : sock[w] = "open" /\ w \notin hung

\* A destruction that has begun ends, whatever the clients do: it never hangs on the runner, on a
\* lobby thread that holds startMutex, or on the reader of a socket it shut down.  At a stop it
\* can hang on a player whose JOIN was still under way when the sockets were shut down, as long
\* as that player stays.
RoomsFreed ==
    []<>(\A r \in Rooms : dying[r] # "no" => main = "lastSweep" /\ Missed(r))

\* The rooms as module Lobby sees them.
status ==
    [r \in Rooms |->
        IF r \notin listed THEN "none"
        ELSE CASE state[r] = "waiting" -> "open"
               [] state[r] = "racing" -> "racing"
               [] OTHER -> "over"]

members ==
    [r \in Rooms |->
        CASE r \notin listed -> {}
          [] r \in listed /\ state[r] = "waiting" -> ActivePlayers(r)
          [] OTHER -> Players(r)]

Rules == INSTANCE Lobby WITH
    name <- [r \in Rooms |-> IF r \in listed THEN code[r] ELSE None],
    NoCode <- None,
    serving <- main \notin {"lastSweep", "end"}

\* Every step of the coordinator, its workers and the rooms' threads is a step of Lobby or
\* changes nothing it speaks of: a race starts with a full room and nobody joins it, and a
\* room with players waiting in it only disappears when everything does.
KeepsLobby == Rules!LobbySpec

-----------------------------------------------------------------------------
(* The inductive invariant behind the safety properties. *)

\* Who holds which mutex, and what a worker knows at each place: a room it is about to enter
\* cannot leave the list, for it still holds gCoordinatorMutex.
Locks ==
    /\ coord = Main <=> main = "scan"
    /\ main = "scan" => scan \subseteq listed
    /\ \A w \in Conns :
          /\ coord = w <=> pc[w] \in {"lookup", "tour", "enter"}
          /\ pc[w] \in {"asked", "lookup"} => want[w] \in Codes
          /\ hub[w] # None => pc[w] \in {"enter", "sweep", "register", "done"}
          /\ pc[w] = "enter" => hub[w] \in listed
          /\ pc[w] = "register" => hub[w] # None
          /\ \A r \in Rooms : mutex[r] = w <=> hub[w] = r /\ pc[w] \in {"sweep", "register"}

\* A room that is about to be pruned can still be pruned: gCoordinatorMutex keeps players out.
Picking ==
    picked # None =>
        /\ main = "scan" /\ picked \in listed \ scan
        /\ RoomMutexFree(picked) /\ Prunable(picked)

\* The runner's place and the state of its room.
Stages ==
    \A r \in Rooms :
        /\ runner[r] = "none" <=> state[r] = "free"
        /\ runner[r] \in {"start", "race", "join", "finish"} <=> state[r] = "racing"
        /\ state[r] = "finished" => runner[r] = "done"

Doomed(r) == \E a \in Agents : r \in doom[a]

\* A room lives from its insertion to its destruction, on the list or with one thread, and
\* a thread has rooms to destroy only between taking them and its next command.
Ownership ==
    /\ \A r \in Rooms : state[r] # "free" <=> r \in listed \/ Doomed(r)
    /\ \A r \in listed : ~Doomed(r)
    /\ \A a, b \in Agents : doom[a] \cap doom[b] # {} => a = b
    /\ \A w \in Conns : doom[w] # {} => pc[w] \in {"enter", "sweep"}
    /\ doom[Main] # {} => main \in {"scan", "sweep", "lastSweep"}
    /\ \A r \in Rooms : dying[r] # "no" => Doomed(r)
    /\ Cardinality(listed) <= RoomLimit
    /\ \A r, q \in listed : code[q] = code[r] => q = r

\* Who sits where: a player's slot is in the room it joined, no player has two, and one that
\* was marked disconnected has no thread that still plays.
Seats ==
    /\ \A r \in Rooms : \A s, t \in 1 .. Len(slots[r]) : slots[r][s] = slots[r][t] => s = t
    /\ \A r \in Rooms : \A w \in Players(r) : hub[w] = r /\ pc[w] = "done"
    /\ \A w \in Conns : thread[w] # "none" => pc[w] = "done" /\ hub[w] # None
    /\ \A w \in gone : pc[w] = "done" /\ thread[w] \in {"none", "left", "done"}
    /\ ThreadsOwned

\* What each stage of a destruction has established, down to a room of which nothing is left.
Teardown ==
    \A r \in Rooms :
        /\ dying[r] \in {"runner", "threads", "close"} => RoomMutexFree(r)
        /\ dying[r] \in {"threads", "close"} => runner[r] = "done"
        /\ dying[r] = "close" => ThreadsReturned(r)
        /\ state[r] = "free" =>
              /\ slots[r] = <<>> /\ RoomMutexFree(r)
              /\ \A w \in Conns : hub[w] = r => pc[w] = "done" /\ Returned(w)

IInv == TypeOK /\ Locks /\ Picking /\ Stages /\ Ownership /\ Seats /\ Teardown
=============================================================================
