----------------------------- MODULE RoomSetup -----------------------------
(***************************************************************************)
(* How a room comes into being: POST /api/lobbies at the gateway, the      *)
(* CREATE it sends over a TCP connection of its own (sendTcpCommand), the  *)
(* engine's worker that looks the code up and builds the room with all the *)
(* memory it is made of (coordinator_create_room, serverInit), the         *)
(* sentence it takes from the cached input file, and the answer's way      *)
(* back, which the gateway's timer may overtake.                           *)
(*                                                                         *)
(* The engine decides and builds in one step, because it holds             *)
(* gCoordinatorMutex from the lookup to the end of the construction; how   *)
(* its threads share that mutex is the matter of module Coordinator.  An   *)
(* allocation is a block with a name; any that the code tests may fail.    *)
(* Codes are model values: the gateway leaves nothing in a code that the   *)
(* engine would change.                                                    *)
(*                                                                         *)
(* A definition whose comment starts with "Fault:" is no part of the       *)
(* specification: it is a plausible mistake in the one that follows.       *)
(***************************************************************************)
EXTENDS Words, FiniteSets

CONSTANTS
    Requests,             \* the POST requests
    Codes,                \* room codes they ask for
    PlayersAsked,         \* values of maxPlayers in their bodies, 0 for none
    MAX_LOBBY_CAPACITY,   \* of the gateway's configuration
    EngineMaxPlayers,     \* the 16 of the engine
    RoomLimit,            \* MAX_COORDINATOR_ROOMS
    Files,                \* what the input file may hold, each a set of lines
    None

\* The gateway announces the number it asked for: the engine must be able to seat it.
ASSUME RoomSetupAssumption ==
    /\ PlayersAsked \subseteq Int /\ MAX_LOBBY_CAPACITY \in Nat
    /\ EngineMaxPlayers \in Nat \ {0, 1} /\ MAX_LOBBY_CAPACITY <= EngineMaxPlayers
    /\ RoomLimit \in Nat \ {0} /\ IsFiniteSet(Codes)
    /\ None \notin Requests

VARIABLES
    gateway,      \* where the gateway is with each request
    asked,        \* the code and the number of players its CREATE is for
    answer,       \* the HTTP answer: status and the announced number of players
    worker,       \* where the engine's worker is with it
    verdict,      \* what it will answer
    reply,        \* what the engine has sent back
    rooms,        \* gRoomHead: the request that made the room of each code
    finished,     \* requests whose room's race is over
    created,      \* history: size and sentence of the room made for a request
    heap,         \* the blocks allocated for each request's room
    detached,     \* the room that a worker has taken from the list and must destroy
    input,        \* what the input file holds
    cached        \* gCachedSentences

http == <<gateway, asked, answer>>
conn == <<worker, verdict, reply>>
memory == <<rooms, finished, created, heap, detached>>
text == <<input, cached>>

vars == <<http, conn, memory, text>>

-----------------------------------------------------------------------------
(* A room's memory. *)

HubBlocks == {"hub", "queue", "locks", "threadData", "game", "runner"}
GameBlocks == {"players", "threads", "socketsData", "names", "sentence", "refreshingData"}
Blocks == HubBlocks \cup GameBlocks

\* Where the construction can fail, and what has been allocated by then.
Held ==
    [at \in {"hub", "game", "players", "threads", "socketsData", "names", "sentence", "runner"} |->
        CASE at = "hub" -> {}
          [] at = "game" -> {"hub", "queue", "locks"}
          [] at = "players" -> {"hub", "queue", "locks", "game"}
          [] at = "threads" -> {"hub", "queue", "locks", "game", "players"}
          [] at = "socketsData" -> {"hub", "queue", "locks", "game", "players", "threads"}
          [] at = "names" -> {"hub", "queue", "locks", "game", "players", "threads", "socketsData"}
          [] at = "sentence" -> {"hub", "queue", "locks", "game", "players", "threads",
                                 "socketsData", "names"}
          [] at = "runner" -> Blocks \ {"runner"}]

\* serverInit jumps to its end and frees what it has, but for a failure of the first.
serverInitFail(at) ==
    IF at \in {"threads", "socketsData", "names", "sentence"}
    THEN {"socketsData", "names", "threads", "players"} ELSE {}

\* Fault: the names are forgotten.
serverDestroyButNames == (GameBlocks \ {"names"}) \cup {"game"}

serverDestroy == GameBlocks \cup {"game"}

\* What coordinator_create_room frees when a step fails.
Unwound(at) ==
    serverInitFail(at) \cup
        CASE at = "hub" -> {}
          [] at = "game" -> {"queue", "locks", "hub"}
          [] at = "runner" -> {"queue", "locks", "threadData", "hub"} \cup serverDestroy
          [] OTHER -> {"queue", "locks", "game", "hub"}

\* coordinator_destroy_room joins the runner and frees the rest.
coordinator_destroy_room(r) ==
    {r} \X ({"runner", "queue", "locks", "threadData", "hub"} \cup serverDestroy)

-----------------------------------------------------------------------------
(* The sentence. *)

\* getRandomSentenceCached reads the file if nothing is cached; a file without a usable
\* line leaves nothing cached, to be tried again.
Available == IF cached # {} THEN cached ELSE SentencesOf(input)

-----------------------------------------------------------------------------

NoAnswer == [status |-> 0, players |-> 0]
NoRoom == [size |-> 0, sentence |-> <<>>]
Answers == {NoAnswer, [status |-> 413, players |-> 0]} \cup
    [status : {201}, players : 1 .. EngineMaxPlayers] \cup
    [status : {409, 500, 502, 503}, players : {0}]
Replies == {"none", "ok", "room_already_exists", "room_limit_reached", "room_creation_failed",
            "ERROR:", "nothing"}
Sentences == UNION {SentencesOf(f) : f \in Files}
Listed == {c \in Codes : rooms[c] # None}

TypeOK ==
    /\ gateway \in [Requests -> {"idle", "connecting", "waiting", "answered"}]
    /\ asked \in [Requests -> [code : Codes, players : 0 .. EngineMaxPlayers]]
    /\ answer \in [Requests -> Answers]
    /\ worker \in [Requests -> {"none", "read", "destroying", "done"}]
    /\ verdict \in [Requests -> Replies] /\ reply \in [Requests -> Replies]
    /\ rooms \in [Codes -> Requests \cup {None}] /\ Cardinality(Listed) <= RoomLimit
    /\ \A c \in Listed : asked[rooms[c]].code = c
    /\ finished \subseteq Requests
    /\ created \in [Requests -> [size : 0 .. EngineMaxPlayers, sentence : {<<>>} \cup Sentences]]
    /\ heap \subseteq Requests \X Blocks
    /\ detached \in [Requests -> Requests \cup {None}]
    /\ input \in Files /\ cached \subseteq Sentences

Init ==
    /\ gateway = [r \in Requests |-> "idle"]
    /\ asked \in [Requests -> [code : Codes, players : {0}]]
    /\ answer = [r \in Requests |-> NoAnswer]
    /\ worker = [r \in Requests |-> "none"] /\ verdict = [r \in Requests |-> "none"]
    /\ reply = [r \in Requests |-> "none"]
    /\ rooms = [c \in Codes |-> None] /\ finished = {}
    /\ created = [r \in Requests |-> NoRoom]
    /\ heap = {} /\ detached = [r \in Requests |-> None]
    /\ input \in Files /\ cached = {}

-----------------------------------------------------------------------------
(* The gateway. *)

Answer(r, status, players) ==
    /\ gateway' = [gateway EXCEPT ![r] = "answered"]
    /\ answer' = [answer EXCEPT ![r] = [status |-> status, players |-> players]]

\* Fault: the number in the body is announced and sent as it is.
AsAsked(n) == IF n = 0 THEN 2 ELSE n

\* Two players unless the body has a number, which is brought between 1 and the limit.
maxPlayers(n) == IF n = 0 THEN 2 ELSE Max({1, Min({MAX_LOBBY_CAPACITY, n})})

\* The body has come: a body that is too large is refused, any other leads to a CREATE.
Post(r) ==
    /\ gateway[r] = "idle"
    /\ \/ \E n \in PlayersAsked :
             /\ asked' = [asked EXCEPT ![r] = [code |-> asked[r].code, players |-> maxPlayers(n)]]
             /\ gateway' = [gateway EXCEPT ![r] = "connecting"]
             /\ UNCHANGED answer
       \/ Answer(r, 413, 0) /\ UNCHANGED asked
    /\ UNCHANGED <<conn, memory, text>>

\* The connection is up and the command written; the engine has a worker for it, or
\* answers that it is busy, or closes the connection.
Command(r) ==
    /\ gateway[r] = "connecting"
    /\ gateway' = [gateway EXCEPT ![r] = "waiting"]
    /\ \/ worker' = [worker EXCEPT ![r] = "read"] /\ UNCHANGED reply
       \/ /\ worker' = [worker EXCEPT ![r] = "done"]
          /\ \E said \in {"ERROR:", "nothing"} : reply' = [reply EXCEPT ![r] = said]
    /\ UNCHANGED <<asked, answer, verdict, memory, text>>

\* Fault: whatever the engine says, the room counts as created.
TakesForCreated(r) == [status |-> 201, players |-> asked[r].players]

\* The status for each reply; a text that is no JSON is a bad gateway.
StatusFor(r) ==
    CASE reply[r] = "ok" -> [status |-> 201, players |-> asked[r].players]
      [] reply[r] = "room_already_exists" -> [status |-> 409, players |-> 0]
      [] reply[r] = "nothing" -> [status |-> 502, players |-> 0]
      [] OTHER -> [status |-> 503, players |-> 0]

\* 'end': the promise is resolved with what has come.
Answered(r) ==
    /\ gateway[r] = "waiting" /\ reply[r] # "none"
    /\ Answer(r, StatusFor(r).status, StatusFor(r).players)
    /\ UNCHANGED <<asked, conn, memory, text>>

\* Fault: no timeout is set on the connection.
NeverFires(r) == FALSE

\* The connection has been idle for TCP_COMMAND_TIMEOUT_MS.
TimerFires(r) == gateway[r] \in {"connecting", "waiting"}

\* The promise is rejected, by the timer or by an error of the connection; the engine may be
\* at work on the command, and goes on.
Rejected(r) ==
    /\ TimerFires(r) /\ Answer(r, 500, 0)
    /\ UNCHANGED <<asked, conn, memory, text>>

-----------------------------------------------------------------------------
(* The engine. *)

Old(r) == rooms[asked[r].code]
Taken(r) == Old(r) # None /\ Old(r) \notin finished

\* A finished room of that code is taken from the list and destroyed after the mutex is
\* given back.
Extracted(r) == IF Old(r) # None THEN [rooms EXCEPT ![asked[r].code] = None] ELSE rooms

\* Fault: one room more than the limit.
PlaceForOneMore(r) == Cardinality({c \in Codes : Extracted(r)[c] # None}) <= RoomLimit

PlaceLeft(r) == Cardinality({c \in Codes : Extracted(r)[c] # None}) < RoomLimit

\* The engine's own limits.
EngineSize(n) == IF n < 1 THEN 2 ELSE IF n > EngineMaxPlayers THEN EngineMaxPlayers ELSE n

\* What the worker does under gCoordinatorMutex once it has read the command.
Decides(r, said) ==
    /\ worker[r] = "read" /\ worker' = [worker EXCEPT ![r] = "destroying"]
    /\ verdict' = [verdict EXCEPT ![r] = said]
    /\ UNCHANGED <<http, reply, finished, input>>

CreateRefused(r) ==
    /\ Taken(r) /\ Decides(r, "room_already_exists")
    /\ UNCHANGED <<rooms, created, heap, detached, cached>>

\* No place for one more; a room that is replaced has left its own.
NoPlace(r) ==
    /\ ~Taken(r) /\ ~PlaceLeft(r) /\ Decides(r, "room_limit_reached")
    /\ rooms' = Extracted(r) /\ detached' = [detached EXCEPT ![r] = Old(r)]
    /\ UNCHANGED <<created, heap, cached>>

\* coordinator_create_room fails: out of memory, without a sentence, or without a thread.
ConstructionFails(r) ==
    /\ ~Taken(r) /\ PlaceLeft(r) /\ Decides(r, "room_creation_failed")
    /\ rooms' = Extracted(r) /\ detached' = [detached EXCEPT ![r] = Old(r)]
    /\ \E at \in DOMAIN Held :
          /\ heap' = heap \cup ({r} \X (Held[at] \ Unwound(at)))
          /\ cached' = IF at \in {"sentence", "runner"} THEN Available ELSE cached
          /\ at = "runner" => Available # {}
    /\ UNCHANGED created

CreateRoom(r) ==
    /\ ~Taken(r) /\ PlaceLeft(r) /\ Decides(r, "ok")
    /\ rooms' = [rooms EXCEPT ![asked[r].code] = r]
    /\ detached' = [detached EXCEPT ![r] = Old(r)]
    /\ \E s \in Available :
          created' = [created EXCEPT ![r] = [size |-> EngineSize(asked[r].players), sentence |-> s]]
    /\ heap' = heap \cup ({r} \X Blocks)
    /\ cached' = Available

\* The old room is destroyed, then the answer sent and the connection closed.
DestroyAndReply(r) ==
    /\ worker[r] = "destroying" /\ worker' = [worker EXCEPT ![r] = "done"]
    /\ heap' = heap \ UNION {coordinator_destroy_room(q) : q \in {detached[r]} \ {None}}
    /\ detached' = [detached EXCEPT ![r] = None]
    /\ reply' = [reply EXCEPT ![r] = verdict[r]]
    /\ UNCHANGED <<http, verdict, rooms, finished, created, text>>

RaceOver(c) ==
    /\ rooms[c] # None /\ rooms[c] \notin finished /\ finished' = finished \cup {rooms[c]}
    /\ UNCHANGED <<http, conn, rooms, created, heap, detached, text>>

\* The accept loop prunes what has been finished, or waiting without players, for long.
Prune(c) ==
    /\ rooms[c] # None /\ rooms' = [rooms EXCEPT ![c] = None]
    /\ heap' = heap \ coordinator_destroy_room(rooms[c])
    /\ UNCHANGED <<http, conn, finished, created, detached, text>>

\* Somebody edits the input file.
Edit ==
    /\ input' \in Files \ {input}
    /\ UNCHANGED <<http, conn, memory, cached>>

Done == (\A r \in Requests : gateway[r] = "answered" /\ worker[r] \in {"none", "done"}) /\ UNCHANGED vars

Gateway(r) == Command(r) \/ Answered(r) \/ Rejected(r)

Next ==
    \/ \E r \in Requests :
          \/ Post(r) \/ Gateway(r)
          \/ CreateRefused(r) \/ NoPlace(r) \/ ConstructionFails(r) \/ CreateRoom(r)
          \/ DestroyAndReply(r)
    \/ \E c \in Codes : RaceOver(c) \/ Prune(c)
    \/ Edit
    \/ Done

Spec == Init /\ [][Next]_vars

\* The gateway's callbacks run; nothing is asked of the engine.
FairSpec == Spec /\ \A r \in Requests : WF_vars(Gateway(r))

-----------------------------------------------------------------------------
(* Properties. *)

\* Whatever fails while a room is built or replaced, the memory in use is that of the
\* listed rooms and of those a worker is about to destroy, no block more and none less
\* (the three unwinding paths of coordinator_create_room, serverInit and serverDestroy).
NothingLeaked ==
    heap = (({rooms[c] : c \in Codes} \cup {detached[r] : r \in Requests}) \ {None}) \X Blocks

\* The gateway's answer is true of the engine: 201 only for a room this request made, with
\* as many places as announced; 409, 413 and 503 only if it made none.  500 and 502 say
\* nothing, as the engine may have made the room and the answer been late.
ReplyTruthful ==
    \A r \in Requests :
        /\ answer[r].status = 201 => created[r] # NoRoom /\ created[r].size = answer[r].players
        /\ answer[r].status \in {409, 413, 503} => created[r] = NoRoom

\* A race has words to type: whoever edits the file while rooms are made, no room has a
\* sentence in which the engine counts none.  (A line with a carriage return in front of its
\* first word is the exception: it is valid, and cut to nothing; LinesEndOnce rules it out.)
RoomsPlayable == \A r \in Requests : created[r] # NoRoom => countWords(created[r].sentence) > 0

\* Every request is answered, also when the engine hangs on the command.
EveryRequestAnswered ==
    \A r \in Requests : gateway[r] # "idle" ~> gateway[r] = "answered"
-----------------------------------------------------------------------------
(* What the properties rest on: an inductive invariant. *)

\* Both sides of a request keep step: nothing is made, said or owed before the worker has
\* decided, and a CREATE asks for a number of players that the engine can seat.
InStep ==
    \A r \in Requests :
        /\ gateway[r] \in {"idle", "connecting"} => worker[r] = "none"
        /\ gateway[r] = "connecting" \/ worker[r] # "none" => asked[r].players # 0
        /\ worker[r] = "none" => reply[r] = "none"
        /\ worker[r] \in {"none", "read"} => created[r] = NoRoom /\ verdict[r] = "none"
        /\ worker[r] # "destroying" => detached[r] = None
        /\ reply[r] # "none" => worker[r] = "done"

\* What the worker will say, or has said, and what the gateway has answered, is true.
Truth ==
    \A r \in Requests :
        /\ \A said \in {verdict[r], reply[r]} :
              /\ said = "ok" => created[r].size = asked[r].players /\ created[r] # NoRoom
              /\ said \notin {"ok", "none", "nothing"} => created[r] = NoRoom
        /\ answer[r].status \in {201, 409, 503} => worker[r] = "done"
        /\ answer[r].status = 413 => worker[r] = "none" /\ gateway[r] = "answered"

\* A room is made once, listed under its code, and owed by one worker at most, who has taken
\* it from the list.
Owned ==
    /\ \A c \in Listed : worker[rooms[c]] \in {"destroying", "done"}
    /\ \A r \in Requests : detached[r] # None =>
          /\ worker[detached[r]] \in {"destroying", "done"}
          /\ \A c \in Codes : rooms[c] # detached[r]
          /\ \A q \in Requests : detached[q] = detached[r] => q = r

\* A room that was made has a sentence of the file as it was at some time.
Chosen == \A r \in Requests : created[r] # NoRoom => created[r].sentence \in Sentences

\* A line of the input file ends where its line end is: behind a line-end character there
\* are only line-end characters.  fgets() sees to it for LF, but not for CR.
LinesEndOnce ==
    \A f \in Files : \A line \in f :
        /\ line \in Seq(STRING)
        /\ \A i, j \in DOMAIN line :
              i < j /\ line[i] \in {"CR", "LF"} => line[j] \in {"CR", "LF"}

IInv == TypeOK /\ InStep /\ Truth /\ Owned /\ ReplyTruthful /\ NothingLeaked
=============================================================================
