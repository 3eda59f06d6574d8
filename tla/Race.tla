------------------------------- MODULE Race -------------------------------
(***************************************************************************)
(* One race of the game engine: the hub thread (runGameHub), the thread    *)
(* that serves each player (handleClient), the event queue between them,   *)
(* the players' connections and the two ways the engine itself interferes  *)
(* with a race: the clock and the coordinator shutting the room down.      *)
(*                                                                         *)
(* The race starts as roomRunner starts it: every slot holds a player who  *)
(* was connected when the room was found full, and whose thread waits in   *)
(* the lobby loop for gameStarted.                                         *)
(*                                                                         *)
(* The queue appears through its operations, each one step because each    *)
(* runs under the queue's mutex.  A broadcast is part of the step that     *)
(* makes it: it touches each player's flag and socket separately, and no   *)
(* thread reads two players' flags.  Allocation failures are left out.     *)
(*                                                                         *)
(* A definition whose comment starts with "Fault:" is no part of the       *)
(* specification.  It is the one after it with a plausible mistake, and    *)
(* shows that the property it names would notice.                          *)
(***************************************************************************)
EXTENDS Integers, Sequences, FiniteSets

CONSTANTS
    Players,         \* the occupied slots 0 .. maxPlayerCount-1
    TotalWords,      \* totalWordCount: words of the sentence
    QueueCapacity,   \* MAX_EVENT_QUEUE_CAPACITY
    RaceMax,         \* raceMaxDurationSec, in clock ticks
    Grace,           \* finishGraceTimeoutSec, in clock ticks
    Bytes,           \* the kinds of byte the clients send
    StopAllowed,     \* may the coordinator destroy the room during the race
    ByteBudget,      \* bound: bytes one client sends, and ignored ones that wait to be read
    PreStartTicks,   \* bound: clock ticks before the race start is recorded
    MaxClock         \* bound: the last value of the clock

ASSUME RaceAssumption ==
    /\ IsFiniteSet(Players) /\ Players # {}
    /\ TotalWords \in Nat \ {0}
    /\ QueueCapacity \in Nat \ {0}
    /\ RaceMax \in Nat \ {0} /\ Grace \in Nat \ {0}
    /\ Bytes \subseteq {"word", "finish", "noise"}
    /\ StopAllowed \in BOOLEAN
    /\ ByteBudget \in Nat /\ PreStartTicks \in Nat
    /\ MaxClock \in Nat /\ MaxClock > PreStartTicks + RaceMax

\* The kinds of event (eventQueue.h) and the bytes a client sends: '3', '2', any other.
WORD == "word"
FINISH == "finish"
DISCONNECT == "disconnect"
NOISE == "noise"
EventType == {WORD, FINISH, DISCONNECT}
Terminal == {FINISH, DISCONNECT}

None == -1             \* no time recorded yet
DNF == -1              \* timeTaken of a player without a result
Pending == -2          \* verdict of a player who has none yet, in RaceContract
Time == 0 .. MaxClock
Event == [type: EventType, player: Players, ts: Time]
NoEvent == [type |-> "none"]

VARIABLES
    now,             \* CLOCK_MONOTONIC
    \* the connections and the clients at their far ends
    socket,          \* the engine's end: "open", "rdshut", "shut" or "closed" (activeSocket = -1)
    peer,            \* the client's end: "open" or "closed"
    inbox,           \* bytes received and not read
    budget, words,   \* bytes the client may still send; '3' bytes it has sent
    \* handleClient, one thread per player
    reader,          \* where the thread is
    hand,            \* the event it is about to push
    \* the event queue
    queue, closed,
    refused,         \* history: players of whom an event was not enqueued
    \* Game and Player fields
    gameStarted, finishedPlayers, finished, disconnected, timeTaken, progress,
    \* runGameHub
    hub,             \* where the hub thread is
    raceStart, firstFinish,
    greeted,         \* how far the greeting of each player is: "no", "sending" or "yes"
    informed,        \* players the results were sent to
    stop             \* how far coordinator_destroy_room is: "no", "shut", "released"

clients == <<peer, budget, words>>
threads == <<reader, hand>>
channel == <<queue, closed, refused>>
scores == <<finishedPlayers, finished, timeTaken, progress>>
links == <<disconnected, socket>>
race == <<hub, raceStart, firstFinish, informed, greeted>>

vars == <<now, clients, inbox, threads, channel, gameStarted, scores, links, race, stop>>

ReaderState == {"lobby", "leaving", "loop", "recv", "push", "done"}
HubState == {"scan", "greet", "start", "loop", "pop", "close", "unblock", "join",
             "results", "done"}

ClientTypes ==
    /\ peer \in [Players -> {"open", "closed"}]
    /\ budget \in [Players -> 0 .. ByteBudget] /\ words \in [Players -> 0 .. ByteBudget]

LinkTypes ==
    /\ disconnected \subseteq Players
    /\ socket \in [Players -> {"open", "rdshut", "shut", "closed"}]

ThreadTypes ==
    /\ reader \in [Players -> ReaderState]
    /\ hand \in [Players -> Event \cup {NoEvent}]

ChannelTypes ==
    /\ queue \in Seq(Event) /\ Len(queue) <= QueueCapacity
    /\ closed \in BOOLEAN
    /\ refused \subseteq Players

ScoreTypes ==
    /\ finishedPlayers \in 0 .. Cardinality(Players)
    /\ finished \subseteq Players
    /\ timeTaken \in [Players -> Time \cup {DNF}]
    /\ progress \in [Players -> 0 .. TotalWords]

HubTypes ==
    /\ hub \in HubState
    /\ raceStart \in Time \cup {None} /\ firstFinish \in Time \cup {None}
    /\ informed \subseteq Players
    /\ greeted \in [Players -> {"no", "sending", "yes"}]

TypeOK ==
    /\ now \in Time
    /\ inbox \in [Players -> Seq(Bytes)]
    /\ gameStarted \in BOOLEAN
    /\ stop \in {"no", "shut", "released"}
    /\ ClientTypes /\ LinkTypes /\ ThreadTypes /\ ChannelTypes /\ ScoreTypes /\ HubTypes

Init ==
    /\ now = 0
    /\ socket = [i \in Players |-> "open"]
    /\ peer = [i \in Players |-> "open"]
    /\ inbox = [i \in Players |-> <<>>]
    /\ budget = [i \in Players |-> ByteBudget]
    /\ words = [i \in Players |-> 0]
    /\ reader = [i \in Players |-> "lobby"]
    /\ hand = [i \in Players |-> NoEvent]
    /\ queue = <<>> /\ closed = FALSE /\ refused = {}
    /\ gameStarted = FALSE
    /\ finishedPlayers = 0
    /\ finished = {} /\ disconnected = {}
    /\ timeTaken = [i \in Players |-> DNF]
    /\ progress = [i \in Players |-> 0]
    /\ hub = "scan"
    /\ raceStart = None /\ firstFinish = None
    /\ informed = {} /\ greeted = [i \in Players |-> "no"]
    /\ stop = "no"

-----------------------------------------------------------------------------
(* The clients (outside the engine) and the clock. *)

\* A client sends a byte at any time, in the lobby included: the kernel keeps it.  Data that
\* arrives after SHUT_RD is still received.  What follows the '2' is drained or never read,
\* so a client is silent after it; bytes the engine ignores it may send for ever.
ClientSend(i, b) ==
    /\ peer[i] = "open" /\ socket[i] \in {"open", "rdshut"} /\ budget[i] > 0
    /\ b = NOISE => Len(inbox[i]) < ByteBudget
    /\ inbox' = [inbox EXCEPT ![i] = Append(@, b)]
    /\ budget' = [budget EXCEPT ![i] = IF b = FINISH THEN 0 ELSE IF b = WORD THEN @ - 1 ELSE @]
    /\ words' = [words EXCEPT ![i] = IF b = WORD THEN @ + 1 ELSE @]
    /\ UNCHANGED <<now, peer, threads, channel, gameStarted, scores, links, race, stop>>

\* A client closes its connection, or loses it: a reset also discards what was not read.
ClientClose(i) ==
    /\ peer[i] = "open"
    /\ peer' = [peer EXCEPT ![i] = "closed"]
    /\ \E kept \in {inbox[i], <<>>} : inbox' = [inbox EXCEPT ![i] = kept]
    /\ UNCHANGED <<now, budget, words, threads, channel, gameStarted, scores, links, race, stop>>

\* Time passes.  Once the event loop is left nothing reads the clock any more.
Tick ==
    /\ now < MaxClock
    /\ hub \in {"scan", "greet"} => now < PreStartTicks
    /\ hub \in {"scan", "greet", "start", "loop", "pop"}
    /\ now' = now + 1
    /\ UNCHANGED <<clients, inbox, threads, channel, gameStarted, scores, links, race, stop>>

-----------------------------------------------------------------------------
(* coordinator_destroy_room, up to the point where it joins the hub thread. *)

StopShutdown ==
    /\ StopAllowed /\ stop = "no" /\ hub # "done"
    /\ stop' = "shut"
    /\ socket' = [i \in Players |-> IF socket[i] = "closed" THEN "closed" ELSE "shut"]
    /\ UNCHANGED <<now, clients, inbox, threads, channel, gameStarted, scores, disconnected, race>>

\* Fault: the start signal given without startMutex (NoCloseAfterStart).
StartWithoutMutex == TRUE

\* startMutex is held across a step only by a lobby thread that found its peer gone.
StartMutexFree == \A i \in Players : reader[i] # "leaving"

StopRelease ==
    /\ stop = "shut" /\ StartMutexFree
    /\ stop' = "released"
    /\ gameStarted' = TRUE
    /\ UNCHANGED <<now, clients, inbox, threads, channel, scores, links, race>>

-----------------------------------------------------------------------------
(* handleClient: the lobby loop, then the reader loop. *)

\* recv() finds no byte and never will: the peer is gone or the engine shut the socket down.
EndOfInput(i) == inbox[i] = <<>> /\ (peer[i] = "closed" \/ socket[i] # "open")

\* Woken by the start signal, or by the 100 ms timeout after it.
LobbyWake(i) ==
    /\ reader[i] = "lobby" /\ gameStarted
    /\ reader' = [reader EXCEPT ![i] = "loop"]
    /\ UNCHANGED <<now, clients, inbox, hand, channel, gameStarted, scores, links, race, stop>>

\* The timeout passes before the start and the peek finds the connection dead.
\* The thread keeps startMutex while it waits for roomMutex.
LobbyPeek(i) ==
    /\ reader[i] = "lobby" /\ ~gameStarted /\ StartMutexFree
    /\ EndOfInput(i)
    /\ reader' = [reader EXCEPT ![i] = "leaving"]
    /\ UNCHANGED <<now, clients, inbox, hand, channel, gameStarted, scores, links, race, stop>>

\* It marks its player gone under roomMutex and returns: no event is pushed.
LobbyLeave(i) ==
    /\ reader[i] = "leaving"
    /\ reader' = [reader EXCEPT ![i] = "done"]
    /\ disconnected' = disconnected \cup {i}
    /\ socket' = [socket EXCEPT ![i] = "closed"]
    /\ UNCHANGED <<now, clients, inbox, hand, channel, gameStarted, scores, race, stop>>

\* The test before the reader loop and at its head: a thread whose player was marked
\* disconnected by a broadcast leaves without pushing an event.
ReaderCheck(i) ==
    /\ reader[i] = "loop"
    /\ reader' = [reader EXCEPT ![i] =
                     IF i \in disconnected \/ socket[i] = "closed" THEN "done" ELSE "recv"]
    /\ UNCHANGED <<now, clients, inbox, hand, channel, gameStarted, scores, links, race, stop>>

\* recv() returns a byte, stamped on return; bytes other than '3' and '2' are ignored.
\* Every event carries a stamp; only that of a FINISH is ever read, the others are 0 here.
RecvByte(i) ==
    /\ reader[i] = "recv" /\ inbox[i] # <<>>
    /\ LET b == Head(inbox[i]) IN
       /\ reader' = [reader EXCEPT ![i] = IF b = NOISE THEN "loop" ELSE "push"]
       /\ hand' = IF b = NOISE THEN hand
                  ELSE [hand EXCEPT ![i] = [type |-> b, player |-> i,
                                            ts |-> IF b = FINISH THEN now ELSE 0]]
    /\ inbox' = [inbox EXCEPT ![i] = Tail(@)]
    /\ UNCHANGED <<now, clients, channel, gameStarted, scores, links, race, stop>>

\* Fault: the end of input is not reported to the hub (NobodyForgotten).
RecvEndSilently(i) ==
    /\ reader[i] = "recv" /\ EndOfInput(i)
    /\ reader' = [reader EXCEPT ![i] = "done"]
    /\ UNCHANGED <<now, clients, inbox, hand, channel, gameStarted, scores, links, race, stop>>

\* recv() returns 0 or an error.
RecvEnd(i) ==
    /\ reader[i] = "recv" /\ EndOfInput(i)
    /\ reader' = [reader EXCEPT ![i] = "push"]
    /\ hand' = [hand EXCEPT ![i] = [type |-> DISCONNECT, player |-> i, ts |-> 0]]
    /\ UNCHANGED <<now, clients, inbox, channel, gameStarted, scores, links, race, stop>>

\* Fault: no bound on the queue (TypeOK).
EnqueueAlways(e) ==
    /\ queue' = IF closed THEN queue ELSE Append(queue, e)
    /\ refused' = IF closed THEN refused \cup {e.player} ELSE refused

\* event_queue_push: refused, without a word to the caller, when closed or full.
Enqueue(e) ==
    IF closed \/ Len(queue) >= QueueCapacity
    THEN /\ refused' = refused \cup {e.player}
         /\ queue' = queue
    ELSE /\ queue' = Append(queue, e)
         /\ refused' = refused

\* Fault: no break after the '2' (OneVerdictPerPlayer).
OnlyDisconnectIsLast(e) == e.type = DISCONNECT

\* The reader returns after reporting a finish or a disconnection.
LastEvent(e) == e.type \in Terminal

\* The push, then the way on: after '2' the trailing self-reported time is drained.
ReaderPush(i) ==
    /\ reader[i] = "push"
    /\ Enqueue(hand[i])
    /\ hand' = [hand EXCEPT ![i] = NoEvent]
    /\ reader' = [reader EXCEPT ![i] = IF LastEvent(hand[i]) THEN "done" ELSE "loop"]
    /\ inbox' = [inbox EXCEPT ![i] = IF hand[i].type = FINISH THEN <<>> ELSE @]
    /\ UNCHANGED <<now, clients, closed, gameStarted, scores, links, race, stop>>

-----------------------------------------------------------------------------
(* runGameHub. *)

Connected(i) == i \notin disconnected /\ socket[i] # "closed"

\* A send may fail (peer gone, or stalled past SO_SNDTIMEO); on a shut socket it must.
SendFailures(to) == {F \in SUBSET to : \A i \in to : socket[i] = "shut" => i \in F}

\* broadcastProgress, after the step has marked the players of gone: a failed send shuts
\* the socket down and marks its player, but does not decide the player's result.
Broadcast(gone) ==
    \E F \in SendFailures({i \in Players \ gone : Connected(i)}) :
        /\ disconnected' = disconnected \cup gone \cup F
        /\ socket' = [i \in Players |-> IF i \in F THEN "shut" ELSE socket[i]]

\* The players who left in the lobby are counted before the start.
HubScan ==
    /\ hub = "scan"
    /\ LET gone == {i \in Players : ~Connected(i)} IN
       /\ finished' = finished \cup gone
       /\ disconnected' = disconnected \cup gone
       /\ timeTaken' = [i \in Players |-> IF i \in gone THEN DNF ELSE timeTaken[i]]
       /\ finishedPlayers' = finishedPlayers + Cardinality(gone)
    /\ hub' = "greet"
    /\ UNCHANGED <<now, clients, inbox, threads, channel, gameStarted, progress, socket,
                   raceStart, firstFinish, informed, greeted, stop>>

\* The sentence and the initial progress go to every client.  The hub tests activeSocket and
\* then sends on it, without a lock and before the start: a lobby thread may close it between.
HubGreetTest(i) ==
    /\ hub = "greet" /\ greeted[i] = "no" /\ \A j \in Players : greeted[j] # "sending"
    /\ greeted' = [greeted EXCEPT ![i] = IF Connected(i) THEN "sending" ELSE "yes"]
    /\ UNCHANGED <<now, clients, inbox, threads, channel, gameStarted, scores, links,
                   hub, raceStart, firstFinish, informed, stop>>

\* Failures are ignored.
HubGreetSend(i) ==
    /\ hub = "greet" /\ greeted[i] = "sending"
    /\ greeted' = [greeted EXCEPT ![i] = "yes"]
    /\ UNCHANGED <<now, clients, inbox, threads, channel, gameStarted, scores, links,
                   hub, raceStart, firstFinish, informed, stop>>

HubGreet ==
    /\ hub = "greet" /\ \A i \in Players : greeted[i] = "yes"
    /\ raceStart' = now
    /\ hub' = "start"
    /\ UNCHANGED <<now, clients, inbox, threads, channel, gameStarted, scores, links,
                   firstFinish, informed, greeted, stop>>

HubStart ==
    /\ hub = "start" /\ StartMutexFree
    /\ gameStarted' = TRUE
    /\ hub' = "loop"
    /\ UNCHANGED <<now, clients, inbox, threads, channel, scores, links,
                   raceStart, firstFinish, informed, greeted, stop>>

\* The head of the event loop.  The clock is read here, once per iteration.
\* Fault: the loop is left one player early (KeepsContract).
AllButOneCounted == finishedPlayers >= Cardinality(Players) - 1

AllCounted == finishedPlayers >= Cardinality(Players)

TimedOut ==
    \/ now - raceStart > RaceMax
    \/ firstFinish # None /\ now - firstFinish >= Grace

\* Fault: the timeout counts the finished players again (EveryoneCountedOnce).
LateAll == Players

\* Whom the timeout decides.
Late == Players \ finished

HubLeave ==
    /\ hub = "loop" /\ AllCounted
    /\ hub' = "close"
    /\ UNCHANGED <<now, clients, inbox, threads, channel, gameStarted, scores, links,
                   raceStart, firstFinish, informed, greeted, stop>>

HubTimeout ==
    /\ hub = "loop" /\ ~AllCounted /\ TimedOut
    /\ finished' = finished \cup Late
    /\ timeTaken' = [i \in Players |-> IF i \in Late THEN DNF ELSE timeTaken[i]]
    /\ finishedPlayers' = finishedPlayers + Cardinality(Late)
    /\ Broadcast({})
    /\ hub' = "close"
    /\ UNCHANGED <<now, clients, inbox, threads, channel, gameStarted, progress,
                   raceStart, firstFinish, informed, greeted, stop>>

HubWait ==
    /\ hub = "loop" /\ ~AllCounted /\ ~TimedOut
    /\ hub' = "pop"
    /\ UNCHANGED <<now, clients, inbox, threads, channel, gameStarted, scores, links,
                   raceStart, firstFinish, informed, greeted, stop>>

\* event_queue_pop gives up after 50 ms, and only with an empty queue.
HubIdle ==
    /\ hub = "pop" /\ queue = <<>>
    /\ hub' = "loop"
    /\ UNCHANGED <<now, clients, inbox, threads, channel, gameStarted, scores, links,
                   raceStart, firstFinish, informed, greeted, stop>>

\* It hands over the oldest event, here of player i.
Dequeue(type, i) ==
    /\ hub = "pop" /\ queue # <<>>
    /\ Head(queue).type = type /\ Head(queue).player = i
    /\ queue' = Tail(queue)
    /\ hub' = "loop"
    /\ UNCHANGED <<now, clients, inbox, threads, closed, refused, gameStarted, raceStart,
                   informed, greeted, stop>>

Racing(i) == i \notin finished /\ i \notin disconnected

\* Player i gets its result.
Decide(i, time) ==
    /\ finished' = finished \cup {i}
    /\ timeTaken' = [timeTaken EXCEPT ![i] = time]
    /\ finishedPlayers' = finishedPlayers + 1

HubWord(i) ==
    /\ Dequeue(WORD, i)
    /\ IF Racing(i) /\ progress[i] < TotalWords
       THEN /\ progress' = [progress EXCEPT ![i] = @ + 1]
            /\ Broadcast({})
       ELSE UNCHANGED <<progress, links>>
    /\ UNCHANGED <<finishedPlayers, finished, timeTaken, firstFinish>>

\* Fault: no lower bound on the elapsed time (TimesWithinRace).
ElapsedUnclamped(ts) == ts - raceStart

\* Server-authoritative time; an event stamped before the start counts as 0.
Elapsed(ts) == IF ts < raceStart THEN 0 ELSE ts - raceStart

\* Fault: one word too few accepted (HonestFinish).
WordsAlmostSuffice(i) == progress[i] >= TotalWords - 2

WordsSuffice(i) == progress[i] >= TotalWords - 1

\* The sentence is finished: all words but the last, which '2' stands for, were seen.
HubFinish(i) ==
    /\ Dequeue(FINISH, i)
    /\ Racing(i) /\ WordsSuffice(i)
    /\ Decide(i, Elapsed(Head(queue).ts))
    /\ progress' = [progress EXCEPT ![i] = TotalWords]
    /\ firstFinish' = IF firstFinish = None THEN now ELSE firstFinish
    /\ Broadcast({})

\* A '2' too early disqualifies.
HubPremature(i) ==
    /\ Dequeue(FINISH, i)
    /\ Racing(i) /\ ~WordsSuffice(i)
    /\ Decide(i, DNF)
    /\ Broadcast({})
    /\ UNCHANGED <<progress, firstFinish>>

\* A '2' of a player that is decided, or marked disconnected by a broadcast, is dropped.
HubIgnoreFinish(i) ==
    /\ Dequeue(FINISH, i)
    /\ ~Racing(i)
    /\ UNCHANGED <<scores, links, firstFinish>>

HubDisconnect(i) ==
    /\ Dequeue(DISCONNECT, i)
    /\ IF i \notin finished
       THEN Decide(i, DNF) /\ Broadcast({i})
       ELSE /\ UNCHANGED <<finishedPlayers, finished, timeTaken>>
            /\ IF i \notin disconnected THEN Broadcast({i}) ELSE UNCHANGED links
    /\ UNCHANGED <<progress, firstFinish>>

\* event_queue_close.
HubClose ==
    /\ hub = "close"
    /\ closed' = TRUE
    /\ hub' = "unblock"
    /\ UNCHANGED <<now, clients, inbox, threads, queue, refused, gameStarted, scores, links,
                   raceStart, firstFinish, informed, greeted, stop>>

\* Fault: the readers are joined without being unblocked (RaceEnds).
HubJoinsAtOnce ==
    /\ hub = "unblock"
    /\ hub' = "join"
    /\ UNCHANGED <<now, clients, inbox, threads, channel, gameStarted, scores, links,
                   raceStart, firstFinish, informed, greeted, stop>>

\* shutdown(SHUT_RD) of every socket still held, so that no reader stays in recv().
HubUnblock ==
    /\ hub = "unblock"
    /\ socket' = [i \in Players |-> IF socket[i] = "open" THEN "rdshut" ELSE socket[i]]
    /\ hub' = "join"
    /\ UNCHANGED <<now, clients, inbox, threads, channel, gameStarted, scores, disconnected,
                   raceStart, firstFinish, informed, greeted, stop>>

\* pthread_join of each thread in turn: passed when all have returned.
HubJoin ==
    /\ hub = "join"
    /\ \A i \in Players : reader[i] = "done"
    /\ hub' = "results"
    /\ UNCHANGED <<now, clients, inbox, threads, channel, gameStarted, scores, links,
                   raceStart, firstFinish, informed, greeted, stop>>

\* The times go to every player still connected; a failed send marks its player.
HubResults ==
    /\ hub = "results"
    /\ LET to == {i \in Players : Connected(i)} IN
       \E F \in SendFailures(to) :
          /\ disconnected' = disconnected \cup F
          /\ informed' = to \ F
    /\ hub' = "done"
    /\ UNCHANGED <<now, clients, inbox, threads, channel, gameStarted, scores, socket,
                   raceStart, firstFinish, greeted, stop>>

-----------------------------------------------------------------------------
Client(i) == (\E b \in Bytes : ClientSend(i, b)) \/ ClientClose(i)

Thread(i) ==
    \/ LobbyWake(i) \/ LobbyPeek(i) \/ LobbyLeave(i)
    \/ ReaderCheck(i) \/ RecvByte(i) \/ RecvEnd(i) \/ ReaderPush(i)

HubEvent ==
    \E i \in Players :
        HubWord(i) \/ HubFinish(i) \/ HubPremature(i) \/ HubIgnoreFinish(i) \/ HubDisconnect(i)

HubGreets == \E i \in Players : HubGreetTest(i) \/ HubGreetSend(i)

HubStep ==
    \/ HubScan \/ HubGreets \/ HubGreet \/ HubStart
    \/ HubLeave \/ HubTimeout \/ HubWait \/ HubIdle \/ HubEvent
    \/ HubClose \/ HubUnblock \/ HubJoin \/ HubResults

\* The race is over and every client has gone quiet: nothing more needs to happen.
Over == hub = "done" /\ UNCHANGED vars

Next ==
    \/ \E i \in Players : Client(i) \/ Thread(i)
    \/ HubStep
    \/ StopShutdown \/ StopRelease
    \/ Tick
    \/ Over

Spec == Init /\ [][Next]_vars

\* Every thread is scheduled and time passes; clients owe nothing, not even to fall silent.
Fairness ==
    /\ WF_vars(HubStep) /\ WF_vars(Tick) /\ WF_vars(StopRelease)
    /\ \A i \in Players : WF_vars(Thread(i))

FairSpec == Spec /\ Fairness

-----------------------------------------------------------------------------
(* Properties. *)

AfterLoop == hub \in {"close", "unblock", "join", "results", "done"}

\* The hub stops on a counter, game->finishedPlayers, that four different branches raise:
\* it always equals the number of players whose finished flag is set, so no player is
\* counted twice, and the loop is left only with a verdict for everybody.
EveryoneCountedOnce ==
    /\ finishedPlayers = Cardinality(finished)
    /\ AfterLoop => finished = Players

\* Two verdicts never compete: as long as the hub pops events, no event is left of a
\* player who already has a verdict.  It rests on each reader returning after the one
\* event that ends its player's race.
OneVerdictPerPlayer ==
    hub \in {"loop", "pop"} =>
        \A k \in 1 .. Len(queue) : queue[k].player \notin finished

\* An unfinished player whom no broadcast has given up on, and none of whose events was
\* refused, still has someone to report him: a running thread or a queued last event.
NobodyForgotten ==
    \A i \in Players \ (finished \cup disconnected \cup refused) :
        \/ reader[i] # "done"
        \/ \E k \in 1 .. Len(queue) : queue[k].player = i /\ queue[k].type \in Terminal

\* Anti-cheat: a time is only ever given to a client that sent all words but the last, and
\* no client is credited with more words than it sent, save the last one '2' stands for.
HonestFinish ==
    \A i \in Players :
        /\ timeTaken[i] # DNF => progress[i] = TotalWords /\ words[i] >= TotalWords - 1
        /\ timeTaken[i] = DNF => progress[i] <= words[i]

\* Times are server-authoritative: they lie within the race, and the grace countdown runs
\* exactly when somebody has a time, from a moment not before that player finished.
TimesWithinRace ==
    /\ \A i \in Players : timeTaken[i] # DNF => timeTaken[i] <= now - raceStart
    /\ firstFinish # None <=> \E i \in Players : timeTaken[i] # DNF
    /\ firstFinish # None =>
         \E i \in finished : timeTaken[i] # DNF /\ timeTaken[i] <= firstFinish - raceStart

\* In its loop and with the results the hub tests activeSocket and then sends on it without a
\* lock: that is safe, because no descriptor is closed once the race has started.  Before the
\* start, while the hub greets the players, that does not hold; but a descriptor is closed then
\* only under a client that has gone, or in a room that is being destroyed.
NoCloseAfterStart ==
    [][\A i \in Players : socket[i] # "closed" /\ socket'[i] = "closed" =>
          /\ ~gameStarted /\ hub \in {"scan", "greet", "start"}
          /\ peer[i] = "closed" \/ stop # "no"]_vars

\* The comment at server.c:422 promises to account for the players who disconnected in the
\* lobby before the race starts: at the start each of them would have a verdict.
LobbyLeaversAccounted ==
    hub \in {"loop", "pop"} => \A i \in Players : socket[i] = "closed" => i \in finished

\* The engine's race as RaceContract sees it.
phase ==
    CASE hub = "scan" -> "lobby"
      [] hub \in {"greet", "start", "loop", "pop"} -> "racing"
      [] hub \in {"close", "unblock", "join", "results"} -> "settled"
      [] hub = "done" -> "announced"

verdict == [i \in Players |-> IF i \in finished THEN timeTaken[i] ELSE Pending]

Promise == INSTANCE RaceContract WITH Times <- Time

\* Every step of the engine is a step of the contract or changes nothing it speaks of.
KeepsContract == Promise!Contract

\* A client's bytes keep its reader busy.
ReaderBusy == \E i \in Players : reader[i] # "done" /\ inbox[i] # <<>>

\* Under fair scheduling everybody has a verdict in the end, whatever the clients do, and no
\* lost event holds the hub for ever.  The results go out, or a client never stops sending:
\* SHUT_RD does not stop what arrives, so it may hold its reader, and with it the hub's
\* pthread_join (server.c:659).  A silent client holds nothing: no reader stays in recv().
RaceEnds == []<>(phase = "announced" \/ (phase = "settled" /\ ReaderBusy))

-----------------------------------------------------------------------------
(* The inductive invariant behind the safety properties. *)

\* What is counted, who holds an event, and what each stage of the hub has established.
Bookkeeping ==
    /\ \A i \in Players : words[i] + budget[i] <= ByteBudget
    /\ \A i \in Players : reader[i] = "push" => hand[i] \in Event /\ hand[i].player = i
    /\ hub \notin {"scan", "greet"} => raceStart # None
    /\ hub = "scan" => finished = {}
    /\ EveryoneCountedOnce

\* No event of player i is queued.
Silent(i) == \A k \in 1 .. Len(queue) : queue[k].player # i

\* A queued last event ends its player's stream: the reader has returned and nothing of that
\* player is behind it.  A player with a verdict has no events left and no reader to add one,
\* nor has one who left in the lobby.
Streams ==
    /\ \A k \in 1 .. Len(queue) : LastEvent(queue[k]) =>
          /\ reader[queue[k].player] = "done"
          /\ \A m \in k + 1 .. Len(queue) : queue[m].player # queue[k].player
    /\ \A i \in Players : socket[i] = "closed" => reader[i] = "done" /\ Silent(i)
    /\ \A i \in Players : reader[i] \in {"lobby", "leaving"} => Silent(i)
    /\ ~AfterLoop => \A i \in finished : reader[i] = "done" /\ Silent(i)

\* A lobby thread between its peek and its return holds startMutex, so the start signal waits
\* for it; a player whose socket it closed is marked disconnected, and before the start
\* nobody else is.  It has found its client gone, or the room being destroyed: before the start
\* nothing else ends a connection.
Lobby ==
    /\ \A i \in Players : reader[i] = "leaving" => ~gameStarted
    /\ \A i \in Players : socket[i] = "closed" => i \in disconnected
    /\ hub \in {"scan", "greet", "start"} => \A i \in disconnected : socket[i] = "closed"
    /\ hub \notin {"scan", "greet", "start"} => gameStarted
    /\ ~gameStarted /\ stop = "no" => \A i \in Players : socket[i] \in {"open", "closed"}
    /\ \A i \in Players : reader[i] = "leaving" => peer[i] = "closed" \/ stop # "no"

IInv == TypeOK /\ Bookkeeping /\ Streams /\ Lobby /\ NobodyForgotten

\* What was stamped was stamped in the past, nobody has a time before the race starts or
\* without a verdict.
Stamps ==
    /\ raceStart <= now
    /\ \A k \in 1 .. Len(queue) : queue[k].ts <= now
    /\ \A i \in Players : reader[i] = "push" => hand[i].ts <= now
    /\ hub \in {"scan", "greet"} => \A i \in Players : timeTaken[i] = DNF
    /\ \A i \in Players : timeTaken[i] # DNF => i \in finished

\* The words of player i on their way to the hub: not read, in its thread's hand, queued.
WordsUnread(i) == {k \in 1 .. Len(inbox[i]) : inbox[i][k] = WORD}
WordsInHand(i) == IF reader[i] = "push" /\ hand[i].type = WORD THEN 1 ELSE 0
WordsQueued(i) == {k \in 1 .. Len(queue) : queue[k].player = i /\ queue[k].type = WORD}

\* A client has sent the words it is credited with and those on their way besides: none is
\* counted twice.
Credit ==
    \A i \in Players : timeTaken[i] = DNF =>
        progress[i] + Cardinality(WordsQueued(i)) + WordsInHand(i)
            + Cardinality(WordsUnread(i)) <= words[i]

ResultsInv == IInv /\ Stamps /\ TimesWithinRace /\ Credit /\ HonestFinish
=============================================================================
