# Formal models of console-typeracer

TLA+ models, model-checking runs and machine-checked proofs for the multiplayer
typing-race system in this repository: a game engine in C, a native terminal
client in C, and a Node gateway between browsers and the engine. Source lines
are quoted as `file:line`; `server.c` is `src/server/server.c`.

Contents: 1 inventory, 2 modules and how they correspond to the code, 3 runs and
bounds, 4 fairness, 5 proofs, 6 findings, 7 what is not modelled, 8 plan.

## 1. Inventory

### Components

| Component | Code | State it keeps | Operations |
|---|---|---|---|
| Coordinator | `server.c` 706-1031, 1419-1531 | `gRoomHead` (list of `RoomHub`s) under `gCoordinatorMutex`, `gCoordinatorRunning`, `gActiveConnectionWorkers` | accept connections, prune rooms, stop; create, find, extract and destroy rooms |
| Connection worker (a detached thread per connection) | `server.c` 1039-1417 | its socket and its command | INFO, CREATE, SUMMARY, JOIN |
| Room runner (a thread per room) | `server.c` 770-801 | `hub->state` | waits for a full room, runs the race, writes the summary |
| Race hub (in the runner) | `server.c` 412-704 | `finishedPlayers`, `finished`, `timeTaken`, `progress`, race start, first finish | scans the lobby, starts the race, handles events, times out, collects the readers, sends results |
| Player thread | `server.c` 184-290 | the player's socket, `disconnected` | lobby loop (100 ms waits and a peek at the socket), reader loop (bytes to events) |
| Event queue | `eventQueue.c` | list of events, `count`, `closed` | push, pop with a timeout, close, destroy |
| Sentence cache, source validator | `server.c` 17-75, `sourceValidator.c` | `gCachedSentences` under `gSentenceCacheMutex` | read and validate the input file, pick a sentence, count and split its words |
| JSON messages, sockets | `jsonHandler.c`, `socket.c` | none | serialise, `send_all`, connect, listen |
| Engine entry point | `server/main.c` | none | signals, start, stop |
| Native client | `client.c`, `client/main.c` | typed word, word index, `activeSocket`, `hasFinalTimes`, `serverDisconnected`, the refresh thread's `accum` | menu, join, typing loop, refresh thread, leaderboard, end |
| Gateway: sessions | `gateway.js` 231-521 | per WebSocket: engine connection, `rawBuffer`, `hasStarted`, lobby timeout, heartbeat | relay between a browser and the engine |
| Gateway: REST | `gateway.js` 24-229 | per request: a connection of its own and its timer | POST /api/lobbies (CREATE), GET (INFO, SUMMARY) |
| Gateway: configuration | `config.js` | none | reads the environment once |

### How they interact

* A TCP connection gets a connection worker. INFO, CREATE and SUMMARY are
  answered and the connection closes. A JOIN registers a player in a room, starts
  that player's thread and ends the worker; the connection is now the player's.
* The JOIN that fills a room signals `roomCond`; the runner marks the room in
  progress and runs the hub. The hub sets `gameStarted` under `startMutex`, which
  lets the player threads out of the lobby loop.
* A player thread turns '3' into a word event and '2' into a finish event, pushes
  them to the room's queue, and pushes one disconnect event when its connection
  ends. The hub pops events, decides who finished, and broadcasts progress.
* When everybody has a verdict or a timeout expires, the hub closes the queue,
  shuts the sockets down for reading, joins the player threads and sends the times.
* A finished room is destroyed by whichever comes first: the main thread's pruning,
  a CREATE or JOIN for the same code, or the stop. Destruction shuts the sockets
  down, gives the start signal, wakes the runner, joins the runner and the player
  threads, and frees everything.

* The gateway opens one connection per browser, sends a JOIN on it and relays both ways;
  for a REST request it opens one that carries a single command.
* In the native client the typing thread sends on the socket the refresh thread reads
  and may close; they share a mutex and two flags, and main() joins both ends.

### What is hard about it

* Five mutexes (`gCoordinatorMutex`, `roomMutex`, `startMutex`, the queue's and the
  sentence cache's), nested in several orders: a lobby thread takes `roomMutex` while
  it holds `startMutex` (193, 215), JOIN joins that thread while it holds
  `roomMutex` (1354), and destroys another room while it holds a new room's
  `roomMutex` (1315).
* Flags read and written without a lock: `disconnected` and `activeSocket` by the
  hub and the readers, `closeRequested` by the destroyer and the runner.
* A player can leave at every stage, and who counts him depends on the stage: the
  lobby thread, the hub's scan, a disconnect event, a failed broadcast, a timeout.
* The hub ends its loop on a counter that six places raise.
* State checked, a lock released and taken again, and state used (1279-1310,
  1015-1023).
* Shutdown while commands are in flight.
* Streams without message boundaries at both receivers: the client counts braces in a
  buffer of 4096 bytes, the gateway counts them outside of JSON strings.
* Two ends that may go first, several handlers that report the same failure, and timers
  that race the event they wait for (gateway).
* select() on a descriptor whose bytes the C library has already taken (client).
* A room built in eight steps, any of which may fail, and unwound at three places.

### What makes each component correct

* Hub and player threads: each player is counted exactly once; a verdict is never
  revised; a time is given only to a client that typed the sentence, and lies within
  the race; nobody is left without somebody to report him; once the race has started no
  socket is closed while the hub may send on it; everybody gets a verdict, and the results
  go out unless a client never stops sending. The greeting before the start is not
  protected: see section 6.
* Queue: first in first out, bounded, drops only when full or closed; no lost wakeup.
* Coordinator: the list holds at most the limit of rooms with distinct codes; a room
  is freed once and only when nobody uses it; each player's thread is joined; a race
  starts with a full room and nobody joins it later; every command is answered;
  a full room starts; a destruction ends, unless a stop has missed a player (section 6).
* Client: whatever is typed, what is sent is a beginning of what the engine takes for an
  honest race; the cursor follows the text; the socket is closed once and not used after;
  results that arrive are not lost; the race ends when the engine is gone, and the client
  once Enter is pressed.
* Gateway sessions: the engine sees JOIN first (not always: section 6); a browser gets every message of the race,
  in order; at most one error, as the last thing; neither connection outlives the other;
  a silent browser does not wait in a lobby for ever.
* Room construction: no block of memory is lost or freed while a room uses it; the HTTP
  answer is true of the engine; a room's sentence has words.

## 2. Modules

| Module | Models | Kind |
|---|---|---|
| `RaceContract` | what a race promises its players | abstract specification |
| `Race` | `runGameHub`, `handleClient`, the clock, and the part of `coordinator_destroy_room` that interferes | detailed |
| `RaceProofs` | theorems about `Race` | proofs |
| `Channel` | what the event queue promises | abstract specification |
| `EventQueue` | `eventQueue.c`: mutex, condition variable, linked list | detailed |
| `EventQueueProofs` | theorems about `EventQueue` | proofs |
| `Lobby` | what the coordinator promises about rooms | abstract specification |
| `Coordinator` | room list, room runner, lobby threads, connection workers, main thread, room destruction | detailed |
| `CoordinatorProofs` | theorems about `Coordinator` | proofs |
| `Words` | `sourceValidator.c`: which lines are sentences, how engine and client count words | pure functions |
| `LoopProofs`, `WordsProofs` | induction over the rounds of a loop; theorems about `Words` | proofs |
| `Client` | the native client: `menu`, `main`, `gameLoop`, `refreshScreen`, `showResults`' sort, `gameDestroy` | detailed |
| `ClientProofs` | theorems about `Client` | proofs |
| `Session` | one WebSocket session of the gateway | detailed |
| `SessionProofs` | theorems about `Session` | proofs |
| `RoomSetup` | POST /api/lobbies from the HTTP request through CREATE to the room's memory and back | composition of gateway and engine |
| `RoomSetupProofs` | theorems about `RoomSetup` | proofs |
| `MCRace`, `MCEventQueue`, `MCCoordinator`, `MCClient`, `MCSession`, `MCRoomSetup` | instances for TLC | |

`Race` implements `RaceContract` (`KeepsContract`), `EventQueue` implements
`Channel` (`KeepsChannel`), `Coordinator` implements `Lobby` (`KeepsLobby`), each by
an `INSTANCE` with a refinement mapping. `EventQueue` justifies that `Race` makes
each queue operation one step; `Race` justifies that `Coordinator` makes a race one
long stay in its runner; `Coordinator` justifies that `RoomSetup` makes what happens
under `gCoordinatorMutex` one step. `Client` meets `Race` in the bytes it sends:
`SendsWhatEngineCounts` is stated with the engine's own count of the words (`countWords`
of `Words`), from which `runGameHub` takes the `TotalWords` of `Race`. `RoomSetup`
and `Client` take their sentences from the same file through `Words`, which is why
`RoomsPlayable` matters to the client: it refuses a race without words
(`client/main.c:287`).

A definition whose comment starts with "Fault:" is not part of a specification. It
is the definition after it with a plausible mistake; substituting it makes TLC
refute the property named in the comment.

### Race

State: `now` is the monotonic clock; per player `socket` (the engine's end: open, shut for
reading, shut, closed), `peer`, `inbox` (bytes received and not read); `reader` and `hand` are a
`handleClient` thread's place and the event it holds; `queue`, `closed` the event queue;
`gameStarted`, `finishedPlayers`, `finished`, `disconnected`, `timeTaken`, `progress` the `Game`
and `Player` fields; `hub`, `raceStart`, `firstFinish` the locals of `runGameHub`; `greeted` how
far the greeting of each player is; `stop` how far `coordinator_destroy_room` is. `refused`,
`words` and `informed` are history.

Actions: one per step of `handleClient` between points where another thread may interfere
(`LobbyWake` ... `ReaderPush`), one per branch of the hub's loop (`HubWord`, `HubFinish`,
`HubPremature`, `HubIgnoreFinish`, `HubDisconnect`, `HubTimeout`, ...) and one per stage around
it (`HubScan`, `HubGreet`, `HubStart`, `HubClose`, `HubUnblock`, `HubJoin`, `HubResults`). The
greeting of a player is two steps, `HubGreetTest` and `HubGreetSend`, because nothing protects
what the first finds. Clients send bytes, hang up, or reset (losing what was not read) at any
time.

Abstractions: a broadcast is part of the step that makes it, since it touches each player's flag
and socket separately; the scan and the join over all players are single steps for the same
reason. A send may fail for any player. Stamps are kept only on finish events, the only ones
read. A client is silent after its '2' (what follows is drained); bytes the engine ignores it
may send for ever, also after its connection was shut down for reading, which does not stop what
arrives. Allocation failures are left out. Names, sentences and JSON are left out.

### EventQueue

State: `mutex`; `head`, `tail`, `count`, `closed`, and per node `next` and `event`;
`used`, the nodes allocated; per thread its place in an operation. Taking the mutex
is one step and what is done under it another. A wait may end by a signal, by its
timeout, or for no reason (at most `Spurious` times). The system has one consumer,
and `test_unit.c:196` calls the queue MPSC, so there is at most one waiter. Allocation
failure, which would drop the event as a full queue does, is left out.

### Coordinator

State: `running`, `main`, `coord` (holder of `gCoordinatorMutex`), `listed`
(`gRoomHead` as a set), `doom` (rooms a thread has taken from the list and must
destroy); per room its code, state, slots, `closeRequested`, `started`
(`gameStarted`), the place of its runner, the holder of `roomMutex`, and how far its
destruction is; per connection the place of its worker and, after a JOIN, of its
player's thread and socket. A step is the code between two points where a thread may
block. JOIN's path is `WorkerReads`, `WorkerLocks` (takes `gCoordinatorMutex`), `JoinFound`
or `JoinCreates`, `JoinEnter` (takes `roomMutex`, releases `gCoordinatorMutex`), the
destruction of a replaced room, `JoinRegister` or `JoinRefused`. Pruning a room is
`PruneLook`, the decision under `roomMutex`, and `PruneTake`, the removal after that mutex
is free again; `picked` is the room in between.

Abstractions: the order of the list is not kept, because nothing depends on it. A
room may be found old enough to be pruned at any pass. A race is its start, the end
of its event loop and the join of its readers, in between anything may take any time.
A freed `RoomHub` identifier may be allocated again, so a stale use would be seen.
Condition variables do not wake without a signal. After the main thread has ended,
threads may go on: the process exits at some time after it.

### Words

Texts are sequences of characters, a few of which matter (blanks, line ends, letters;
`"SP"`, `"CR"`, `"LF"` and `"TAB"` stand for white space). Each loop is a recursive function of
the characters passed (`CountUpTo`, `SplitUpTo`, `CharsUpTo`). `WordsAssumption` says of
isalpha() that no white space is a letter.
`countWords` is the engine's loop, `parseSentence` the client's strtok_r, `validateLine`
and `CutAtLineEnd` decide what becomes of a line of the input file.

### Client

State: `stage` is where main() is; `sock` the descriptor (open, shut down, closed) and
`activeSocket` the field that holds it; `engine` and `stream` the far end; `words` ...
`localFinished` the typing state; `typist`, `mutex`, `refresh` where the two threads are;
`hasFinalTimes` and `serverDisconnected` the flags they share; `tty` and `stdio` the
kernel's and the C library's buffers for the keyboard. `closes` and `misdirected` are
history.

Actions: one per branch of `gameLoop` for a key (`KeyEscape`, `KeyErase`, `KeyIgnored`,
`KeyWordDone`, `KeyTyped`), with the look at the flags before it (`ReadKey`, `LeaveLoop`) and
the end of the loop in three steps (`CheckSocket`, `Shutdown`, `Join`), because `activeSocket`
is read without the mutex; of the refresh thread one per recv() with what it does to the buffer
(`Receive`) and one per section under the mutex; of main() one per stage, the last of them the
wait for Enter (`Prompt`, `Finish`). A key is the sequence of bytes its terminal sends; a recv()
returns any number of tokens. The menu is its selected item and the bytes of an escape sequence
it has read.

Abstractions: drawing, the prompts for host, lobby and name, the countdown (what the
engine sends meanwhile waits in the socket) and allocation failures are left out. A
progress message is three tokens, so that it can be cut inside. All results with times
from `Times` are sorted at once, where the leaderboard is drawn; the two loops of the sort are
`SortUpTo` and `PassUpTo`.

### Session

State: `ws` and `toBrowser` (the types of the messages sent), `tcp`, `pending` (written
before the connection is up), `toEngine`, `stream`, `rawBuffer`, `hasStarted`, `timer`
(off, set, or due), `heartbeat`; `engine` and `seat` are the engine's end. One action per
handler (`Connected`, `Timeout`, `Data`, `TcpError`, `TcpEnd`, `Message`, `WsClose`, `Heartbeat`),
as Node runs a handler to its end before the next. The sentence in the first object is a
JSON string that may hold braces, quotes, backslashes and the word of a rejection.
`Data` reads the buffer with `Scan`, one `Step` per character: the brace depth, the string
and escape flags, where the last complete object ends and of what types the complete ones
are. `JsonString` says which sentences cJSON can have written.

Outside of `src/`, modelled from its use: Node's sockets (a write before the connection is
up is kept and goes out first; destroy() drops what is unread; the timeout of an idle socket
starts anew with every read and write, `Restarted`) and the WebSocket library (a closing
handshake ends).

Abstractions: the trimming of a buffer over 64 KB (no message is that long), the '0.00'
behind a '2' (the engine drops it, `NOISE` in `Race`), names and codes.

### RoomSetup

State: per request where the gateway is, what it asked for and what it answered; where
the engine's worker is and what it has said; `rooms` (the list by code) and `finished`;
`heap`, the blocks of memory in use; `detached`, the room a worker must still destroy;
`input` and `cached`, the file and what the engine remembers of it.

Actions: `Post`, `Command`, `Answered`, `Rejected` of the gateway; `CreateRefused`,
`NoPlace`, `ConstructionFails`, `CreateRoom`, `DestroyAndReply` of the worker; races end,
rooms are pruned and the file is edited at any time. A construction fails at any of
eight places: `Held` says what has been allocated by then, `Unwound` what the code
frees there.

Abstractions: a block is a name. Only allocations the code tests may fail; 856-859 are
not tested, so running out of memory there ends the process. Players and their memory
are left to `Coordinator`.

## 3. Runs and bounds

| Run | Question | Bounds | Distinct states |
|---|---|---|---|
| `race_safety` | all interleavings of a race: words and finishes in any order, premature finishes, refused events, broken connections, failing sends, both timeouts | 2 players, 2 words, queue of 2, 2 bytes per client, clock to 2 | 1.08 million |
| `race_liveness` | everybody has a verdict in the end and the results go out unless a client never stops sending, the room destroyed at any moment, before `raceStart` is recorded included; every time lies within the race | 2 players, 1 word, queue of 1, one byte per client besides ignored ones, clock to 3 with one tick before the start | 955 thousand |
| `race_lobby_gap` | a finding, section 6 | as `race_safety` | stops at the counterexample |
| `event_queue` | safety, refinement and no lost wakeup | 2 producers with 2 pushes, capacity 2, 3 nodes, 1 spurious wakeup | 177 thousand |
| `coord_rooms` | JOIN and CREATE, replacement, slot recycling, pruning, a stop at any moment, no room freed while used | 2 room allocations, 3 connections, 2 codes, rooms for 2, limit of 1 room, 2 workers | 817 thousand |
| `coord_liveness` | commands answered, full rooms start, destructions end, with finished rooms replaced and a stop at any moment | 2 allocations, limit of 1 room, 2 connections, 1 code, rooms for 1, all four commands | 196 thousand |
| `coord_stop_gap` | a finding, section 6 | 1 room for 2, 2 connections | stops at the counterexample |
| `client` | both threads and main() over one socket; any keys; the engine refuses, starts, ends or vanishes | 3 keys of six kinds, three lines in the file, 1 progress message, pieces of up to 2 tokens, a word of 2 characters, 3 players in the results | 177 thousand |
| `client_escape` | a finding, section 6 | one sentence, two kinds of keys | stops at the counterexample |
| `gateway_session` | one session against every order of events | any number of messages of the browser, 2 of them recorded, 1 progress message besides the first, three sentences, pieces of any length | 29 thousand |
| `gateway_early_key` | a finding, section 6 | as `gateway_session` | stops at the counterexample |
| `create_room` | rooms made, replaced, pruned and failed; the truth of the HTTP answers | 2 requests, 2 codes, limit of 1 room, 3 sizes asked for, two file contents | 112 thousand |

Why the bounds are enough for what they check:

* `QueueCapacity` is reached by the players of the run, so refused events happen.
* `RaceMax` and `Grace` are one tick, so both timeouts fire before, between and after
  the events; `MaxClock` lies beyond the last moment at which the clock decides
  anything. `PreStartTicks` > 0 gives the readers a clock value before the start.
* `TotalWords = 2` distinguishes a finish after one word (accepted) from one after
  none (premature); with 1 a lone '2' is accepted.
* `ByteBudget` lets each client send the whole sentence, or a wrong one. It does not bound the
  ignored bytes, of which a client may send any number; it bounds how many wait unread.
* Two allocations and a limit of one room make a new room coexist with the one being
  destroyed, which is what replacement and the stop are about; the limit refuses a
  third. Three connections fill a room and leave one to join late, find it full, take
  over a vacated slot or ask for another code. In `coord_liveness` a room is full with one
  player, so that two connections suffice for a race and the CREATE or JOIN that replaces
  its room. A limit of one makes distinct codes trivial in a run; the theorem of section 5
  has any limit.
* `client`: the sentences are two words with a tab between, or none (a line that is cut to
  nothing); three keys suffice for either word with its space, or a word, an erasure and
  more junk than `playerWord` holds. Pieces of two tokens cut every object inside and also
  deliver the end of one with the start of the next. As in the
  code (4096 bytes against pieces of 255), the buffer has room for the longest incomplete
  message and a piece, so the branch that makes room in it is modelled and never needed.
* `gateway_session`: behind the recorded messages only the lobby timeout tells one more from
  none, and that is kept (`MessageAgain`). The three sentences hold an escaped quote before a
  brace, a brace and an escaped backslash at the end, and the word of a rejection; they are what
  a scanner that ignores quotes or escapes gets wrong. A piece may be the whole stream.
* `create_room`: one place and two codes make a request fail for the limit, replace a
  finished room, or find its code taken; the sizes are none, the least and one above both
  limits.
* The contract of a race and the counting hold for any number of players by the proofs of
  section 5, so no run has more than two.
* Three nodes for a capacity of two leave a freed node to be reused while another is live.

Symmetry is used in safety runs only, over identifiers the specification never
distinguishes.

## 4. Fairness

* `Race`: weak fairness for the hub, for each player thread, for the clock and for the
  second half of a destruction that began. Threads are scheduled, `pthread_cond_timedwait`
  and the 50 ms pop return, time passes. `Tick` is bounded by `MaxClock`, which is
  beyond both timeouts. Clients owe nothing: everybody has a verdict whatever they do. The
  results are another matter: the hub joins every reader first (659), SHUT_RD does not stop
  what still arrives, and a client that keeps sending bytes other than '2' keeps its reader
  reading. `RaceEnds` therefore says that the results go out or such a reader is still busy;
  a silent client holds nothing up.
* `EventQueue`: a pop, push, close or destroy that began goes on; the pop gets the mutex
  it waits for if it is free again and again (strong fairness). Nobody has to push or close.
* `Coordinator`: weak fairness for the main thread, the runners, the destructions and the
  players' threads; strong fairness only for a worker that has its command, because it waits for
  `gCoordinatorMutex`, which the main thread takes at every pass. A reader returns for sure
  only when its client has left or both ends of its connection are shut down. Clients owe
  nothing: not to hang up, to finish or to fall silent, and no worker is promised a command. It
  is not assumed to give up either, since `SO_RCVTIMEO` (1056) bounds one recv() and the
  line (1061-1071) and what is behind its 127 bytes (1080-1087) take any number of them.
  `CommandsAnswered` speaks of the commands that have been read. `RoomsFreed` leaves out one
  case: at the stop, a player whose JOIN was under way when the sockets were shut down, and
  who stays; that is the finding of `coord_stop_gap`.
* `Client`: weak fairness for main(), the typing thread and the refresh thread. The engine
  need not send or end anything, the player need not press anything. So the client need not
  end: after the race it waits for Enter (`client/main.c:352`, 359), and `ClientEnds` says
  that it gets there, and that it is over once Enter is pressed or stdin ends. Both threads take the
  mutex for a moment and leave it free most of the time, the typing thread sleeps 50 ms in
  between, and the properties need it only while the other thread is gone or asleep.
* `Session`: Node delivers what has arrived (`Data`, `TcpEnd`, `TcpError`), a socket that nobody
  uses becomes idle (`Idle`), its timeout then fires (`Timeout`), and a closing WebSocket closes, if
  need be by the library's timer. The engine and the browser owe nothing. A browser that
  sends again and again puts the timeout off each time (`gateway.js:490-495`) and may wait in a
  lobby for ever; that a session leaves its lobby is claimed for a browser that falls silent.
* `RoomSetup`: the gateway's callbacks and its timer run. The engine may hang.

## 5. Proofs

Eight modules hold proofs that TLAPS checks, for every value of the constants that the module's
assumption allows. Every safety property the passing runs check is a theorem of the
specification; a run shows it on a small instance, cheaply and first, the theorem for all of
them. Each proof rests on an inductive invariant at the end of the module it is about; on
the instances of section 3 TLC finds each of them true. Each action has a step or a lemma of its own,
and under it one step per conjunct the action can disturb.

| Proofs | Theorem | Property |
|---|---|---|
| `RaceProofs` | `TypeCorrect` | `TypeOK`: among others `Len(queue) <= QueueCapacity`, `progress <= TotalWords` |
| | `CountExact`, `OneVerdict`, `NoneForgotten` | `EveryoneCountedOnce`, `OneVerdictPerPlayer`, `NobodyForgotten` |
| | `SocketsStay` | `NoCloseAfterStart` |
| | `TimesSound`, `FinishIsHonest` | `TimesWithinRace`, `HonestFinish` |
| | `ImplementsContract` | `KeepsContract`: the race refines `RaceContract` |
| `EventQueueProofs` | `TypeCorrect`, `ListIsSound` | `TypeOK`, `ListSound` |
| | `ImplementsChannel` | `KeepsChannel`: the linked list refines `Channel` |
| `CoordinatorProofs` | `TypeCorrect` | `TypeOK`: among others no room's vector outgrows `maxPlayers` |
| | `ListIsSound`, `ExactlyOneOwner` | `ListSound`, `OneOwner` |
| | `FreedUnused`, `NoThreadDropped` | `FreedRoomsUnused`, `ThreadsOwned` |
| | `ImplementsLobby` | `KeepsLobby`: locks, threads and memory refine `Lobby` |
| `WordsProofs` | `WordsAgree` | `countWords` and `parseSentence` agree on every text |
| `ClientProofs` | `TypeCorrect` | `TypeOK`: among others `playerWord` and `accum` stay within their arrays |
| | `ClosesOnce`, `ShutsOpenSocket` | `ClosedOnce`, `ShutdownOfOpenSocket` |
| | `ResultsKept` | `ResultsNotLost` |
| | `CursorCorrect`, `SendsHonestRace` | `CursorFollowsText`, `SendsWhatEngineCounts` |
| | `SortsLeaderboard` | `LeaderboardSorted` |
| `SessionProofs` | `TypeCorrect`, `RelaysAll` | `TypeOK`, `RelaysInOrder` |
| | `OneErrorLast`, `ToldApart` | `OneError`, `LobbyOrRace` |
| `RoomSetupProofs` | `TypeCorrect` | `TypeOK`: among others `Cardinality(Listed) <= RoomLimit` |
| | `Leakless`, `Truthful` | `NothingLeaked`, `ReplyTruthful` |
| | `Playable` | `RoomsPlayable`, if `LinesEndOnce` holds of the files |

### Race

`IInv` is what the counting needs:

1. `TypeOK` and `Bookkeeping`: `finishedPlayers` is the cardinality of `finished`. A
   single verdict preserves it because the branch tests `finished`, the timeout because
   it adds exactly the players outside it.
2. `Streams`: a finish or disconnect event ends its player's stream, so the reader has
   returned and nothing is behind it. `finished` alone is not inductive: that a player
   with a verdict has no more events needs that his last event was the last.
3. `Lobby`: between its peek and its return a lobby thread holds `startMutex`, so the
   start waits for it; hence sockets are closed only before the start, and only after the
   client has gone or a destruction has begun.
4. `NobodyForgotten`, inductive together with the above.

`ResultsInv` adds what the results need. `Stamps`: every stamp in a reader's hand or in the queue
lies in the past, so the clamped difference to `raceStart` lies within the race. `Credit`: for a
player without a time, the words credited, queued, in his thread's hand and unread in his socket
together are no more than he has sent. `HonestFinish` alone is not inductive, since a word
event adds to `progress` and only its history says that it was sent; the sum moves from one place
to the next and never grows.

`ImplementsContract` maps each action to a contract step or a stutter; `HubTimeout`, for
example, is `Settle`, and `HubFinish` is `Finish` because `IInv` says that its player
is still pending.

### EventQueue

`IInv` adds to `ListSound` who holds the mutex at which place (`Turns`) and that each node in use
carries an event (`Contents`). The list is a function of the places of its nodes, so that a push
or a pop changes it is shown by an induction over places (`ChainOfLength` and the lemmas behind
it). `ImplementsChannel` needs two facts about waiting: a pop that takes without testing again
has a timeout (`Turns`), so only such a pop returns nothing from an open queue; and the owner
destroys the queue only when no pop is in it.

### Coordinator

`IInv` has seven parts: types; `Locks` (what a worker knows at each place, above all that the
room it is about to enter cannot leave the list while it holds `gCoordinatorMutex`); `Picking`
(a room that pruning has decided about is still as it was, because that mutex keeps everybody
out); `Stages` (the runner's place and its room's state); `Ownership` (a room that is not free
is on the list or with one thread, which has it only between taking it and its next command);
`Seats` (no two slots for one player, every player of a room joined it); `Teardown` (what each
stage of a destruction has established). `FreedRoomsUnused` follows from `Stages` and the last:
the stages collect, one after the other, that no worker is in the room, that the runner has
ended, and that all threads have returned. `ImplementsLobby` shows that each action is a step of
`Lobby` or leaves alone what it speaks of.

### Words, Client

The loops over a text, over the places of the leaderboard and over the bytes of a stream are
recursive functions. The library's induction theorems take an operator, which the provers cannot
instantiate; `LoopProofs` states induction for a set of numbers instead (`SetInduction`, from the
well-founded order of the naturals), and that a loop whose step is a function has a value in
every round (`RoundsExist`, `RoundsKeep`). With that `WordsAgree` holds for every text: after
each character the engine is inside a word exactly if the client has begun one.

`Client` has three inductive invariants, one behind another:

* `IInv` = `ControlTypes`, `Threads`, `Descriptor`, `Leaving`: the descriptor is closed exactly if
  `closes` is one; `activeSocket` still names a closed one only while the refresh thread holds the
  mutex; and the typing loop is told to end only when the refresh thread is through with the
  socket. From it `ClosedOnce` and `ShutdownOfOpenSocket`.
* `StreamInv`: buffer and stream are whole objects one behind the other, the last perhaps cut by a
  broken connection; before it waits for bytes the refresh thread has at most two tokens of
  an object left. From it `ResultsNotLost`, and that `accum` does not overflow.
* `TextInv`: until he has finished the player has sent one '3' for each word passed, and of the
  last word he has typed no more than its length and not yet the word. From it, with `WordsAgree`,
  `SendsWhatEngineCounts`.

`SortsLeaderboard` needs no invariant: the comparison is a strict weak order
(`SwapsOrder`), each round of the inner loop keeps the settled places settled and the order
complete (`RoundSorts`), so each pass settles one place more (`PassSettles`).

### Session

`Underway` is the heart of `IInv`: what was read and not relayed, followed by what is on its way,
is exactly what the engine has sent and the browser has not got. Three cases: nothing, or a
rejection, without a race; all of a race while its first object is not complete; whole objects of
three tokens, the first perhaps cut. `FirstScan` shows for every JSON string that the brace
counter finds the end of the first object at its last brace and nowhere before: inside the
string the scanner's escape flag is the one in `JsonString`. `ObjectsScan` does the same for the
objects behind it, `ScanFollows` for a buffer that ends anywhere. `Told` ties `hasStarted` to what
has been relayed, which is what keeps the lobby's timeout and the race apart.

### RoomSetup

`IInv` adds to the properties:

1. `InStep`: what the gateway's side of a request allows the worker's side to be. A worker
   that has not decided has made, said and owes nothing; without this a 413 or a lost
   connection could hide a room.
2. `Truth`: the same truth one and two steps earlier, in the verdict and in the reply; the
   answer's truth is not inductive without it, since the answer only copies.
3. `Owned`: a room that a worker owes is in no list and owed by no other worker. This is
   what makes freeing all its blocks right: otherwise `coordinator_destroy_room` could take
   the memory of a listed room. It needs that a room is listed under the code it was asked
   for (in `TypeOK`), so that one code's pruning or replacement touches one room.

`NothingHeld` does the arithmetic of the unwinding paths (for each
place of failure, allocated minus freed is empty) and `ExtractionOwned` is the one fact
that the three decisions with a replaced room share. `MaxPlayersFits` and `EngineSizeKeeps`
say that the two clampings compose to the gateway's own, for every number in a body.

`Playable` joins `RoomSetup` to `Words`: a usable line has a letter (`validateLine`), a letter is no
blank, and the cut keeps it if no line end stands in front of it; so the engine counts a word. Its
hypothesis `LinesEndOnce` says that behind a line-end character of a line there are only
line-end characters. fgets() sees to it for line feeds; a carriage return inside a line is the
exception named in section 6. `MCRoomSetup` has TLC evaluate it.

### Assumptions

Finiteness of the sets of players, rooms, connections, codes and nodes; positive capacities and
limits; special values that are not members of the sets they stand beside. Those that say
something about the code:

* `RoomSetupAssumption`: the gateway's limit of players is within the engine's (the default 4
  is within 16).
* `WordsAssumption`: isalpha() takes no white space.
* `ClientAssumption`: `accum` has room for the longest incomplete message and one recv() (4096
  bytes against 255), and the file has a usable line.
* `SessionAssumption`: a sentence in the stream is a JSON string as cJSON writes it.

### What the proofs found out about the models

* `Session`: the invariant first allowed a started session that has relayed nothing; then the
  first object could come twice. `Underway` now says that a started session has relayed.
* `Client`: that `activeSocket` is false once the socket is closed is not inductive: the refresh
  thread closes before it resets the field. `Descriptor` names the place where the two
  differ, which is inside the mutex.
* `Client`: that results cannot be lost rests on the size of `accum` alone: the branch that makes
  room in it would drop text, and the proof that it never runs needs `AccumMax > ChunkMax + 3`.
* `EventQueue`: the null pointer must not be one of the kinds of waiting.
* `RoomSetup`: `RoomsPlayable` does not hold for every file; see section 6.

### Only model-checked

Liveness (`RaceEnds`, `PopReturns`, `CommandsAnswered`, `FullRoomStarts`, `RoomsFreed`,
`ClientEnds`, `SessionEnds`, `EveryRequestAnswered`): out of the prover's reach, as is anything
under fairness. The four violations of section 6 are counterexamples on an instance and need no
proof.

## 6. Findings

Four comments promise more than the code does; each has a run whose counterexample
shows it.

* `server.c:422` "Account for any players who disconnected in the lobby prior to race
  start". The scan is at 423-437 and `gameStarted` is set at 469. A lobby thread that
  finds its connection dead in between closes the socket and returns without an event
  (215-221): its player is in the race, and the others wait for a timeout
  (`race_lobby_gap`). `RaceEnds` shows that the timeout does give everybody a verdict.
* `server.c:931` "Shutdown sockets cleanly so any blocking recv() in worker threads wakes
  up". The stop waits a second for workers (1514) and takes all rooms; a JOIN that already
  left `gCoordinatorMutex` may register its player after 934-941 and before `roomMutex`
  is taken at 953. That player's reader is not woken, and the join at 971 waits for the
  client (`coord_stop_gap`). `FreedRoomsUnused` holds all the same: nothing is freed too early.
* `client.c:77` "Escape sequence (e.g. arrow keys) - consume trailing bytes". select() at 82
  looks at the descriptor, but getchar() at 62 has moved the whole key into the C library's
  buffer: nothing is consumed, and with the next key '[' and a letter are typed into the
  word (`client_escape`). The menu has the same mix of select() and getchar(), so its
  "[W/S or Up/Down] Move" (748) works only for arrows whose bytes come apart.
* `gateway.js:273` "Send JOIN handshake". A WORD_DONE or SENTENCE_FINISHED that arrives
  while the TCP connection is being set up goes out in front of the JOIN. The engine takes
  the line "3JOIN ..." for a legacy player name and seats the player in DEFAULT, while
  LOBBY_WAITING names the room that was asked for (`gateway_early_key`).

Smaller observations, which no run reports because nothing in the repository says otherwise: a
line of the input file that starts with a carriage return is valid but is cut to an empty
sentence (`server.c:46`; the exception in the comment of `RoomsPlayable`); an ESC that is the
last byte before the end of stdin is drained for ever with the mutex held (`client.c:82`; the
exception in `ClientEnds`); a typing loop left because stdin ended may call shutdown() on a
descriptor the refresh thread has just closed (`client.c:162`; the exception in
`ShutdownOfOpenSocket`); while the hub greets the players (`server.c:441-461`) it tests
`activeSocket` and sends without a lock, and a lobby thread may close the descriptor in between
(217), whose number may by then be another connection's (`NoCloseAfterStart` starts at
`gameStarted`); a client that sends for ever keeps its reader, and with it the results of its
race, for ever (the exception in `RaceEnds`); a browser that sends for ever is never timed out
of its lobby (the hypothesis in `SessionEnds`); at a stop the destruction reads a player's
descriptor (`server.c:934-939`) while a JOIN may free that player (1358), which the models do
not show because each of the two is one step; the gateway tells the browser "Sentence completion
registered by server" (501) before the engine has seen the '2'; a MAX_LOBBY_CAPACITY above 16
would make the gateway announce more places than the engine gives (`RoomSetupAssumption`
excludes it; the default is 4).

## 7. Not modelled

* cJSON: third-party code. Tests, container files, generated graphs: no behaviour of the system.
* Drawing, prompts, argument and environment parsing (`config.js` too): input and output.
* The GET endpoints of the gateway: each forwards one INFO or SUMMARY, keeps no state, and
  answers from what comes back; the engine's side of both is in `Coordinator`, the way a
  command's connection is lost or timed out in `RoomSetup`.
* The members of the JSON messages: only which message it is and where it ends matters to
  any step, except for the sentence, which `Session` keeps.
* A lobby's player may leave with a byte unread: the lobby's peek (`server.c:211`) then takes
  the connection for live. Both `Race` and `Coordinator` contain it; nothing promises
  otherwise, so no property speaks of it.

## 8. Plan

Models, runs and the proofs of all safety properties are done. What remains worth proving:

1. That the specifications fit together where one stands for another: `Race`'s `Enqueue` and
   `Dequeue` as steps of `Channel`, the `HubStart` of `Race` as the one of `Coordinator`, the bytes
   of `Client` as `ClientSend` of `Race`.
2. Stronger consequences for a whole run, as theorems that combine `RaceContract` with the
   invariants: a player's verdict and time never change again, results are sent once.
3. The safety half of the liveness properties: what each waits for cannot be undone
   (for example that no step disables the hub's last timeout).
