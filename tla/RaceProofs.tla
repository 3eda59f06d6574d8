---------------------------- MODULE RaceProofs ----------------------------
(***************************************************************************)
(* Proofs about Race for every set of players, sentence, queue capacity    *)
(* and time limit.  IInv is shown in three layers: types and counting,     *)
(* then the event streams and the lobby, then NobodyForgotten.  ResultsInv *)
(* adds to it what was stamped when, and the count of the words on their   *)
(* way from a client to the hub: times lie within the race, and nobody is  *)
(* credited with more words than it sent.                                  *)
(***************************************************************************)
EXTENDS Race, TLAPS, FiniteSetTheorems, SequenceTheorems

-----------------------------------------------------------------------------
(* Facts about the operators the steps are built from. *)

\* A set of players is finite, counted by a natural number, and full when it has as many
\* members as there are players.
LEMMA PlayerSets ==
    ASSUME NEW S \in SUBSET Players
    PROVE  /\ IsFiniteSet(S)
           /\ Cardinality(S) \in 0 .. Cardinality(Players)
           /\ Cardinality(Players) \in Nat
           /\ Cardinality(S) >= Cardinality(Players) => S = Players
<1>1. IsFiniteSet(Players)
  BY RaceAssumption DEF RaceAssumption
<1>2. /\ IsFiniteSet(S) /\ Cardinality(S) <= Cardinality(Players)
      /\ Cardinality(Players) = Cardinality(S) => Players = S
  BY <1>1, FS_Subset
<1>3. Cardinality(S) \in Nat /\ Cardinality(Players) \in Nat
  BY <1>1, <1>2, FS_CardinalityType
<1> QED
  BY <1>2, <1>3

\* Counting a disjoint set of players, and counting one more player.
LEMMA CountMore ==
    ASSUME NEW S \in SUBSET Players, NEW T \in SUBSET Players, S \cap T = {}
    PROVE  Cardinality(S \cup T) = Cardinality(S) + Cardinality(T)
<1>1. /\ IsFiniteSet(S) /\ Cardinality(S) \in Nat
      /\ IsFiniteSet(T) /\ Cardinality(T) \in Nat
  BY PlayerSets
<1>2. Cardinality(S \cup T) = Cardinality(S) + Cardinality(T) - Cardinality(S \cap T)
  BY <1>1, FS_Union
<1>3. Cardinality(S \cap T) = 0
  BY FS_EmptySet
<1> QED
  BY <1>1, <1>2, <1>3

\* One more player outside the set raises the count by one.
LEMMA CountOneMore ==
    ASSUME NEW S \in SUBSET Players, NEW i \in Players \ S
    PROVE  Cardinality(S \cup {i}) = Cardinality(S) + 1
  BY PlayerSets, FS_AddElement

\* A broadcast closes no socket and only adds to the players marked disconnected.
LEMMA BroadcastEffect ==
    ASSUME TypeOK, NEW gone \in SUBSET Players, Broadcast(gone)
    PROVE  /\ disconnected' \in SUBSET Players
           /\ disconnected \cup gone \subseteq disconnected'
           /\ socket' \in [Players -> {"open", "rdshut", "shut", "closed"}]
           /\ \A i \in Players : socket'[i] = "closed" <=> socket[i] = "closed"
<1>1. PICK F \in SendFailures({i \in Players \ gone : Connected(i)}) :
        /\ disconnected' = disconnected \cup gone \cup F
        /\ socket' = [i \in Players |-> IF i \in F THEN "shut" ELSE socket[i]]
  BY DEF Broadcast
<1>2. F \subseteq Players /\ \A i \in F : socket[i] # "closed"
  BY DEF SendFailures, Connected
<1> QED
  BY <1>1, <1>2 DEF TypeOK, LinkTypes

\* A push appends the event or changes nothing but the list of refused players.
LEMMA EnqueueEffect ==
    ASSUME TypeOK, NEW e \in Event, Enqueue(e)
    PROVE  /\ queue' \in Seq(Event) /\ Len(queue') <= QueueCapacity
           /\ refused' \in SUBSET Players /\ refused \subseteq refused'
           /\ \/ /\ queue' = queue /\ e.player \in refused'
              \/ /\ Len(queue') = Len(queue) + 1
                 /\ \A k \in 1 .. Len(queue) : queue'[k] = queue[k]
                 /\ queue'[Len(queue')] = e
<1>1. queue \in Seq(Event) /\ Len(queue) \in Nat /\ e.player \in Players
  BY LenProperties DEF TypeOK, ChannelTypes, Event
<1>2. CASE closed \/ Len(queue) >= QueueCapacity
  BY <1>1, <1>2 DEF Enqueue, TypeOK, ChannelTypes
<1>3. CASE ~(closed \/ Len(queue) >= QueueCapacity)
  <2>1. queue' = Append(queue, e) /\ refused' = refused
    BY <1>3 DEF Enqueue
  <2> QED
    BY <1>1, <1>3, <2>1, AppendProperties, RaceAssumption DEF TypeOK, ChannelTypes, RaceAssumption
<1> QED
  BY <1>2, <1>3

\* The hub takes the oldest event and leaves the rest in order.
LEMMA DequeueEffect ==
    ASSUME TypeOK, NEW type, NEW i, Dequeue(type, i)
    PROVE  /\ queue[1] \in Event /\ queue[1].type = type /\ queue[1].player = i
           /\ Head(queue) = queue[1] /\ Len(queue) >= 1
           /\ queue' \in Seq(Event) /\ Len(queue') = Len(queue) - 1
           /\ \A k \in 1 .. Len(queue') : queue'[k] = queue[k + 1]
<1>1. queue \in Seq(Event) /\ queue # <<>> /\ queue' = Tail(queue)
  BY DEF TypeOK, ChannelTypes, Dequeue
<1>2. Len(queue) \in Nat \ {0} /\ Head(queue) = queue[1]
  BY <1>1, EmptySeq
<1> QED
  BY <1>1, <1>2, HeadTailProperties, ElementOfSeq DEF Dequeue

-----------------------------------------------------------------------------
(* Layer 1: types and counting. *)

\* What a step leaves alone keeps its type.
LEMMA Frame ==
    ASSUME TypeOK
    PROVE  /\ UNCHANGED clients => ClientTypes'
           /\ UNCHANGED links => LinkTypes'
           /\ UNCHANGED threads => ThreadTypes'
           /\ UNCHANGED channel => ChannelTypes'
           /\ UNCHANGED scores => ScoreTypes'
           /\ UNCHANGED race => HubTypes'
<1>1. UNCHANGED clients => ClientTypes'
  BY DEF TypeOK, clients, ClientTypes
<1>2. UNCHANGED links => LinkTypes'
  BY DEF TypeOK, links, LinkTypes
<1>3. UNCHANGED threads => ThreadTypes'
  BY DEF TypeOK, threads, ThreadTypes
<1>4. UNCHANGED channel => ChannelTypes'
  BY DEF TypeOK, channel, ChannelTypes
<1>5. UNCHANGED scores => ScoreTypes'
  BY DEF TypeOK, scores, ScoreTypes
<1>6. UNCHANGED race => HubTypes'
  BY DEF TypeOK, race, HubTypes
<1> QED
  BY <1>1, <1>2, <1>3, <1>4, <1>5, <1>6

\* The initial state is well typed.
LEMMA TypeInit == Init => TypeOK
<1> SUFFICES ASSUME Init PROVE TypeOK
  OBVIOUS
<1>1. Cardinality(Players) \in Nat /\ QueueCapacity \in Nat /\ MaxClock \in Nat
      /\ ByteBudget \in Nat /\ TotalWords \in Nat
  BY PlayerSets, RaceAssumption DEF RaceAssumption
<1>2. 0 \in Time
  BY <1>1 DEF Time
<1>3. <<>> \in Seq(Bytes) /\ <<>> \in Seq(Event) /\ Len(<<>>) = 0
  BY EmptySeq
<1>4. ClientTypes /\ LinkTypes
  BY <1>1 DEF Init, ClientTypes, LinkTypes
<1>5. ThreadTypes
  BY DEF Init, ThreadTypes, ReaderState
<1>6. ChannelTypes
  <2>1. queue = <<>> /\ closed \in BOOLEAN /\ refused \subseteq Players
    BY DEF Init
  <2>2. queue \in Seq(Event) /\ Len(queue) = 0
    BY <1>3, <2>1
  <2> QED
    BY <1>1, <2>1, <2>2 DEF ChannelTypes
<1>7. ScoreTypes
  BY <1>1 DEF Init, ScoreTypes
<1>8. HubTypes
  BY DEF Init, HubTypes, HubState
<1>9. inbox \in [Players -> Seq(Bytes)]
  BY <1>3 DEF Init
<1> QED
  BY <1>2, <1>4, <1>5, <1>6, <1>7, <1>8, <1>9 DEF Init, TypeOK

\* The clients, the clock and the coordinator.
LEMMA TypeOutside ==
    ASSUME TypeOK, Bookkeeping, NEW i \in Players,
           Client(i) \/ Tick \/ StopShutdown \/ StopRelease
    PROVE  TypeOK'
<1>1. ASSUME NEW b \in Bytes, ClientSend(i, b) PROVE TypeOK'
  <2>1. inbox' \in [Players -> Seq(Bytes)]
    <3>1. inbox \in [Players -> Seq(Bytes)] /\ Append(inbox[i], b) \in Seq(Bytes)
      BY AppendProperties DEF TypeOK
    <3> QED
      BY <1>1, <3>1 DEF ClientSend
  <2>2. ClientTypes'
    BY <1>1, RaceAssumption, SMTT(30) DEF ClientSend, TypeOK, ClientTypes, Bookkeeping, RaceAssumption
  <2>3. UNCHANGED <<now, threads, channel, gameStarted, scores, links, race, stop>>
    BY <1>1 DEF ClientSend
  <2> QED
    BY <2>1, <2>2, <2>3, Frame DEF TypeOK
<1>2. CASE ClientClose(i)
  <2>1. inbox' \in [Players -> Seq(Bytes)]
    <3>1. inbox \in [Players -> Seq(Bytes)] /\ <<>> \in Seq(Bytes)
      BY EmptySeq DEF TypeOK
    <3> QED
      BY <1>2, <3>1 DEF ClientClose
  <2>2. ClientTypes'
    BY <1>2 DEF ClientClose, TypeOK, ClientTypes
  <2>3. UNCHANGED <<now, threads, channel, gameStarted, scores, links, race, stop>>
    BY <1>2 DEF ClientClose
  <2> QED
    BY <2>1, <2>2, <2>3, Frame DEF TypeOK
<1>3. CASE Tick
  <2>1. now' \in Time
    BY <1>3, RaceAssumption DEF Tick, Time, TypeOK, RaceAssumption
  <2>2. UNCHANGED <<clients, inbox, threads, channel, gameStarted, scores, links, race, stop>>
    BY <1>3 DEF Tick
  <2> QED
    BY <2>1, <2>2, Frame DEF TypeOK
<1>4. CASE StopShutdown
  <2>1. LinkTypes'
    BY <1>4 DEF StopShutdown, TypeOK, LinkTypes
  <2>2. /\ UNCHANGED <<now, clients, inbox, threads, channel, gameStarted, scores, race>>
        /\ stop' = "shut"
    BY <1>4 DEF StopShutdown
  <2> QED
    BY <2>1, <2>2, Frame DEF TypeOK
<1>5. CASE StopRelease
  BY <1>5, Frame DEF StopRelease, TypeOK
<1> QED
  BY <1>1, <1>2, <1>3, <1>4, <1>5 DEF Client

\* The threads of handleClient.
LEMMA TypeThread ==
    ASSUME TypeOK, Bookkeeping, NEW i \in Players, Thread(i)
    PROVE  TypeOK'
<1>1. CASE LobbyWake(i) \/ LobbyPeek(i)
  <2>1. ThreadTypes'
    BY <1>1 DEF LobbyWake, LobbyPeek, TypeOK, ThreadTypes, ReaderState
  <2>2. UNCHANGED <<now, clients, inbox, channel, gameStarted, scores, links, race, stop>>
    BY <1>1 DEF LobbyWake, LobbyPeek
  <2> QED
    BY <2>1, <2>2, Frame DEF TypeOK
<1>2. CASE LobbyLeave(i)
  <2>1. ThreadTypes'
    BY <1>2 DEF LobbyLeave, TypeOK, ThreadTypes, ReaderState
  <2>2. LinkTypes'
    BY <1>2 DEF LobbyLeave, TypeOK, LinkTypes
  <2>3. UNCHANGED <<now, clients, inbox, channel, gameStarted, scores, race, stop>>
    BY <1>2 DEF LobbyLeave
  <2> QED
    BY <2>1, <2>2, <2>3, Frame DEF TypeOK
<1>3. CASE ReaderCheck(i)
  <2>1. ThreadTypes'
    BY <1>3 DEF ReaderCheck, TypeOK, ThreadTypes, ReaderState
  <2>2. UNCHANGED <<now, clients, inbox, channel, gameStarted, scores, links, race, stop>>
    BY <1>3 DEF ReaderCheck
  <2> QED
    BY <2>1, <2>2, Frame DEF TypeOK
<1>4. CASE RecvByte(i)
  <2> DEFINE b == Head(inbox[i])
             e == [type |-> b, player |-> i, ts |-> IF b = FINISH THEN now ELSE 0]
  <2>1. b \in Bytes /\ Tail(inbox[i]) \in Seq(Bytes) /\ inbox \in [Players -> Seq(Bytes)]
    BY <1>4, HeadTailProperties DEF RecvByte, TypeOK
  <2>2. b # NOISE => e \in Event
    <3>1. b # NOISE => b \in EventType
      BY <2>1, RaceAssumption DEF RaceAssumption, EventType, WORD, FINISH, NOISE
    <3>2. 0 \in Time /\ now \in Time
      BY RaceAssumption DEF RaceAssumption, Time, TypeOK
    <3> QED
      BY <3>1, <3>2 DEF Event
  <2>3. inbox' \in [Players -> Seq(Bytes)]
    BY <1>4, <2>1 DEF RecvByte
  <2>4. /\ reader' = [reader EXCEPT ![i] = IF b = NOISE THEN "loop" ELSE "push"]
        /\ hand' = IF b = NOISE THEN hand ELSE [hand EXCEPT ![i] = e]
        /\ UNCHANGED <<now, clients, channel, gameStarted, scores, links, race, stop>>
    BY <1>4 DEF RecvByte
  <2> HIDE DEF b, e
  <2>5. ThreadTypes'
    BY <2>2, <2>4 DEF TypeOK, ThreadTypes, ReaderState
  <2> QED
    BY <2>3, <2>4, <2>5, Frame DEF TypeOK
<1>5. CASE RecvEnd(i)
  <2>1. [type |-> DISCONNECT, player |-> i, ts |-> 0] \in Event
    BY RaceAssumption DEF RaceAssumption, Event, EventType, Time
  <2>2. ThreadTypes'
    BY <1>5, <2>1 DEF RecvEnd, TypeOK, ThreadTypes, ReaderState
  <2>3. UNCHANGED <<now, clients, inbox, channel, gameStarted, scores, links, race, stop>>
    BY <1>5 DEF RecvEnd
  <2> QED
    BY <2>2, <2>3, Frame DEF TypeOK
<1>6. CASE ReaderPush(i)
  <2>1. hand[i] \in Event /\ Enqueue(hand[i])
    BY <1>6 DEF ReaderPush, Bookkeeping
  <2>2. ChannelTypes'
    BY <1>6, <2>1, EnqueueEffect DEF ReaderPush, ChannelTypes, TypeOK
  <2>3. ThreadTypes'
    BY <1>6 DEF ReaderPush, TypeOK, ThreadTypes, ReaderState
  <2>4. inbox' \in [Players -> Seq(Bytes)]
    <3>1. inbox \in [Players -> Seq(Bytes)] /\ <<>> \in Seq(Bytes)
      BY EmptySeq DEF TypeOK
    <3> QED
      BY <1>6, <3>1 DEF ReaderPush
  <2>5. UNCHANGED <<now, clients, gameStarted, scores, links, race, stop>>
    BY <1>6 DEF ReaderPush
  <2> QED
    BY <2>2, <2>3, <2>4, <2>5, Frame DEF TypeOK
<1> QED
  BY <1>1, <1>2, <1>3, <1>4, <1>5, <1>6 DEF Thread

\* A verdict for a player who has none is counted once.
LEMMA DecideEffect ==
    ASSUME TypeOK, Bookkeeping, NEW i \in Players \ finished,
           NEW time \in Time \cup {DNF}, Decide(i, time)
    PROVE  /\ finishedPlayers' = Cardinality(finished')
           /\ finishedPlayers' \in 0 .. Cardinality(Players)
           /\ finished' \in SUBSET Players
           /\ timeTaken' \in [Players -> Time \cup {DNF}]
<1>1. finished \in SUBSET Players /\ timeTaken \in [Players -> Time \cup {DNF}]
  BY DEF TypeOK, ScoreTypes
<1>2. finished' \in SUBSET Players
  BY <1>1 DEF Decide
<1>3. Cardinality(finished') = Cardinality(finished) + 1
  <2>1. Cardinality(finished \cup {i}) = Cardinality(finished) + 1
    BY <1>1, CountOneMore
  <2> QED
    BY <2>1 DEF Decide
<1>4. finishedPlayers' = Cardinality(finished')
  BY <1>3 DEF Decide, Bookkeeping, EveryoneCountedOnce
<1>5. Cardinality(finished') \in 0 .. Cardinality(Players)
  BY <1>2, PlayerSets
<1>6. timeTaken' \in [Players -> Time \cup {DNF}]
  BY <1>1 DEF Decide
<1> QED
  BY <1>2, <1>4, <1>5, <1>6

\* While the hub greets the players nothing else changes.
LEMMA GreetsEffect ==
    ASSUME HubGreets
    PROVE  /\ hub = "greet"
           /\ UNCHANGED <<now, clients, inbox, threads, channel, gameStarted, scores, links,
                          hub, raceStart, firstFinish, informed, stop>>
BY DEF HubGreets, HubGreetTest, HubGreetSend

\* The steps of the hub outside its event loop, and the bookkeeping part of the loop.
LEMMA TypeHub ==
    ASSUME TypeOK, Bookkeeping,
           \/ HubScan \/ HubGreets \/ HubGreet \/ HubStart \/ HubLeave \/ HubTimeout \/ HubWait \/ HubIdle
           \/ HubClose \/ HubUnblock \/ HubJoin \/ HubResults
    PROVE  TypeOK'
<1>1. CASE HubScan
  <2> DEFINE gone == {i \in Players : ~Connected(i)}
  <2>1. /\ finished' = finished \cup gone
        /\ disconnected' = disconnected \cup gone
        /\ timeTaken' = [i \in Players |-> IF i \in gone THEN DNF ELSE timeTaken[i]]
        /\ finishedPlayers' = finishedPlayers + Cardinality(gone)
        /\ hub' = "greet"
        /\ UNCHANGED <<now, clients, inbox, threads, channel, gameStarted, progress, socket,
                       raceStart, firstFinish, informed, greeted, stop>>
    BY <1>1 DEF HubScan
  <2>2. gone \in SUBSET Players /\ finished = {} /\ finishedPlayers = Cardinality({})
    BY <1>1 DEF HubScan, Bookkeeping, EveryoneCountedOnce
  <2> HIDE DEF gone
  <2>3. finishedPlayers' \in 0 .. Cardinality(Players)
    <3>1. finishedPlayers = 0 /\ Cardinality(gone) \in 0 .. Cardinality(Players)
      BY <2>2, PlayerSets, FS_EmptySet
    <3>2. Cardinality(Players) \in Nat
      BY PlayerSets
    <3> QED
      BY <2>1, <3>1, <3>2
  <2>4. ScoreTypes'
    BY <2>1, <2>2, <2>3 DEF TypeOK, ScoreTypes
  <2>5. LinkTypes'
    BY <2>1, <2>2 DEF TypeOK, LinkTypes
  <2>6. HubTypes'
    BY <2>1 DEF TypeOK, HubTypes, HubState
  <2> QED
    BY <2>1, <2>4, <2>5, <2>6, Frame DEF TypeOK
<1>2. CASE HubGreets \/ HubGreet \/ HubStart
  <2>1. HubTypes'
    BY <1>2 DEF HubGreets, HubGreetTest, HubGreetSend, HubGreet, HubStart, TypeOK, HubTypes, HubState
  <2>2. UNCHANGED <<now, clients, inbox, threads, channel, scores, links, stop>>
        /\ gameStarted' \in BOOLEAN
    BY <1>2, GreetsEffect DEF HubGreet, HubStart, TypeOK
  <2> QED
    BY <2>1, <2>2, Frame DEF TypeOK
<1>3. CASE HubLeave \/ HubWait \/ HubIdle \/ HubJoin
  <2>1. HubTypes'
    BY <1>3 DEF HubLeave, HubWait, HubIdle, HubJoin, TypeOK, HubTypes, HubState
  <2>2. UNCHANGED <<now, clients, inbox, threads, channel, gameStarted, scores, links, stop>>
    BY <1>3 DEF HubLeave, HubWait, HubIdle, HubJoin
  <2> QED
    BY <2>1, <2>2, Frame DEF TypeOK
<1>4. CASE HubTimeout
  <2>1. ScoreTypes'
    <3>1. finished \in SUBSET Players /\ Late \in SUBSET Players /\ finished \cap Late = {}
      BY DEF TypeOK, ScoreTypes, Late
    <3>2. finished \cup Late = Players
      BY <3>1 DEF Late
    <3>3. finishedPlayers' = Cardinality(Players)
      BY <1>4, <3>1, <3>2, CountMore DEF HubTimeout, Bookkeeping, EveryoneCountedOnce
    <3> QED
      BY <1>4, <3>1, <3>2, <3>3, PlayerSets DEF HubTimeout, TypeOK, ScoreTypes
  <2>2. LinkTypes'
    BY <1>4, BroadcastEffect DEF HubTimeout, LinkTypes
  <2>3. HubTypes'
    BY <1>4 DEF HubTimeout, TypeOK, HubTypes, HubState
  <2>4. UNCHANGED <<now, clients, inbox, threads, channel, gameStarted, stop>>
    BY <1>4 DEF HubTimeout
  <2> QED
    BY <2>1, <2>2, <2>3, <2>4, Frame DEF TypeOK
<1>5. CASE HubClose
  <2>1. ChannelTypes'
    BY <1>5 DEF HubClose, TypeOK, ChannelTypes
  <2>2. HubTypes'
    BY <1>5 DEF HubClose, TypeOK, HubTypes, HubState
  <2>3. UNCHANGED <<now, clients, inbox, threads, gameStarted, scores, links, stop>>
    BY <1>5 DEF HubClose
  <2> QED
    BY <2>1, <2>2, <2>3, Frame DEF TypeOK
<1>6. CASE HubUnblock
  <2>1. LinkTypes'
    BY <1>6 DEF HubUnblock, TypeOK, LinkTypes
  <2>2. HubTypes'
    BY <1>6 DEF HubUnblock, TypeOK, HubTypes, HubState
  <2>3. UNCHANGED <<now, clients, inbox, threads, channel, gameStarted, scores, stop>>
    BY <1>6 DEF HubUnblock
  <2> QED
    BY <2>1, <2>2, <2>3, Frame DEF TypeOK
<1>7. CASE HubResults
  <2>1. LinkTypes' /\ HubTypes'
    BY <1>7 DEF HubResults, SendFailures, TypeOK, LinkTypes, HubTypes, HubState
  <2>2. UNCHANGED <<now, clients, inbox, threads, channel, gameStarted, scores, stop>>
    BY <1>7 DEF HubResults
  <2> QED
    BY <2>1, <2>2, Frame DEF TypeOK
<1> QED
  BY <1>1, <1>2, <1>3, <1>4, <1>5, <1>6, <1>7

\* The handling of one event.
LEMMA TypeEvent ==
    ASSUME TypeOK, Bookkeeping, HubEvent
    PROVE  TypeOK'
<1>0. ChannelTypes /\ ScoreTypes /\ HubTypes
  BY DEF TypeOK
<1>1. PICK i \in Players :
        HubWord(i) \/ HubFinish(i) \/ HubPremature(i) \/ HubIgnoreFinish(i) \/ HubDisconnect(i)
  BY DEF HubEvent
<1>2. PICK type : Dequeue(type, i)
  BY <1>1 DEF HubWord, HubFinish, HubPremature, HubIgnoreFinish, HubDisconnect
<1>3. ChannelTypes'
  <2>1. /\ queue' \in Seq(Event) /\ Len(queue') = Len(queue) - 1 /\ Len(queue) <= QueueCapacity
        /\ Len(queue) \in Nat /\ QueueCapacity \in Nat
    BY <1>0, <1>2, DequeueEffect, LenProperties, RaceAssumption DEF ChannelTypes, RaceAssumption
  <2> QED
    BY <1>0, <1>2, <2>1 DEF Dequeue, ChannelTypes
<1>4. /\ UNCHANGED <<now, clients, inbox, threads, gameStarted, raceStart, informed, greeted, stop>>
      /\ hub' = "loop"
  BY <1>2 DEF Dequeue
<1>5. LinkTypes'
  <2>1. UNCHANGED links \/ Broadcast({}) \/ Broadcast({i})
    BY <1>1 DEF HubWord, HubFinish, HubPremature, HubIgnoreFinish, HubDisconnect
  <2> QED
    BY <2>1, Frame, BroadcastEffect DEF LinkTypes
<1>6. firstFinish' \in Time \cup {None}
  BY <1>0, <1>1 DEF HubWord, HubFinish, HubPremature, HubIgnoreFinish, HubDisconnect,
                   HubTypes, TypeOK
<1>7. HubTypes'
  BY <1>0, <1>4, <1>6 DEF HubTypes, HubState
<1>8. ScoreTypes'
  <2>1. CASE UNCHANGED scores
    BY <2>1, Frame
  <2>2. CASE HubWord(i)
    <3>1. progress' \in [Players -> 0 .. TotalWords]
      BY <1>0, <2>2, RaceAssumption DEF HubWord, ScoreTypes, RaceAssumption
    <3> QED
      BY <1>0, <2>2, <3>1 DEF HubWord, ScoreTypes
  <2>3. CASE HubFinish(i)
    <3>1. Elapsed(Head(queue).ts) \in Time \cup {DNF}
      <4>1. Head(queue).ts \in Time /\ raceStart \in Time
        BY <1>0, <2>3, DequeueEffect DEF HubFinish, Dequeue, Event, Bookkeeping, HubTypes
      <4> QED
        BY <4>1, RaceAssumption DEF Elapsed, Time, RaceAssumption
    <3> QED
      BY <1>0, <2>3, <3>1, DecideEffect, RaceAssumption
      DEF HubFinish, Racing, ScoreTypes, RaceAssumption
  <2>4. CASE HubPremature(i)
    BY <1>0, <2>4, DecideEffect DEF HubPremature, Racing, ScoreTypes
  <2>5. CASE HubDisconnect(i) /\ i \notin finished
    BY <1>0, <2>5, DecideEffect DEF HubDisconnect, ScoreTypes
  <2> QED
    BY <1>1, <2>1, <2>2, <2>3, <2>4, <2>5 DEF HubIgnoreFinish, HubDisconnect, scores
<1> QED
  BY <1>3, <1>4, <1>5, <1>7, <1>8, Frame DEF TypeOK

\* Every step keeps the types; that finishedPlayers stays in range needs the exact count.
LEMMA TypeStep == TypeOK /\ Bookkeeping /\ [Next]_vars => TypeOK'
<1> SUFFICES ASSUME TypeOK, Bookkeeping, [Next]_vars PROVE TypeOK'
  OBVIOUS
<1>1. CASE UNCHANGED vars
  BY <1>1, Frame DEF vars, TypeOK
<1>2. CASE \E i \in Players : Client(i) \/ Thread(i)
  BY <1>2, TypeOutside, TypeThread
<1>3. CASE HubStep
  BY <1>3, TypeHub, TypeEvent DEF HubStep
<1>4. CASE Tick \/ StopShutdown \/ StopRelease
  <2>1. PICK i : i \in Players
    BY RaceAssumption DEF RaceAssumption
  <2> QED
    BY <1>4, <2>1, TypeOutside
<1> QED
  BY <1>1, <1>2, <1>3, <1>4 DEF Next, Over

\* Who may change what: the actions that touch a group of variables.
LEMMA WhoChanges ==
    ASSUME [Next]_vars
    PROVE  /\ UNCHANGED <<words, budget>> \/ \E i \in Players, b \in Bytes : ClientSend(i, b)
           /\ UNCHANGED threads \/ \E i \in Players : Thread(i)
           /\ UNCHANGED <<hub, raceStart, scores>> \/ HubStep
           /\ UNCHANGED queue \/ (\E i \in Players : ReaderPush(i)) \/ HubEvent
           /\ \/ UNCHANGED links \/ \E i \in Players : LobbyLeave(i)
              \/ HubStep \/ StopShutdown
<1> USE DEF vars, clients, threads, channel, scores, links, race
<1>1. ASSUME NEW i \in Players, Client(i)
      PROVE  /\ UNCHANGED <<threads, hub, raceStart, scores, queue, links>>
             /\ UNCHANGED <<words, budget>> \/ \E b \in Bytes : ClientSend(i, b)
  BY <1>1 DEF Client, ClientSend, ClientClose
<1>2. ASSUME NEW i \in Players, Thread(i)
      PROVE  /\ UNCHANGED <<words, budget, hub, raceStart, scores>>
             /\ UNCHANGED queue \/ ReaderPush(i)
             /\ UNCHANGED links \/ LobbyLeave(i)
  BY <1>2 DEF Thread, LobbyWake, LobbyPeek, LobbyLeave, ReaderCheck, RecvByte, RecvEnd, ReaderPush
<1>3. ASSUME HubStep
      PROVE  UNCHANGED <<words, budget, threads>> /\ (UNCHANGED queue \/ HubEvent)
  BY <1>3, GreetsEffect
     DEF HubStep, HubScan, HubGreet, HubStart, HubLeave, HubTimeout, HubWait, HubIdle, HubEvent,
              HubWord, HubFinish, HubPremature, HubIgnoreFinish, HubDisconnect,
              Dequeue, HubClose, HubUnblock, HubJoin, HubResults
<1>4. ASSUME Tick \/ StopShutdown \/ StopRelease
      PROVE  /\ UNCHANGED <<words, budget, threads, hub, raceStart, scores, queue>>
             /\ UNCHANGED links \/ StopShutdown
  BY <1>4 DEF Tick, StopShutdown, StopRelease
<1>5. CASE UNCHANGED vars
  BY <1>5
<1> QED
  BY <1>1, <1>2, <1>3, <1>4, <1>5 DEF Next, Over

\* Nobody is counted at first.
LEMMA BookInit == Init => Bookkeeping
  BY RaceAssumption, FS_EmptySet
  DEF Init, Bookkeeping, EveryoneCountedOnce, AfterLoop, RaceAssumption

\* Every step keeps the count exact, and the hub leaves its loop with everybody counted.
LEMMA BookStep == TypeOK /\ Bookkeeping /\ [Next]_vars => Bookkeeping'
<1> SUFFICES ASSUME TypeOK, Bookkeeping, [Next]_vars PROVE Bookkeeping'
  OBVIOUS
<1>1. ClientTypes /\ ThreadTypes /\ ScoreTypes /\ HubTypes
  BY DEF TypeOK
\* The bytes a client has sent and may still send.
<1>2. \A i \in Players : words'[i] + budget'[i] <= ByteBudget
  <2>1. CASE UNCHANGED <<words, budget>>
    BY <2>1 DEF Bookkeeping
  <2>2. ASSUME NEW i \in Players, NEW b \in Bytes, ClientSend(i, b)
        PROVE  \A j \in Players : words'[j] + budget'[j] <= ByteBudget
    BY <1>1, <2>2, RaceAssumption DEF ClientSend, ClientTypes, Bookkeeping, RaceAssumption
  <2> QED
    BY <2>1, <2>2, WhoChanges
\* The event in a reader's hand is its player's.
<1>3. \A i \in Players : reader'[i] = "push" => hand'[i] \in Event /\ hand'[i].player = i
  <2>1. CASE UNCHANGED threads
    BY <2>1 DEF Bookkeeping, threads
  <2>2. ASSUME NEW i \in Players, Thread(i)
        PROVE  \A j \in Players : reader'[j] = "push" => hand'[j] \in Event /\ hand'[j].player = j
    <3>1. ThreadTypes'
      BY <2>2, TypeThread DEF TypeOK
    <3>2. \A j \in Players \ {i} : reader'[j] = reader[j] /\ hand'[j] = hand[j]
      BY <1>1, <2>2 DEF Thread, ThreadTypes, LobbyWake, LobbyPeek, LobbyLeave, ReaderCheck,
                       RecvByte, RecvEnd, ReaderPush
    <3>3. reader'[i] = "push" => hand'[i].type # "none" /\ hand'[i].player = i
      <4>1. CASE RecvByte(i)
        <5>1. Head(inbox[i]) \in Bytes
          BY <4>1, HeadTailProperties DEF RecvByte, TypeOK
        <5>2. Head(inbox[i]) # "none"
          BY <5>1, RaceAssumption DEF RaceAssumption
        <5> QED
          BY <1>1, <4>1, <5>2 DEF RecvByte, ThreadTypes
      <4>2. CASE RecvEnd(i)
        BY <1>1, <4>2 DEF RecvEnd, ThreadTypes, DISCONNECT
      <4>3. CASE ~RecvByte(i) /\ ~RecvEnd(i)
        BY <1>1, <2>2, <4>3 DEF Thread, ThreadTypes, LobbyWake, LobbyPeek, LobbyLeave,
                                ReaderCheck, ReaderPush
      <4> QED
        BY <4>1, <4>2, <4>3
    <3> QED
      BY <3>1, <3>2, <3>3 DEF Bookkeeping, ThreadTypes, NoEvent
  <2> QED
    BY <2>1, <2>2, WhoChanges
\* What each stage of the hub has established.
<1>4. /\ hub' \notin {"scan", "greet"} => raceStart' # None
      /\ hub' = "scan" => finished' = {}
  <2>1. CASE UNCHANGED <<hub, raceStart, scores>>
    BY <2>1 DEF Bookkeeping, scores
  <2>2. CASE HubStep
    <3>1. hub' # "scan"
      BY <2>2, GreetsEffect DEF HubStep, HubScan, HubGreet, HubStart, HubLeave, HubTimeout, HubWait, HubIdle,
              HubEvent, HubWord, HubFinish, HubPremature, HubIgnoreFinish, HubDisconnect,
              Dequeue, HubClose, HubUnblock, HubJoin, HubResults
    <3>2. CASE HubGreet
      BY <3>2, RaceAssumption DEF HubGreet, TypeOK, Time, None, RaceAssumption
    <3>3. CASE ~HubGreet
      BY <2>2, <3>3, GreetsEffect DEF HubStep, HubScan, HubGreet, HubStart, HubLeave, HubTimeout, HubWait,
              HubIdle, HubEvent, HubWord, HubFinish, HubPremature, HubIgnoreFinish,
              HubDisconnect, Dequeue, HubClose, HubUnblock, HubJoin, HubResults, Bookkeeping
    <3> QED
      BY <3>1, <3>2, <3>3
  <2> QED
    BY <2>1, <2>2, WhoChanges
\* The count, and its meaning once the loop is left.
<1>5. EveryoneCountedOnce'
  <2>1. CASE UNCHANGED <<hub, raceStart, scores>>
    BY <2>1 DEF Bookkeeping, EveryoneCountedOnce, AfterLoop, scores
  <2>2. CASE HubScan
    <3>1. finishedPlayers = 0 /\ finished = {}
      BY <2>2, FS_EmptySet DEF HubScan, Bookkeeping, EveryoneCountedOnce
    <3> QED
      BY <2>2, <3>1, PlayerSets DEF HubScan, EveryoneCountedOnce, AfterLoop
  <2>3. CASE HubLeave
    BY <1>1, <2>3, PlayerSets
    DEF HubLeave, AllCounted, Bookkeeping, EveryoneCountedOnce, AfterLoop, scores, ScoreTypes
  <2>4. CASE HubTimeout
    <3>1. finished \in SUBSET Players /\ Late \in SUBSET Players /\ finished \cap Late = {}
          /\ finished \cup Late = Players
      BY <1>1 DEF ScoreTypes, Late
    <3> QED
      BY <2>4, <3>1, CountMore DEF HubTimeout, Bookkeeping, EveryoneCountedOnce, AfterLoop
  <2>5. CASE HubEvent
    <3>1. PICK i \in Players :
            \/ HubWord(i) \/ HubFinish(i) \/ HubPremature(i) \/ HubIgnoreFinish(i)
            \/ HubDisconnect(i)
      BY <2>5 DEF HubEvent
    <3>2. ~AfterLoop'
      BY <3>1 DEF HubWord, HubFinish, HubPremature, HubIgnoreFinish, HubDisconnect, Dequeue,
                  AfterLoop
    <3>3. \/ UNCHANGED <<finishedPlayers, finished>>
          \/ i \notin finished /\ \E time \in Time \cup {DNF} : Decide(i, time)
      <4>1. CASE HubFinish(i)
        <5>1. Head(queue).ts \in Time /\ raceStart \in Time
          BY <1>1, <4>1, DequeueEffect DEF HubFinish, Dequeue, Event, Bookkeeping, HubTypes
        <5>2. Elapsed(Head(queue).ts) \in Time
          BY <5>1, RaceAssumption DEF Elapsed, Time, RaceAssumption
        <5> QED
          BY <4>1, <5>2 DEF HubFinish, Racing
      <4> QED
        BY <3>1, <4>1 DEF HubWord, HubPremature, HubIgnoreFinish, HubDisconnect, Racing, scores
    <3> QED
      BY <3>2, <3>3, DecideEffect DEF Bookkeeping, EveryoneCountedOnce
  <2>6. CASE \/ HubGreet \/ HubStart \/ HubWait \/ HubIdle
             \/ HubClose \/ HubUnblock \/ HubJoin \/ HubResults
    BY <2>6 DEF HubGreet, HubStart, HubWait, HubIdle, HubClose, HubUnblock, HubJoin, HubResults,
                Bookkeeping, EveryoneCountedOnce, AfterLoop, scores
  <2>7. CASE HubGreets
    BY <2>7, GreetsEffect DEF Bookkeeping, EveryoneCountedOnce, AfterLoop, scores
  <2> QED
    BY <2>1, <2>2, <2>3, <2>4, <2>5, <2>6, <2>7, WhoChanges DEF HubStep
<1> QED
  BY <1>2, <1>3, <1>4, <1>5 DEF Bookkeeping

-----------------------------------------------------------------------------
(* Layer 2: the streams of events and the lobby. *)

\* What is queued is an event of some player.
LEMMA QueuedEvents ==
    ASSUME TypeOK
    PROVE  /\ Len(queue) \in Nat
           /\ \A k \in 1 .. Len(queue) : queue[k] \in Event /\ queue[k].player \in Players
<1>1. queue \in Seq(Event)
  BY DEF TypeOK, ChannelTypes
<1>2. ASSUME NEW k \in 1 .. Len(queue) PROVE queue[k] \in Event
  BY <1>1, ElementOfSeq
<1> QED
  BY <1>1, <1>2, LenProperties DEF Event

\* Streams follows from three facts about the step: threads that have returned stay so, only
\* the last event of a thread that has not may be added, and who is newly decided or closed
\* has returned and is silent.
LEMMA StreamsKept ==
    ASSUME TypeOK, Streams, UNCHANGED queue,
           \A i \in Players : reader[i] = "done" => reader'[i] = "done",
           \A i \in Players : reader'[i] \in {"lobby", "leaving"} =>
               reader[i] \in {"lobby", "leaving"},
           \A i \in Players : socket'[i] = "closed" =>
               socket[i] = "closed" \/ (reader[i] = "leaving" /\ reader'[i] = "done"),
           ~AfterLoop' => ~AfterLoop /\ \A i \in finished' : i \in finished \/ socket[i] = "closed",
           finished' \subseteq Players
    PROVE  Streams'
<1>1. \A k \in 1 .. Len(queue) : queue[k].player \in Players
  BY QueuedEvents
<1>2. \A i \in Players : Silent(i)' <=> Silent(i)
  BY DEF Silent
<1>3. \A i \in Players : socket'[i] = "closed" => reader'[i] = "done" /\ Silent(i)'
  BY <1>2 DEF Streams
<1>4. \A i \in Players : reader'[i] \in {"lobby", "leaving"} => Silent(i)'
  BY <1>2 DEF Streams
<1>5. ~AfterLoop' => \A i \in finished' : reader'[i] = "done" /\ Silent(i)'
  BY <1>2 DEF Streams
<1>6. \A k \in 1 .. Len(queue') : LastEvent(queue'[k]) =>
          /\ reader'[queue'[k].player] = "done"
          /\ \A m \in k + 1 .. Len(queue') : queue'[m].player # queue'[k].player
  BY <1>1 DEF Streams
<1> QED
  BY <1>3, <1>4, <1>5, <1>6 DEF Streams, LastEvent

\* A push is made by a thread that has not returned, so nothing its player's stream depends on
\* is already over.
LEMMA StreamsPush ==
    ASSUME TypeOK, Bookkeeping, Streams, NEW i \in Players, ReaderPush(i)
    PROVE  Streams'
<1>1. /\ reader[i] = "push" /\ reader \in [Players -> ReaderState]
      /\ reader' = [reader EXCEPT ![i] = IF LastEvent(hand[i]) THEN "done" ELSE "loop"]
      /\ hand[i].player = i /\ hand[i] \in Event
      /\ Enqueue(hand[i])
      /\ UNCHANGED <<socket, hub, finished>>
  BY DEF ReaderPush, Bookkeeping, TypeOK, ThreadTypes, links, race, scores
<1>2. \/ queue' = queue
      \/ /\ Len(queue') = Len(queue) + 1
         /\ \A k \in 1 .. Len(queue) : queue'[k] = queue[k]
         /\ queue'[Len(queue')] = hand[i]
  BY <1>1, EnqueueEffect
<1>3. /\ Len(queue) \in Nat
      /\ \A k \in 1 .. Len(queue) : queue[k].player \in Players
  BY QueuedEvents
<1>4. \A j \in Players \ {i} : (Silent(j)' <=> Silent(j)) /\ reader'[j] = reader[j]
  BY <1>1, <1>2, <1>3 DEF Silent
<1>5. reader'[i] \in {"done", "loop"}
  BY <1>1
<1>6. \A j \in Players : socket'[j] = "closed" => reader'[j] = "done" /\ Silent(j)'
  BY <1>1, <1>4 DEF Streams
<1>7. \A j \in Players : reader'[j] \in {"lobby", "leaving"} => Silent(j)'
  BY <1>1, <1>4, <1>5 DEF Streams
<1>8. ~AfterLoop' => \A j \in finished' : reader'[j] = "done" /\ Silent(j)'
  BY <1>1, <1>4 DEF Streams, AfterLoop, TypeOK, ScoreTypes
<1>9. ASSUME NEW k \in 1 .. Len(queue'), LastEvent(queue'[k])
      PROVE  /\ reader'[queue'[k].player] = "done"
             /\ \A m \in k + 1 .. Len(queue') : queue'[m].player # queue'[k].player
  <2>1. CASE k \in 1 .. Len(queue)
    <3>1. queue'[k] = queue[k]
      BY <1>2, <2>1
    <3>2. /\ reader[queue[k].player] = "done"
          /\ \A m \in k + 1 .. Len(queue) : queue[m].player # queue[k].player
      BY <1>9, <2>1, <3>1 DEF Streams
    <3>3. queue[k].player # i /\ queue[k].player \in Players
      BY <1>1, <1>3, <2>1, <3>2
    <3> QED
      BY <1>1, <1>2, <1>3, <1>4, <2>1, <3>1, <3>2, <3>3
  <2>2. CASE k \notin 1 .. Len(queue)
    <3>1. k = Len(queue') /\ queue'[k] = hand[i] /\ k + 1 > Len(queue')
      BY <1>2, <1>3, <2>2
    <3> QED
      BY <1>1, <1>9, <3>1
  <2> QED
    BY <2>1, <2>2
<1> QED
  BY <1>6, <1>7, <1>8, <1>9 DEF Streams

\* Taking the head of the queue keeps the streams, and decides its player only if it was his
\* last event.
LEMMA StreamsEvent ==
    ASSUME TypeOK, Bookkeeping, Streams, HubEvent
    PROVE  Streams'
<1>1. PICK i \in Players :
        HubWord(i) \/ HubFinish(i) \/ HubPremature(i) \/ HubIgnoreFinish(i) \/ HubDisconnect(i)
  BY DEF HubEvent
<1>2. PICK type : Dequeue(type, i)
  BY <1>1 DEF HubWord, HubFinish, HubPremature, HubIgnoreFinish, HubDisconnect
<1>3. /\ queue[1].player = i /\ Head(queue) = queue[1] /\ Len(queue) >= 1
      /\ Len(queue') = Len(queue) - 1
      /\ \A k \in 1 .. Len(queue') : queue'[k] = queue[k + 1]
  BY <1>2, DequeueEffect
<1>4. /\ Len(queue) \in Nat /\ UNCHANGED reader /\ hub = "pop" /\ hub' = "loop"
      /\ \A k \in 1 .. Len(queue) : queue[k].player \in Players
  BY <1>2, QueuedEvents DEF Dequeue, threads
<1>5. \A j \in Players : Silent(j) => Silent(j)'
  BY <1>3, <1>4 DEF Silent
<1>6. \A j \in Players : socket'[j] = "closed" <=> socket[j] = "closed"
  <2>1. UNCHANGED links \/ Broadcast({}) \/ Broadcast({i})
    BY <1>1 DEF HubWord, HubFinish, HubPremature, HubIgnoreFinish, HubDisconnect
  <2> QED
    BY <2>1, BroadcastEffect DEF links
<1>7. finished' = finished \/ (finished' = finished \cup {i} /\ LastEvent(queue[1]))
  BY <1>1, <1>3 DEF HubWord, HubFinish, HubPremature, HubIgnoreFinish, HubDisconnect, Dequeue,
                    Decide, scores, LastEvent, Terminal
<1>8. LastEvent(queue[1]) => reader[i] = "done" /\ Silent(i)'
  <2>1. LastEvent(queue[1]) =>
          /\ reader[i] = "done"
          /\ \A m \in 2 .. Len(queue) : queue[m].player # i
    BY <1>3, <1>4 DEF Streams
  <2> QED
    BY <1>3, <1>4, <2>1 DEF Silent
<1>9. /\ \A j \in Players : socket'[j] = "closed" => reader'[j] = "done" /\ Silent(j)'
      /\ \A j \in Players : reader'[j] \in {"lobby", "leaving"} => Silent(j)'
  BY <1>4, <1>5, <1>6 DEF Streams
<1>10. ~AfterLoop' => \A j \in finished' : reader'[j] = "done" /\ Silent(j)'
  BY <1>4, <1>5, <1>7, <1>8 DEF Streams, AfterLoop, TypeOK, ScoreTypes
<1>11. ASSUME NEW k \in 1 .. Len(queue'), LastEvent(queue'[k])
       PROVE  /\ reader'[queue'[k].player] = "done"
              /\ \A m \in k + 1 .. Len(queue') : queue'[m].player # queue'[k].player
  <2>1. k + 1 \in 1 .. Len(queue) /\ queue'[k] = queue[k + 1]
    BY <1>3, <1>4
  <2>2. /\ reader[queue[k + 1].player] = "done"
        /\ \A m \in k + 2 .. Len(queue) : queue[m].player # queue[k + 1].player
    BY <1>11, <2>1 DEF Streams
  <2> QED
    BY <1>3, <1>4, <2>1, <2>2
<1> QED
  BY <1>9, <1>10, <1>11 DEF Streams

\* The hub's steps outside the handling of events, by what they do to sockets and verdicts.
LEMMA HubOutside ==
    ASSUME TypeOK, Bookkeeping, Lobby, HubStep, ~HubEvent
    PROVE  /\ UNCHANGED <<queue, reader>>
           /\ \A i \in Players : socket'[i] = "closed" <=> socket[i] = "closed"
           /\ ~AfterLoop' => ~AfterLoop
           /\ ~AfterLoop' => \A i \in finished' : i \in finished \/ socket[i] = "closed"
           /\ finished' \in SUBSET Players
<1>1. LinkTypes /\ ScoreTypes
  BY DEF TypeOK
<1>2. CASE HubScan
  BY <1>1, <1>2 DEF HubScan, Lobby, Connected, AfterLoop, threads, channel, ScoreTypes
<1>3. CASE HubTimeout
  BY <1>1, <1>3, BroadcastEffect DEF HubTimeout, AfterLoop, threads, channel, ScoreTypes, Late
<1>4. CASE HubUnblock
  BY <1>1, <1>4 DEF HubUnblock, AfterLoop, threads, channel, scores, LinkTypes, ScoreTypes
<1>5. CASE HubResults
  BY <1>1, <1>5 DEF HubResults, AfterLoop, threads, channel, scores, ScoreTypes
<1>6. CASE \/ HubGreet \/ HubStart \/ HubLeave \/ HubWait \/ HubIdle \/ HubClose \/ HubJoin
  BY <1>1, <1>6 DEF HubGreet, HubStart, HubLeave, HubWait, HubIdle, HubClose, HubJoin,
                    AfterLoop, threads, channel, scores, links, ScoreTypes
<1>7. CASE HubGreets
  BY <1>1, <1>7, GreetsEffect DEF AfterLoop, threads, channel, scores, links, ScoreTypes
<1> QED
  BY <1>2, <1>3, <1>4, <1>5, <1>6, <1>7 DEF HubStep

\* Every step keeps the streams: only a push and an event touch the queue.
LEMMA StreamsStep == TypeOK /\ Bookkeeping /\ Streams /\ Lobby /\ [Next]_vars => Streams'
<1> SUFFICES ASSUME TypeOK, Bookkeeping, Streams, Lobby, [Next]_vars PROVE Streams'
  OBVIOUS
<1>1. LinkTypes /\ ThreadTypes /\ ScoreTypes /\ finished \subseteq Players
  BY DEF TypeOK, ScoreTypes
<1>2. ASSUME NEW i \in Players, Thread(i), ~ReaderPush(i)
      PROVE  Streams'
  <2>1. /\ UNCHANGED <<queue, finished, hub>>
        /\ reader[i] # "done"
        /\ \A j \in Players \ {i} : reader'[j] = reader[j]
        /\ reader'[i] \in {"lobby", "leaving"} => reader[i] \in {"lobby", "leaving"}
        /\ \A j \in Players : socket'[j] = "closed" =>
              socket[j] = "closed" \/ (reader[j] = "leaving" /\ reader'[j] = "done")
    BY <1>1, <1>2 DEF Thread, LobbyWake, LobbyPeek, LobbyLeave, ReaderCheck, RecvByte, RecvEnd,
                      channel, scores, race, links, LinkTypes, ThreadTypes
  <2> QED
    BY <1>1, <2>1, StreamsKept DEF AfterLoop
<1>3. CASE HubStep /\ ~HubEvent
  BY <1>1, <1>3, HubOutside, StreamsKept
<1>4. ASSUME UNCHANGED <<queue, reader, finished, hub>>,
             \A j \in Players : socket'[j] = "closed" => socket[j] = "closed"
      PROVE  Streams'
  BY <1>1, <1>4, StreamsKept DEF AfterLoop
<1>5. CASE \/ UNCHANGED vars \/ \E i \in Players : Client(i)
           \/ Tick \/ StopShutdown \/ StopRelease
  <2>1. /\ UNCHANGED <<queue, reader, finished, hub>>
        /\ \A j \in Players : socket'[j] = "closed" => socket[j] = "closed"
    BY <1>1, <1>5 DEF vars, Client, ClientSend, ClientClose, Tick, StopShutdown, StopRelease,
                      threads, channel, scores, race, links, LinkTypes
  <2> QED
    BY <1>4, <2>1
<1> QED
  BY <1>2, <1>3, <1>5, StreamsPush, StreamsEvent DEF Next, Over

\* Every step keeps the lobby: a thread between peek and return holds startMutex, so the start
\* signal cannot overtake it.
LEMMA LobbyStep == TypeOK /\ Bookkeeping /\ Streams /\ Lobby /\ [Next]_vars => Lobby'
<1> SUFFICES ASSUME TypeOK, Bookkeeping, Streams, Lobby, [Next]_vars PROVE Lobby'
  OBVIOUS
<1>1. LinkTypes /\ ThreadTypes /\ ClientTypes
  BY DEF TypeOK
<1>2. ASSUME NEW i \in Players, Thread(i) PROVE Lobby'
  <2>1. CASE LobbyLeave(i)
    BY <1>1, <2>1 DEF LobbyLeave, Lobby, race, clients, LinkTypes, ThreadTypes
  <2>2. CASE LobbyPeek(i)
    <3>1. ~gameStarted /\ reader[i] = "lobby" /\ (peer[i] = "closed" \/ socket[i] # "open")
      BY <2>2 DEF LobbyPeek, EndOfInput
    <3>2. socket[i] # "closed"
      BY <3>1 DEF Streams
    <3>3. peer[i] = "closed" \/ stop # "no"
      BY <3>1, <3>2 DEF Lobby
    <3> QED
      BY <1>1, <2>2, <3>1, <3>3 DEF LobbyPeek, Lobby, race, links, clients, ThreadTypes
  <2>3. CASE ~LobbyLeave(i) /\ ~LobbyPeek(i)
    BY <1>1, <1>2, <2>3 DEF Thread, LobbyWake, ReaderCheck, RecvByte, RecvEnd, ReaderPush,
                            Lobby, race, links, clients, ThreadTypes
  <2> QED
    BY <2>1, <2>2, <2>3
<1>3. CASE HubStep
  <2>1. UNCHANGED reader /\ (\A i \in Players : socket'[i] = "closed" => i \in disconnected')
    <3>1. CASE HubEvent
      <4>1. PICK i \in Players : UNCHANGED links \/ Broadcast({}) \/ Broadcast({i})
        BY <3>1 DEF HubEvent, HubWord, HubFinish, HubPremature, HubIgnoreFinish, HubDisconnect
      <4>2. UNCHANGED reader
        BY <3>1 DEF HubEvent, HubWord, HubFinish, HubPremature, HubIgnoreFinish, HubDisconnect,
                    Dequeue, threads
      <4> QED
        BY <4>1, <4>2, BroadcastEffect DEF Lobby, links
    <3>2. CASE ~HubEvent
      <4>1. disconnected \subseteq disconnected'
        BY <1>3, <3>2, BroadcastEffect, GreetsEffect
        DEF HubStep, HubScan, HubGreet, HubStart, HubLeave, HubTimeout, HubWait, HubIdle,
            HubClose, HubUnblock, HubJoin, HubResults, links
      <4> QED
        BY <1>3, <3>2, <4>1, HubOutside DEF Lobby
    <3> QED
      BY <3>1, <3>2
  <2>2. gameStarted' => gameStarted \/ StartMutexFree
    BY <1>3, GreetsEffect
    DEF HubStep, HubScan, HubGreet, HubStart, HubLeave, HubTimeout, HubWait, HubIdle,
            HubEvent, HubWord, HubFinish, HubPremature, HubIgnoreFinish, HubDisconnect, Dequeue,
            HubClose, HubUnblock, HubJoin, HubResults
  <2>3. hub' \in {"scan", "greet", "start"} =>
          \A i \in disconnected' : socket'[i] = "closed"
    <3>1. CASE HubScan
      BY <1>1, <3>1 DEF HubScan, Lobby, Connected, LinkTypes
    <3>2. CASE HubGreet
      BY <3>2 DEF HubGreet, Lobby, links
    <3>3. CASE HubGreets
      BY <3>3, GreetsEffect DEF Lobby, links
    <3>4. CASE ~HubScan /\ ~HubGreet /\ ~HubGreets
      BY <1>3, <3>4
      DEF HubStep, HubStart, HubLeave, HubTimeout, HubWait, HubIdle, HubEvent, HubWord, HubFinish,
          HubPremature, HubIgnoreFinish, HubDisconnect, Dequeue, HubClose, HubUnblock, HubJoin,
          HubResults
    <3> QED
      BY <3>1, <3>2, <3>3, <3>4
  <2>4. /\ hub' \notin {"scan", "greet", "start"} => gameStarted'
        /\ ~gameStarted' => UNCHANGED socket
        /\ gameStarted => gameStarted'
        /\ UNCHANGED <<stop, peer>>
    <3>1. CASE HubGreets
      BY <3>1, GreetsEffect DEF Lobby, links, clients
    <3>2. CASE HubScan \/ HubGreet \/ HubStart
      BY <3>2 DEF HubScan, HubGreet, HubStart, Lobby, links, clients
    <3>3. CASE HubEvent
      BY <3>3 DEF HubEvent, HubWord, HubFinish, HubPremature, HubIgnoreFinish, HubDisconnect,
                  Dequeue, Lobby, clients
    <3>4. CASE HubLeave \/ HubTimeout \/ HubWait \/ HubIdle
      BY <3>4 DEF HubLeave, HubTimeout, HubWait, HubIdle, Lobby, clients
    <3>5. CASE HubClose \/ HubUnblock \/ HubJoin \/ HubResults
      BY <3>5 DEF HubClose, HubUnblock, HubJoin, HubResults, Lobby, clients
    <3> QED
      BY <1>3, <3>1, <3>2, <3>3, <3>4, <3>5 DEF HubStep
  <2> QED
    BY <2>1, <2>2, <2>3, <2>4 DEF Lobby, StartMutexFree
<1>4. CASE StopShutdown \/ StopRelease
  BY <1>1, <1>4 DEF StopShutdown, StopRelease, Lobby, StartMutexFree, threads, clients, links, race, LinkTypes
<1>5. CASE UNCHANGED vars \/ Tick \/ \E i \in Players : Client(i)
  BY <1>1, <1>5 DEF vars, Tick, Client, ClientSend, ClientClose, Lobby, threads, clients, links, race,
                    ClientTypes
<1> QED
  BY <1>2, <1>3, <1>4, <1>5 DEF Next, Over

-----------------------------------------------------------------------------
(* Layer 3: somebody reports every player. *)

\* Verdicts, disconnections and refusals are never taken back.
LEMMA MarksGrow ==
    ASSUME TypeOK, Bookkeeping, [Next]_vars
    PROVE  finished \subseteq finished' /\ disconnected \subseteq disconnected' /\ refused \subseteq refused'
<1>1. ASSUME NEW i \in Players, Thread(i)
      PROVE  /\ finished \subseteq finished' /\ disconnected \subseteq disconnected'
             /\ refused \subseteq refused'
  <2>1. CASE ReaderPush(i)
    <3>1. refused \subseteq refused'
      BY <2>1, EnqueueEffect DEF ReaderPush, Bookkeeping
    <3> QED
      BY <2>1, <3>1 DEF ReaderPush, scores, links
  <2>2. CASE ~ReaderPush(i)
    BY <1>1, <2>2 DEF Thread, LobbyWake, LobbyPeek, LobbyLeave, ReaderCheck, RecvByte, RecvEnd,
                      channel, scores, links
  <2> QED
    BY <2>1, <2>2
<1>2. ASSUME HubStep
      PROVE  /\ finished \subseteq finished' /\ disconnected \subseteq disconnected'
             /\ refused \subseteq refused'
  <2>1. UNCHANGED refused /\ finished \subseteq finished'
    BY <1>2, GreetsEffect DEF HubStep, HubScan, HubGreet, HubStart, HubLeave, HubTimeout, HubWait, HubIdle,
            HubEvent, HubWord, HubFinish, HubPremature, HubIgnoreFinish, HubDisconnect, Dequeue,
            HubClose, HubUnblock, HubJoin, HubResults, Decide, channel, scores
  <2>2. ASSUME NEW gone \in SUBSET Players, Broadcast(gone)
        PROVE  disconnected \subseteq disconnected'
    BY <2>2, BroadcastEffect
  <2>3. disconnected \subseteq disconnected'
    BY <1>2, <2>2, GreetsEffect DEF HubStep, HubScan, HubGreet, HubStart, HubLeave, HubTimeout, HubWait, HubIdle,
            HubEvent, HubWord, HubFinish, HubPremature, HubIgnoreFinish, HubDisconnect,
            HubClose, HubUnblock, HubJoin, HubResults, links
  <2> QED
    BY <2>1, <2>3
<1>3. CASE \/ UNCHANGED vars \/ \E i \in Players : Client(i)
           \/ Tick \/ StopShutdown \/ StopRelease
  BY <1>3 DEF vars, Client, ClientSend, ClientClose, Tick, StopShutdown, StopRelease,
              channel, scores, links
<1> QED
  BY <1>1, <1>2, <1>3 DEF Next, Over

\* A reader returns only after its last event is queued or refused, or its player was given up
\* on; the hub takes that event only to decide the player.
LEMMA NobodyForgottenStep ==
    TypeOK /\ Bookkeeping /\ Lobby /\ NobodyForgotten /\ [Next]_vars => NobodyForgotten'
<1> SUFFICES ASSUME TypeOK, Bookkeeping, Lobby, NobodyForgotten, [Next]_vars,
                    NEW i \in Players \ (finished' \cup disconnected' \cup refused')
             PROVE  \/ reader'[i] # "done"
                    \/ \E k \in 1 .. Len(queue') :
                          queue'[k].player = i /\ queue'[k].type \in Terminal
  BY DEF NobodyForgotten
<1>1. i \notin finished /\ i \notin disconnected /\ i \notin refused
  BY MarksGrow
<1>2. \/ reader[i] # "done"
      \/ \E k \in 1 .. Len(queue) : queue[k].player = i /\ queue[k].type \in Terminal
  BY <1>1 DEF NobodyForgotten
<1>3. ThreadTypes /\ LinkTypes /\ Len(queue) \in Nat
  BY QueuedEvents DEF TypeOK
\* A push leaves what was queued where it was, and adds the pusher's event unless refused.
<1>4. ASSUME NEW j \in Players, ReaderPush(j)
      PROVE  \/ reader'[i] # "done"
             \/ \E k \in 1 .. Len(queue') : queue'[k].player = i /\ queue'[k].type \in Terminal
  <2>1. hand[j] \in Event /\ hand[j].player = j /\ Enqueue(hand[j]) /\ reader[j] = "push"
    BY <1>4 DEF ReaderPush, Bookkeeping
  <2>2. \/ queue' = queue /\ j \in refused'
        \/ /\ Len(queue') = Len(queue) + 1
           /\ \A k \in 1 .. Len(queue) : queue'[k] = queue[k]
           /\ queue'[Len(queue')] = hand[j]
    BY <2>1, EnqueueEffect
  <2>3. CASE i = j
    <3>1. queue'[Len(queue')] = hand[j] /\ Len(queue') \in 1 .. Len(queue')
      BY <1>3, <2>2, <2>3
    <3>2. reader'[i] = "done" => hand[j].type \in Terminal
      BY <1>3, <1>4, <2>3 DEF ReaderPush, ThreadTypes, LastEvent
    <3> QED
      BY <2>1, <2>3, <3>1, <3>2
  <2>4. CASE i # j
    <3>1. reader'[i] = reader[i]
      BY <1>3, <1>4, <2>4 DEF ReaderPush, ThreadTypes
    <3> QED
      BY <1>2, <1>3, <2>2, <3>1
  <2> QED
    BY <2>3, <2>4
\* A reader returns silently only when its player is marked disconnected.
<1>5. ASSUME NEW j \in Players, Thread(j), ~ReaderPush(j)
      PROVE  \/ reader'[i] # "done"
             \/ \E k \in 1 .. Len(queue') : queue'[k].player = i /\ queue'[k].type \in Terminal
  <2>1. queue' = queue /\ (reader'[i] = "done" => reader[i] = "done")
    BY <1>1, <1>3, <1>5 DEF Thread, LobbyWake, LobbyPeek, LobbyLeave, ReaderCheck, RecvByte,
                            RecvEnd, channel, ThreadTypes, Lobby
  <2> QED
    BY <1>2, <2>1
\* The hub takes a last event only to decide its player.
<1>6. ASSUME HubEvent
      PROVE  \/ reader'[i] # "done"
             \/ \E k \in 1 .. Len(queue') : queue'[k].player = i /\ queue'[k].type \in Terminal
  <2>1. PICK j \in Players :
          HubWord(j) \/ HubFinish(j) \/ HubPremature(j) \/ HubIgnoreFinish(j) \/ HubDisconnect(j)
    BY <1>6 DEF HubEvent
  <2>2. PICK type : Dequeue(type, j)
    BY <2>1 DEF HubWord, HubFinish, HubPremature, HubIgnoreFinish, HubDisconnect
  <2>3. /\ queue[1].player = j /\ queue[1].type = type
        /\ Len(queue') = Len(queue) - 1
        /\ \A k \in 1 .. Len(queue') : queue'[k] = queue[k + 1]
    BY <2>2, DequeueEffect
  <2>4. queue[1].type \in Terminal => j # i
    BY <1>1, <2>1, <2>3, DequeueEffect
    DEF HubWord, HubFinish, HubPremature, HubIgnoreFinish, HubDisconnect, Dequeue, Decide, Racing,
        Terminal, WORD, FINISH, DISCONNECT
  <2>5. UNCHANGED reader
    BY <2>2 DEF Dequeue, threads
  <2>6. ASSUME NEW k \in 1 .. Len(queue), queue[k].player = i, queue[k].type \in Terminal
        PROVE  \E m \in 1 .. Len(queue') : queue'[m].player = i /\ queue'[m].type \in Terminal
    <3>1. k # 1
      BY <2>3, <2>4, <2>6
    <3>2. k - 1 \in 1 .. Len(queue') /\ queue'[k - 1] = queue[k]
      BY <1>3, <2>3, <3>1
    <3> QED
      BY <2>6, <3>2
  <2> QED
    BY <1>2, <2>5, <2>6
\* No other step touches the queue or the threads.
<1>7. CASE \A j \in Players : ~Thread(j)
  <2>1. UNCHANGED reader
    BY <1>7, WhoChanges DEF threads
  <2>2. UNCHANGED queue \/ HubEvent
    BY <1>7, WhoChanges DEF Thread
  <2> QED
    BY <1>2, <1>6, <2>1, <2>2
<1> QED
  BY <1>4, <1>5, <1>7

-----------------------------------------------------------------------------
(* The safety properties. *)

\* The inductive invariant holds at the start.
LEMMA IInvInit == Init => IInv
<1> SUFFICES ASSUME Init PROVE IInv
  OBVIOUS
<1>1. queue = <<>> /\ Len(<<>>) = 0
  BY EmptySeq DEF Init
<1>2. Streams
  BY <1>1 DEF Init, Streams, Silent
<1>3. Lobby /\ NobodyForgotten
  BY DEF Init, Lobby, NobodyForgotten
<1> QED
  BY <1>2, <1>3, TypeInit, BookInit DEF IInv

\* Every step keeps it: the layers together.
LEMMA IInvStep == IInv /\ [Next]_vars => IInv'
  BY TypeStep, BookStep, StreamsStep, LobbyStep, NobodyForgottenStep DEF IInv

\* The inductive invariant holds in every reachable state of runGameHub and its threads.
THEOREM Invariance == Spec => []IInv
  BY IInvInit, IInvStep, PTL DEF Spec

\* The variables hold values of their kind, whatever the players and the scheduler do.
THEOREM TypeCorrect == Spec => []TypeOK
<1>1. IInv => TypeOK
  BY DEF IInv
<1> QED
  BY <1>1, Invariance, PTL

\* The counter the hub stops on is exact: no player is counted twice, and none is missing
\* when the loop ends (server.c, the four branches that raise finishedPlayers).
THEOREM CountExact == Spec => []EveryoneCountedOnce
<1>1. IInv => EveryoneCountedOnce
  BY DEF IInv, Bookkeeping
<1> QED
  BY <1>1, Invariance, PTL

\* No event of a player who has a verdict ever reaches the hub's loop.
THEOREM OneVerdict == Spec => []OneVerdictPerPlayer
<1>1. IInv => OneVerdictPerPlayer
  BY DEF IInv, Streams, Silent, OneVerdictPerPlayer, AfterLoop, TypeOK, ScoreTypes
<1> QED
  BY <1>1, Invariance, PTL

\* A player without a verdict is reported by somebody, unless a broadcast gave up on him or
\* the queue refused one of his events.
THEOREM NoneForgotten == Spec => []NobodyForgotten
<1>1. IInv => NobodyForgotten
  BY DEF IInv
<1> QED
  BY <1>1, Invariance, PTL

\* Once the race has started no descriptor is closed, so what the hub has tested of activeSocket
\* stays true while it sends; before the start, the greeting included, a lobby thread closes one
\* only when its client has gone or the room is being destroyed (server.c:210-221).
THEOREM SocketsStay == Spec => NoCloseAfterStart
<1>1. ASSUME IInv, [Next]_vars
      PROVE  \A i \in Players : socket[i] # "closed" /\ socket'[i] = "closed" =>
                /\ ~gameStarted /\ hub \in {"scan", "greet", "start"}
                /\ peer[i] = "closed" \/ stop # "no"
  <2> SUFFICES ASSUME NEW i \in Players, socket[i] # "closed", socket'[i] = "closed"
               PROVE  /\ ~gameStarted /\ hub \in {"scan", "greet", "start"}
                      /\ peer[i] = "closed" \/ stop # "no"
    OBVIOUS
  <2>1. TypeOK /\ Bookkeeping /\ Lobby /\ LinkTypes
    BY <1>1 DEF IInv, TypeOK
  <2>2. CASE UNCHANGED links
    BY <2>2 DEF links
  <2>3. ASSUME NEW j \in Players, LobbyLeave(j)
        PROVE  /\ ~gameStarted /\ hub \in {"scan", "greet", "start"}
               /\ peer[i] = "closed" \/ stop # "no"
    BY <2>1, <2>3 DEF LobbyLeave, Lobby, LinkTypes
  <2>4. CASE HubStep
    <3>1. CASE HubEvent
      <4>1. PICK j \in Players : UNCHANGED links \/ Broadcast({}) \/ Broadcast({j})
        BY <3>1 DEF HubEvent, HubWord, HubFinish, HubPremature, HubIgnoreFinish, HubDisconnect
      <4> QED
        BY <2>1, <4>1, BroadcastEffect DEF links
    <3>2. CASE ~HubEvent
      BY <2>1, <2>4, <3>2, HubOutside
    <3> QED
      BY <3>1, <3>2
  <2>5. CASE StopShutdown
    BY <2>1, <2>5 DEF StopShutdown, LinkTypes
  <2> QED
    BY <1>1, <2>2, <2>3, <2>4, <2>5, WhoChanges
<1> QED
  BY <1>1, Invariance, PTL DEF Spec, NoCloseAfterStart

-----------------------------------------------------------------------------
(* The engine's race implements RaceContract. *)

\* The contract begins where the race begins.
LEMMA ContractStart == Init => Promise!ContractInit
  BY DEF Init, Promise!ContractInit, phase, verdict

\* A step that leaves the stage, the scores and the list of informed players alone.
LEMMA ContractStutter ==
    ASSUME UNCHANGED <<scores, informed>>, phase' = phase
    PROVE  UNCHANGED Promise!contractVars
  BY DEF Promise!contractVars, verdict, scores

\* A verdict for player i shows in the contract as a change of his entry alone.
LEMMA VerdictOf ==
    ASSUME TypeOK, NEW i \in Players \ finished, NEW time \in Time \cup {DNF}, Decide(i, time)
    PROVE  verdict[i] = Pending /\ verdict' = [verdict EXCEPT ![i] = time]
  BY DEF Decide, verdict, TypeOK, ScoreTypes

\* The handling of one event advances, decides or drops one player, or changes nothing the
\* contract speaks of.
LEMMA ContractEvent ==
    ASSUME IInv, HubEvent
    PROVE  [Promise!ContractNext]_(Promise!contractVars)
<1>1. TypeOK /\ Bookkeeping /\ ScoreTypes /\ HubTypes
  BY DEF IInv, TypeOK
<1>2. PICK i \in Players :
        HubWord(i) \/ HubFinish(i) \/ HubPremature(i) \/ HubIgnoreFinish(i) \/ HubDisconnect(i)
  BY DEF HubEvent
<1>3. phase = "racing" /\ phase' = "racing" /\ UNCHANGED informed
  BY <1>2 DEF HubWord, HubFinish, HubPremature, HubIgnoreFinish, HubDisconnect, Dequeue, phase
<1>4. CASE UNCHANGED scores
  BY <1>3, <1>4, ContractStutter
<1>5. CASE HubWord(i) /\ Racing(i) /\ progress[i] < TotalWords
  <2>1. verdict[i] = Pending /\ verdict' = verdict
    BY <1>5 DEF HubWord, Racing, verdict
  <2>2. Promise!Advance(i)
    BY <1>3, <1>5, <2>1 DEF HubWord, Promise!Advance
  <2> QED
    BY <2>2 DEF Promise!ContractNext
<1>6. CASE HubFinish(i)
  <2>1. Elapsed(Head(queue).ts) \in Time
    <3>1. Head(queue).ts \in Time /\ raceStart \in Time
      BY <1>1, <1>6, DequeueEffect DEF HubFinish, Dequeue, Event, Bookkeeping, HubTypes
    <3> QED
      BY <3>1, RaceAssumption DEF Elapsed, Time, RaceAssumption
  <2>2. verdict[i] = Pending /\ verdict' = [verdict EXCEPT ![i] = Elapsed(Head(queue).ts)]
    BY <1>1, <1>6, <2>1, VerdictOf DEF HubFinish, Racing
  <2>3. Promise!Finish(i, Elapsed(Head(queue).ts))
    BY <1>3, <1>6, <2>2 DEF HubFinish, WordsSuffice, Promise!Finish
  <2> QED
    BY <2>1, <2>3 DEF Promise!ContractNext
<1>7. CASE HubPremature(i) \/ (HubDisconnect(i) /\ i \notin finished)
  <2>1. verdict[i] = Pending /\ verdict' = [verdict EXCEPT ![i] = DNF] /\ UNCHANGED progress
    BY <1>1, <1>7, VerdictOf DEF HubPremature, HubDisconnect, Racing
  <2>2. Promise!Drop(i)
    BY <1>3, <2>1 DEF Promise!Drop
  <2> QED
    BY <2>2 DEF Promise!ContractNext
<1> QED
  BY <1>2, <1>4, <1>5, <1>6, <1>7 DEF HubWord, HubIgnoreFinish, HubDisconnect, scores

\* Every step of the race is a step of the contract or a stutter.
LEMMA ContractStep == IInv /\ [Next]_vars => [Promise!ContractNext]_(Promise!contractVars)
<1> SUFFICES ASSUME IInv, [Next]_vars PROVE [Promise!ContractNext]_(Promise!contractVars)
  OBVIOUS
<1>1. TypeOK /\ Bookkeeping /\ ScoreTypes /\ Lobby
  BY DEF IInv, TypeOK
<1>2. CASE HubScan
  <2> DEFINE gone == {i \in Players : ~Connected(i)}
  <2>1. /\ finished = {} /\ finished' = gone
        /\ timeTaken' = [i \in Players |-> IF i \in gone THEN DNF ELSE timeTaken[i]]
        /\ hub = "scan" /\ hub' = "greet" /\ UNCHANGED <<progress, informed>>
    BY <1>1, <1>2 DEF HubScan, Bookkeeping
  <2>2. gone \in SUBSET Players
    OBVIOUS
  <2> HIDE DEF gone
  <2>3. verdict' = [i \in Players |-> IF i \in gone THEN DNF ELSE Pending]
    BY <2>1 DEF verdict
  <2>4. phase = "lobby" /\ phase' = "racing"
    BY <2>1 DEF phase
  <2>5. Promise!Begin(gone)
    BY <2>1, <2>3, <2>4 DEF Promise!Begin
  <2> QED
    BY <2>2, <2>5 DEF Promise!ContractNext
<1>3. CASE HubLeave \/ HubTimeout
  <2>1. /\ finished \subseteq Players /\ finished' = Players
        /\ \A i \in finished : timeTaken[i] # Pending
        /\ timeTaken \in [Players -> Time \cup {DNF}]
    <3>1. finished' = Players
      BY <1>1, <1>3, PlayerSets DEF HubLeave, HubTimeout, AllCounted, Late, Bookkeeping,
                                    EveryoneCountedOnce, scores, ScoreTypes
    <3> QED
      BY <1>1, <3>1, RaceAssumption DEF ScoreTypes, Pending, Time, DNF, RaceAssumption
  <2>2. \A i \in Players : timeTaken'[i] = IF i \in finished THEN timeTaken[i] ELSE DNF
    <3>1. CASE HubLeave
      BY <1>1, <2>1, <3>1 DEF HubLeave, scores
    <3>2. CASE HubTimeout
      BY <2>1, <3>2 DEF HubTimeout, Late
    <3> QED
      BY <1>3, <3>1, <3>2
  <2>3. verdict' = [i \in Players |-> IF verdict[i] = Pending THEN DNF ELSE verdict[i]]
    BY <2>1, <2>2 DEF verdict
  <2>4. /\ phase = "racing" /\ phase' = "settled"
        /\ UNCHANGED <<progress, informed>>
    BY <1>3 DEF HubLeave, HubTimeout, phase, scores
  <2>5. Promise!Settle
    BY <2>3, <2>4 DEF Promise!Settle
  <2> QED
    BY <2>5 DEF Promise!ContractNext
<1>4. CASE HubResults
  <2>1. PICK to \in SUBSET Players : informed' = to
    BY <1>4 DEF HubResults
  <2>2. verdict' = verdict /\ UNCHANGED progress /\ phase = "settled" /\ phase' = "announced"
    BY <1>4 DEF HubResults, scores, verdict, phase
  <2>3. Promise!Announce(to)
    BY <2>1, <2>2 DEF Promise!Announce
  <2> QED
    BY <2>3 DEF Promise!ContractNext
<1>5. CASE \/ HubGreets \/ HubGreet \/ HubStart \/ HubWait \/ HubIdle
           \/ HubClose \/ HubUnblock \/ HubJoin
  <2>1. phase' = phase /\ UNCHANGED <<scores, informed>>
    BY <1>5, GreetsEffect DEF HubGreet, HubStart, HubWait, HubIdle, HubClose, HubUnblock, HubJoin, phase
  <2> QED
    BY <2>1, ContractStutter
<1>6. CASE \/ UNCHANGED vars \/ \E i \in Players : Client(i) \/ Thread(i)
           \/ Tick \/ StopShutdown \/ StopRelease
  <2>1. UNCHANGED <<hub, scores, informed>>
    BY <1>6 DEF vars, race, Client, ClientSend, ClientClose, Tick, StopShutdown, StopRelease,
                Thread, LobbyWake, LobbyPeek, LobbyLeave, ReaderCheck, RecvByte, RecvEnd,
                ReaderPush
  <2> QED
    BY <2>1, ContractStutter DEF phase
<1> QED
  BY <1>2, <1>3, <1>4, <1>5, <1>6, ContractEvent DEF Next, HubStep, Over

\* Whatever the scheduler and the clients do, the engine keeps the contract: one verdict per
\* player, kept; a time only after the words; results only when everybody has a verdict.
THEOREM ImplementsContract == Spec => KeepsContract
<1>1. Spec => Promise!ContractInit
  BY ContractStart DEF Spec
<1>2. IInv /\ [Next]_vars => [Promise!ContractNext]_(Promise!contractVars)
  BY ContractStep
<1> QED
  BY <1>1, <1>2, Invariance, PTL DEF Spec, KeepsContract, Promise!Contract

-----------------------------------------------------------------------------
(* Counting members of a sequence. *)

\* The places of s with a value of Q.
Where(s, Q) == {k \in 1 .. Len(s) : s[k] \in Q}

\* A sequence has finitely many places.
LEMMA WhereFinite ==
    ASSUME NEW S, NEW s \in Seq(S), NEW Q
    PROVE  /\ Len(s) \in Nat
           /\ IsFiniteSet(Where(s, Q)) /\ Cardinality(Where(s, Q)) \in Nat
<1>1. Len(s) \in Nat
  BY LenProperties
<1>2. IsFiniteSet(1 .. Len(s)) /\ Where(s, Q) \subseteq 1 .. Len(s)
  BY <1>1, FS_Interval DEF Where
<1>3. IsFiniteSet(Where(s, Q))
  BY <1>2, FS_Subset
<1> QED
  BY <1>1, <1>3, FS_CardinalityType

\* One more element at the end.
LEMMA WhereAppend ==
    ASSUME NEW S, NEW s \in Seq(S), NEW t \in Seq(S), NEW Q,
           Len(t) = Len(s) + 1, \A k \in 1 .. Len(s) : t[k] = s[k]
    PROVE  Cardinality(Where(t, Q)) = Cardinality(Where(s, Q)) + IF t[Len(t)] \in Q THEN 1 ELSE 0
<1>1. Len(s) \in Nat /\ IsFiniteSet(Where(s, Q)) /\ Cardinality(Where(s, Q)) \in Nat
  BY WhereFinite
<1>2. CASE t[Len(t)] \in Q
  <2>1. Where(t, Q) = Where(s, Q) \cup {Len(t)} /\ Len(t) \notin Where(s, Q)
    BY <1>1, <1>2 DEF Where
  <2>2. Cardinality(Where(s, Q) \cup {Len(t)}) = Cardinality(Where(s, Q)) + 1
    BY <1>1, <2>1, FS_AddElement
  <2> QED
    BY <1>2, <2>1, <2>2
<1>3. CASE t[Len(t)] \notin Q
  <2>1. Where(t, Q) = Where(s, Q)
    BY <1>1, <1>3 DEF Where
  <2> QED
    BY <1>1, <1>3, <2>1
<1> QED
  BY <1>2, <1>3

\* One element less at the head: the other places move up by one.
LEMMA WhereTail ==
    ASSUME NEW S, NEW s \in Seq(S), NEW t \in Seq(S), NEW Q,
           Len(s) >= 1, Len(t) = Len(s) - 1, \A k \in 1 .. Len(t) : t[k] = s[k + 1]
    PROVE  Cardinality(Where(s, Q)) = Cardinality(Where(t, Q)) + IF s[1] \in Q THEN 1 ELSE 0
<1> DEFINE rest == Where(s, Q) \ {1}
           up == [k \in Where(t, Q) |-> k + 1]
<1>1. /\ Len(s) \in Nat /\ IsFiniteSet(Where(s, Q)) /\ Cardinality(Where(s, Q)) \in Nat
      /\ Len(t) \in Nat /\ IsFiniteSet(Where(t, Q)) /\ Cardinality(Where(t, Q)) \in Nat
  BY WhereFinite
<1>2. up \in Bijection(Where(t, Q), rest)
  <2>1. \A k \in Where(t, Q) : k \in Nat /\ up[k] = k + 1 /\ k + 1 \in rest
    BY <1>1 DEF Where
  <2>2. up \in [Where(t, Q) -> rest]
    BY <2>1
  <2>3. ASSUME NEW j \in Where(t, Q), NEW k \in Where(t, Q), up[j] = up[k] PROVE j = k
    BY <2>1, <2>3
  <2>4. ASSUME NEW m \in rest PROVE \E k \in Where(t, Q) : up[k] = m
    <3>1. m \in 2 .. Len(s) /\ s[m] \in Q
      BY <1>1 DEF Where
    <3>2. m - 1 \in 1 .. Len(t) /\ (m - 1) + 1 = m
      BY <1>1, <3>1
    <3>3. m - 1 \in Where(t, Q)
      BY <3>1, <3>2 DEF Where
    <3> QED
      BY <2>1, <3>2, <3>3
  <2> HIDE DEF up, rest
  <2> QED
    BY <2>2, <2>3, <2>4 DEF Bijection, Injection, Surjection, IsInjective
<1>3. Cardinality(Where(t, Q)) = Cardinality(rest)
  <2>1. ExistsBijection(Where(t, Q), rest)
    BY <1>2 DEF ExistsBijection
  <2>2. IsFiniteSet(rest)
    BY <1>1, FS_RemoveElement
  <2> HIDE DEF rest
  <2> QED
    BY <1>1, <2>1, <2>2, FS_Bijection
<1>4. CASE s[1] \in Q
  <2>1. 1 \in Where(s, Q)
    BY <1>1, <1>4 DEF Where
  <2>2. Cardinality(rest) = Cardinality(Where(s, Q)) - 1
    BY <1>1, <2>1, FS_RemoveElement
  <2> HIDE DEF rest
  <2> QED
    BY <1>1, <1>3, <1>4, <2>2
<1>5. CASE s[1] \notin Q
  <2>1. rest = Where(s, Q)
    BY <1>5 DEF Where
  <2> HIDE DEF rest, up
  <2> QED
    BY <1>1, <1>3, <1>5, <2>1
<1> QED
  BY <1>4, <1>5

-----------------------------------------------------------------------------
(* What the hub does to results. *)

\* Outside the handling of events the hub gives nobody a time and takes none away: the scan
\* and the timeout touch players without one.
LEMMA QuietHub ==
    ASSUME IInv, Stamps, HubStep, ~HubEvent
    PROVE  /\ UNCHANGED <<now, queue, reader, hand, inbox, words, progress, timeTaken, firstFinish>>
           /\ finished \subseteq finished'
           /\ raceStart' = raceStart \/ (hub = "greet" /\ hub' = "start" /\ raceStart' = now)
           /\ hub' \in {"scan", "greet"} => hub \in {"scan", "greet"}
<1> USE DEF threads, channel, clients
<1>0. timeTaken \in [Players -> Time \cup {DNF}]
  BY DEF IInv, TypeOK, ScoreTypes
<1>1. CASE HubScan
  <2>1. \A i \in Players : timeTaken[i] = DNF
    BY <1>1 DEF HubScan, Stamps
  <2>2. timeTaken' = timeTaken
    BY <1>0, <1>1, <2>1 DEF HubScan
  <2> QED
    BY <1>1, <2>2 DEF HubScan
<1>2. CASE HubTimeout
  <2>1. \A i \in Late : timeTaken[i] = DNF
    BY DEF Late, Stamps
  <2>2. timeTaken' = timeTaken
    BY <1>0, <1>2, <2>1 DEF HubTimeout
  <2> QED
    BY <1>2, <2>2 DEF HubTimeout
<1>3. CASE HubGreets \/ HubGreet
  BY <1>3, GreetsEffect DEF HubGreet, scores
<1>4. CASE HubResults
  BY <1>4 DEF HubResults, scores
<1>5. CASE HubStart \/ HubLeave \/ HubWait \/ HubIdle
  BY <1>5 DEF HubStart, HubLeave, HubWait, HubIdle, scores
<1>6. CASE HubClose \/ HubUnblock \/ HubJoin
  BY <1>6 DEF HubClose, HubUnblock, HubJoin, scores
<1> QED
  BY <1>1, <1>2, <1>3, <1>4, <1>5, <1>6 DEF HubStep

\* The handling of an event: player i finishes in time, or nobody gets a time.  A word is
\* credited at most once, to the player whose event it is.
LEMMA EventEffect ==
    ASSUME IInv, Stamps, HubEvent
    PROVE  \E i \in Players :
              /\ UNCHANGED <<now, reader, hand, inbox, words, raceStart>>
              /\ hub = "pop" /\ hub' = "loop"
              /\ queue \in Seq(Event) /\ queue' \in Seq(Event)
              /\ Len(queue) >= 1 /\ Len(queue') = Len(queue) - 1
              /\ \A k \in 1 .. Len(queue') : queue'[k] = queue[k + 1]
              /\ queue[1] \in Event /\ queue[1].player = i
              /\ finished \subseteq finished'
              /\ \/ /\ UNCHANGED <<timeTaken, firstFinish>>
                    /\ \/ UNCHANGED progress
                       \/ /\ queue[1].type = WORD /\ i \notin finished
                          /\ progress' = [progress EXCEPT ![i] = @ + 1]
                 \/ /\ queue[1].type = FINISH /\ i \notin finished /\ i \in finished'
                    /\ progress[i] >= TotalWords - 1
                    /\ progress' = [progress EXCEPT ![i] = TotalWords]
                    /\ timeTaken' = [timeTaken EXCEPT ![i] = Elapsed(queue[1].ts)]
                    /\ firstFinish' = IF firstFinish = None THEN now ELSE firstFinish
<1>0. TypeOK /\ timeTaken \in [Players -> Time \cup {DNF}] /\ queue \in Seq(Event)
  BY DEF IInv, TypeOK, ScoreTypes, ChannelTypes
<1>1. PICK i \in Players :
        HubWord(i) \/ HubFinish(i) \/ HubPremature(i) \/ HubIgnoreFinish(i) \/ HubDisconnect(i)
  BY DEF HubEvent
<1>2. PICK type : Dequeue(type, i)
  BY <1>1 DEF HubWord, HubFinish, HubPremature, HubIgnoreFinish, HubDisconnect
<1>3. /\ queue[1] \in Event /\ queue[1].player = i /\ Head(queue) = queue[1]
      /\ Len(queue) >= 1 /\ queue' \in Seq(Event) /\ Len(queue') = Len(queue) - 1
      /\ \A k \in 1 .. Len(queue') : queue'[k] = queue[k + 1]
  BY <1>0, <1>2, DequeueEffect
<1>4. /\ UNCHANGED <<now, reader, hand, inbox, words, raceStart>>
      /\ hub = "pop" /\ hub' = "loop"
  BY <1>2 DEF Dequeue, threads, clients
<1>5. CASE HubWord(i)
  <2>1. queue[1].type = WORD /\ UNCHANGED <<timeTaken, firstFinish, finished>>
    BY <1>3, <1>5 DEF HubWord, Dequeue
  <2>2. UNCHANGED progress \/ (i \notin finished /\ progress' = [progress EXCEPT ![i] = @ + 1])
    BY <1>5 DEF HubWord, Racing
  <2> QED
    BY <1>0, <1>3, <1>4, <2>1, <2>2
<1>6. CASE HubFinish(i)
  <2>1. /\ queue[1].type = FINISH /\ i \notin finished /\ finished' = finished \cup {i}
        /\ progress[i] >= TotalWords - 1
        /\ progress' = [progress EXCEPT ![i] = TotalWords]
        /\ timeTaken' = [timeTaken EXCEPT ![i] = Elapsed(queue[1].ts)]
        /\ firstFinish' = IF firstFinish = None THEN now ELSE firstFinish
    BY <1>3, <1>6 DEF HubFinish, Dequeue, Racing, WordsSuffice, Decide
  <2> QED
    BY <1>0, <1>3, <1>4, <2>1
<1>7. CASE HubPremature(i)
  <2>1. /\ i \notin finished /\ UNCHANGED <<progress, firstFinish>>
        /\ finished' = finished \cup {i} /\ timeTaken' = [timeTaken EXCEPT ![i] = DNF]
    BY <1>7 DEF HubPremature, Racing, Decide
  <2>2. timeTaken' = timeTaken
    BY <1>0, <2>1 DEF Stamps
  <2> QED
    BY <1>0, <1>3, <1>4, <2>1, <2>2
<1>8. CASE HubIgnoreFinish(i)
  <2>1. UNCHANGED <<progress, firstFinish, timeTaken, finished>>
    BY <1>8 DEF HubIgnoreFinish, scores
  <2> QED
    BY <1>0, <1>3, <1>4, <2>1
<1>9. CASE HubDisconnect(i)
  <2>1. UNCHANGED <<progress, firstFinish>> /\ finished \subseteq finished'
    BY <1>9 DEF HubDisconnect, Decide
  <2>2. timeTaken' = timeTaken
    BY <1>0, <1>9 DEF HubDisconnect, Decide, Stamps
  <2> QED
    BY <1>0, <1>3, <1>4, <2>1, <2>2
<1> QED
  BY <1>1, <1>5, <1>6, <1>7, <1>8, <1>9

\* The steps that leave queue, threads and results as they are.
LEMMA Bystanders ==
    ASSUME UNCHANGED vars \/ (\E i \in Players : Client(i)) \/ Tick \/ StopShutdown \/ StopRelease
    PROVE  /\ UNCHANGED <<queue, reader, hand, hub, raceStart, firstFinish, finished, timeTaken, progress>>
           /\ now' = now \/ now' = now + 1
  BY DEF vars, Client, ClientSend, ClientClose, Tick, StopShutdown, StopRelease,
         threads, channel, scores, race

\* A thread changes neither the clock nor the results.
LEMMA ThreadEffect ==
    ASSUME NEW i \in Players, Thread(i)
    PROVE  /\ UNCHANGED <<now, hub, raceStart, firstFinish, finished, timeTaken, progress, words>>
           /\ ~ReaderPush(i) => UNCHANGED queue
  BY DEF Thread, LobbyWake, LobbyPeek, LobbyLeave, ReaderCheck, RecvByte, RecvEnd, ReaderPush,
         channel, scores, race, clients

-----------------------------------------------------------------------------
(* Times. *)

\* The ranges of what the results are made of.
LEMMA Ranges ==
    ASSUME TypeOK
    PROVE  /\ now \in Nat /\ raceStart \in Int /\ firstFinish \in Int
           /\ Len(queue) \in Nat
           /\ \A k \in 1 .. Len(queue) : queue[k] \in Event /\ queue[k].ts \in Nat
           /\ reader \in [Players -> ReaderState] /\ hand \in [Players -> Event \cup {NoEvent}]
           /\ timeTaken \in [Players -> Time \cup {DNF}]
           /\ \A t \in Time : t \in Nat
<1>1. \A t \in Time : t \in Nat
  BY RaceAssumption DEF Time
<1>2. Len(queue) \in Nat /\ \A k \in 1 .. Len(queue) : queue[k] \in Event
  BY QueuedEvents
<1>3. \A k \in 1 .. Len(queue) : queue[k].ts \in Nat
  BY <1>1, <1>2 DEF Event
<1>4. now \in Nat /\ raceStart \in Int /\ firstFinish \in Int
  BY <1>1 DEF TypeOK, HubTypes, None
<1> QED
  BY <1>1, <1>2, <1>3, <1>4 DEF TypeOK, ThreadTypes, ScoreTypes

\* Every step keeps the stamps in the past.
LEMMA StampsStep == ASSUME IInv, Stamps, [Next]_vars PROVE Stamps'
<1>0. /\ TypeOK /\ Bookkeeping /\ now \in Nat /\ raceStart \in Int
      /\ Len(queue) \in Nat /\ \A k \in 1 .. Len(queue) : queue[k] \in Event /\ queue[k].ts \in Nat
      /\ reader \in [Players -> ReaderState] /\ hand \in [Players -> Event \cup {NoEvent}]
      /\ timeTaken \in [Players -> Time \cup {DNF}]
  BY Ranges DEF IInv
<1>1. ASSUME NEW i \in Players, Thread(i) PROVE Stamps'
  <2>1. UNCHANGED <<now, hub, raceStart, finished, timeTaken>>
    BY <1>1, ThreadEffect
  <2>2. CASE ReaderPush(i)
    <3>1. hand[i] \in Event /\ hand[i].ts <= now /\ Enqueue(hand[i])
      BY <2>2 DEF ReaderPush, IInv, Bookkeeping, Stamps
    <3>2. \/ queue' = queue
          \/ /\ Len(queue') = Len(queue) + 1
             /\ \A k \in 1 .. Len(queue) : queue'[k] = queue[k]
             /\ queue'[Len(queue')] = hand[i]
      BY <1>0, <3>1, EnqueueEffect
    <3>3. \A k \in 1 .. Len(queue') : queue'[k].ts <= now
      BY <1>0, <3>1, <3>2 DEF Stamps
    <3>4. \A j \in Players : reader'[j] = "push" => reader[j] = "push" /\ hand'[j] = hand[j]
      BY <1>0, <2>2 DEF ReaderPush
    <3> QED
      BY <2>1, <3>3, <3>4 DEF Stamps
  <2>3. CASE ~ReaderPush(i)
    <3>1. UNCHANGED queue
      BY <1>1, <2>3, ThreadEffect
    <3>2. ASSUME NEW j \in Players, reader'[j] = "push"
          PROVE  (reader[j] = "push" /\ hand'[j] = hand[j]) \/ hand'[j].ts \in {0, now}
      BY <1>0, <1>1, <2>3, <3>2
      DEF Thread, LobbyWake, LobbyPeek, LobbyLeave, ReaderCheck, RecvByte, RecvEnd, ReaderState
    <3> QED
      BY <1>0, <2>1, <3>1, <3>2 DEF Stamps
  <2> QED
    BY <2>2, <2>3
<1>2. CASE HubStep /\ ~HubEvent
  <2>1. /\ UNCHANGED <<now, queue, reader, hand, timeTaken>>
        /\ finished \subseteq finished'
        /\ raceStart' = raceStart \/ raceStart' = now
        /\ hub' \in {"scan", "greet"} => hub \in {"scan", "greet"}
    BY <1>2, QuietHub
  <2> QED
    BY <1>0, <2>1 DEF Stamps
<1>3. CASE HubEvent
  <2>1. PICK i \in Players :
          /\ UNCHANGED <<now, reader, hand, raceStart>> /\ hub' = "loop"
          /\ Len(queue') = Len(queue) - 1
          /\ \A k \in 1 .. Len(queue') : queue'[k] = queue[k + 1]
          /\ finished \subseteq finished'
          /\ \/ UNCHANGED timeTaken
             \/ i \in finished' /\ timeTaken' = [timeTaken EXCEPT ![i] = Elapsed(queue[1].ts)]
    BY <1>3, EventEffect
  <2>2. \A k \in 1 .. Len(queue') : queue'[k].ts <= now
    BY <1>0, <2>1, SMTT(30) DEF Stamps
  <2>3. \A j \in Players : timeTaken'[j] # DNF => j \in finished'
    BY <1>0, <2>1 DEF Stamps
  <2> QED
    BY <2>1, <2>2, <2>3 DEF Stamps
<1>4. CASE UNCHANGED vars \/ (\E i \in Players : Client(i)) \/ Tick \/ StopShutdown \/ StopRelease
  <2>1. /\ UNCHANGED <<queue, reader, hand, hub, raceStart, finished, timeTaken>>
        /\ now' = now \/ now' = now + 1
    BY <1>4, Bystanders
  <2>2. \A j \in Players : reader[j] = "push" => hand[j].ts \in Nat
    BY <1>0, RaceAssumption DEF Bookkeeping, Event, Time, RaceAssumption
  <2> QED
    BY <1>0, <2>1, <2>2 DEF Stamps
<1> QED
  BY <1>1, <1>2, <1>3, <1>4 DEF Next, Over

\* Every step keeps the times within the race.
LEMMA TimesStep ==
    ASSUME IInv, Stamps, TimesWithinRace, [Next]_vars
    PROVE  TimesWithinRace'
<1>0. /\ TypeOK /\ now \in Nat /\ raceStart \in Int /\ firstFinish \in Int /\ Len(queue) \in Nat
      /\ \A k \in 1 .. Len(queue) : queue[k] \in Event /\ queue[k].ts \in Nat
      /\ timeTaken \in [Players -> Time \cup {DNF}]
      /\ \A t \in Time : t \in Nat
      /\ finished \subseteq Players
  BY Ranges DEF IInv, TypeOK, ScoreTypes
<1>1. ASSUME UNCHANGED <<raceStart, firstFinish, timeTaken>>, finished \subseteq finished',
             now' = now \/ now' = now + 1
      PROVE  TimesWithinRace'
  <2>1. \A i \in Players : timeTaken'[i] # DNF => timeTaken'[i] <= now' - raceStart'
    BY <1>0, <1>1 DEF TimesWithinRace, DNF
  <2> QED
    BY <1>1, <2>1 DEF TimesWithinRace
<1>2. ASSUME NEW i \in Players, Thread(i) PROVE TimesWithinRace'
  BY <1>1, <1>2, ThreadEffect
<1>3. CASE UNCHANGED vars \/ (\E i \in Players : Client(i)) \/ Tick \/ StopShutdown \/ StopRelease
  BY <1>1, <1>3, Bystanders
<1>4. CASE HubStep /\ ~HubEvent
  <2>1. /\ UNCHANGED <<now, timeTaken, firstFinish>> /\ finished \subseteq finished'
        /\ raceStart' = raceStart \/ hub = "greet"
    BY <1>4, QuietHub
  <2>2. CASE raceStart' = raceStart
    BY <1>1, <2>1, <2>2
  <2>3. CASE hub = "greet"
    <3>1. \A i \in Players : timeTaken[i] = DNF
      BY <2>3 DEF Stamps
    <3> QED
      BY <2>1, <3>1 DEF TimesWithinRace
  <2> QED
    BY <2>1, <2>2, <2>3
<1>5. CASE HubEvent
  <2>1. PICK i \in Players :
          /\ UNCHANGED <<now, raceStart>> /\ hub = "pop" /\ Len(queue) >= 1
          /\ finished \subseteq finished'
          /\ \/ UNCHANGED <<timeTaken, firstFinish>>
             \/ /\ i \notin finished /\ i \in finished'
                /\ timeTaken' = [timeTaken EXCEPT ![i] = Elapsed(queue[1].ts)]
                /\ firstFinish' = IF firstFinish = None THEN now ELSE firstFinish
    BY <1>5, EventEffect
  <2>2. CASE UNCHANGED <<timeTaken, firstFinish>>
    BY <1>1, <2>1, <2>2
  <2>3. CASE /\ i \notin finished /\ i \in finished'
             /\ timeTaken' = [timeTaken EXCEPT ![i] = Elapsed(queue[1].ts)]
             /\ firstFinish' = IF firstFinish = None THEN now ELSE firstFinish
    <3>1. queue[1].ts \in Nat /\ queue[1].ts <= now
      BY <1>0, <2>1 DEF Stamps
    <3>2. raceStart <= now
      BY DEF Stamps
    <3>3. timeTaken'[i] = Elapsed(queue[1].ts) /\ \A j \in Players \ {i} : timeTaken'[j] = timeTaken[j]
      BY <1>0, <2>3
    <3>4. timeTaken'[i] # DNF /\ timeTaken'[i] <= now - raceStart
      BY <1>0, <3>1, <3>2, <3>3 DEF Elapsed, DNF
    <3>5. \A j \in Players : timeTaken'[j] # DNF => timeTaken'[j] <= now' - raceStart'
      BY <2>1, <3>3, <3>4 DEF TimesWithinRace
    <3>6. firstFinish' # None
      BY <1>0, <2>3 DEF None
    <3>7. \E j \in finished' : timeTaken'[j] # DNF /\ timeTaken'[j] <= firstFinish' - raceStart'
      <4>1. CASE firstFinish = None
        BY <2>1, <2>3, <3>4, <4>1
      <4>2. CASE firstFinish # None
        <5>1. PICK j \in finished : timeTaken[j] # DNF /\ timeTaken[j] <= firstFinish - raceStart
          BY <4>2 DEF TimesWithinRace
        <5>2. j \in Players \ {i} /\ j \in finished' /\ timeTaken'[j] = timeTaken[j]
          BY <1>0, <2>1, <2>3, <3>3, <5>1
        <5> QED
          BY <2>1, <2>3, <4>2, <5>1, <5>2
      <4> QED
        BY <4>1, <4>2
    <3> QED
      BY <3>4, <3>5, <3>6, <3>7 DEF TimesWithinRace
  <2> QED
    BY <2>1, <2>2, <2>3
<1> QED
  BY <1>2, <1>3, <1>4, <1>5 DEF Next, Over

-----------------------------------------------------------------------------
(* Words. *)

\* The events that report a word of player i.
WordsOf(i) == {e \in Event : e.player = i /\ e.type = WORD}

\* The words on their way as places of sequences, before a step and after it.
LEMMA WordPlaces ==
    ASSUME NEW i \in Players
    PROVE  /\ WordsUnread(i) = Where(inbox[i], {WORD})
           /\ WordsUnread(i)' = Where(inbox'[i], {WORD})
           /\ TypeOK => WordsQueued(i) = Where(queue, WordsOf(i))
           /\ TypeOK' => WordsQueued(i)' = Where(queue', WordsOf(i))
<1>1. ASSUME TypeOK PROVE WordsQueued(i) = Where(queue, WordsOf(i))
  <2>1. \A k \in 1 .. Len(queue) : queue[k] \in Event
    BY <1>1, QueuedEvents
  <2> QED
    BY <2>1 DEF WordsQueued, Where, WordsOf
<1>2. ASSUME TypeOK' PROVE WordsQueued(i)' = Where(queue', WordsOf(i))
  <2>1. queue' \in Seq(Event)
    BY <1>2 DEF TypeOK, ChannelTypes
  <2>2. \A k \in 1 .. Len(queue') : queue'[k] \in Event
    BY <2>1, ElementOfSeq
  <2> QED
    BY <2>2 DEF WordsQueued, Where, WordsOf
<1> QED
  BY <1>1, <1>2 DEF WordsUnread, Where

\* They can be counted.
LEMMA WordCounts ==
    ASSUME TypeOK, NEW i \in Players
    PROVE  /\ inbox[i] \in Seq(Bytes) /\ queue \in Seq(Event)
           /\ Cardinality(WordsUnread(i)) \in Nat /\ Cardinality(WordsQueued(i)) \in Nat
           /\ WordsInHand(i) \in {0, 1}
           /\ progress[i] \in Nat /\ words[i] \in Nat
<1>1. inbox[i] \in Seq(Bytes) /\ queue \in Seq(Event)
  BY DEF TypeOK, ChannelTypes
<1>2. Cardinality(WordsUnread(i)) \in Nat /\ Cardinality(WordsQueued(i)) \in Nat
  BY <1>1, WordPlaces, WhereFinite
<1>3. progress[i] \in Nat /\ words[i] \in Nat
  BY RaceAssumption DEF TypeOK, ScoreTypes, ClientTypes
<1> QED
  BY <1>1, <1>2, <1>3 DEF WordsInHand

\* What does not change is counted as before.
LEMMA SameCounts ==
    ASSUME NEW i \in Players
    PROVE  /\ inbox'[i] = inbox[i] => WordsUnread(i)' = WordsUnread(i)
           /\ queue' = queue => WordsQueued(i)' = WordsQueued(i)
           /\ reader'[i] = reader[i] /\ hand'[i] = hand[i] => WordsInHand(i)' = WordsInHand(i)
           /\ reader'[i] # "push" => WordsInHand(i)' = 0
  BY DEF WordsUnread, WordsQueued, WordsInHand

\* Reading a byte moves a word from the unread ones to the thread's hand; a discarded inbox has
\* none.
LEMMA UnreadTail ==
    ASSUME TypeOK, TypeOK', NEW i \in Players, inbox[i] # <<>>, inbox'[i] = Tail(inbox[i])
    PROVE  Cardinality(WordsUnread(i)) =
              Cardinality(WordsUnread(i)') + IF Head(inbox[i]) = WORD THEN 1 ELSE 0
<1>1. inbox[i] \in Seq(Bytes) /\ inbox'[i] \in Seq(Bytes)
  BY DEF TypeOK
<1>2. /\ Len(inbox[i]) \in Nat \ {0} /\ Head(inbox[i]) = inbox[i][1]
      /\ Len(inbox'[i]) = Len(inbox[i]) - 1
      /\ \A k \in 1 .. Len(inbox'[i]) : inbox'[i][k] = inbox[i][k + 1]
  BY <1>1, EmptySeq, HeadTailProperties
<1>3. PICK s \in Seq(Bytes), t \in Seq(Bytes) : s = inbox[i] /\ t = inbox'[i]
  BY <1>1
<1>4. Cardinality(Where(s, {WORD})) =
          Cardinality(Where(t, {WORD})) + IF s[1] \in {WORD} THEN 1 ELSE 0
  <2>1. Len(s) >= 1 /\ Len(t) = Len(s) - 1 /\ \A k \in 1 .. Len(t) : t[k] = s[k + 1]
    BY <1>2, <1>3
  <2> QED
    BY <2>1, WhereTail
<1> QED
  BY <1>2, <1>3, <1>4, WordPlaces

\* An empty inbox holds no words.
LEMMA UnreadNone ==
    ASSUME NEW i \in Players, inbox'[i] = <<>>
    PROVE  Cardinality(WordsUnread(i)') = 0
<1>1. WordsUnread(i)' = {}
  BY EmptySeq DEF WordsUnread
<1> QED
  BY <1>1, FS_EmptySet

\* The client's byte is one more unread word if it is a '3', which the client counts as well.
LEMMA CreditClient ==
    ASSUME TypeOK, TypeOK', Credit, NEW i \in Players, Client(i)
    PROVE  Credit'
<1>1. /\ UNCHANGED <<queue, reader, hand, timeTaken, progress>>
      /\ \A j \in Players \ {i} : inbox'[j] = inbox[j] /\ words'[j] = words[j]
  BY SMTT(30) DEF Client, ClientSend, ClientClose, threads, channel, scores, TypeOK, ClientTypes
<1>2. Cardinality(WordsUnread(i)') - words'[i] <= Cardinality(WordsUnread(i)) - words[i]
  <2>0. /\ Cardinality(WordsUnread(i)) \in Nat /\ words[i] \in Nat /\ inbox[i] \in Seq(Bytes)
        /\ inbox'[i] \in Seq(Bytes) /\ words'[i] \in Nat
    BY WordCounts, RaceAssumption, SMTT(30) DEF TypeOK, ClientTypes
  <2>1. ASSUME NEW b \in Bytes, ClientSend(i, b)
        PROVE  Cardinality(WordsUnread(i)') - words'[i] <= Cardinality(WordsUnread(i)) - words[i]
    <3>1. /\ inbox'[i] = Append(inbox[i], b)
          /\ words'[i] = IF b = WORD THEN words[i] + 1 ELSE words[i]
      BY <2>1 DEF ClientSend, TypeOK, ClientTypes
    <3>2. /\ Len(inbox'[i]) = Len(inbox[i]) + 1 /\ inbox'[i][Len(inbox'[i])] = b
          /\ \A k \in 1 .. Len(inbox[i]) : inbox'[i][k] = inbox[i][k]
      BY <2>0, <3>1, AppendProperties
    <3>3. PICK s \in Seq(Bytes), t \in Seq(Bytes) : s = inbox[i] /\ t = inbox'[i]
      BY <2>0
    <3>4. Cardinality(Where(t, {WORD})) =
              Cardinality(Where(s, {WORD})) + IF t[Len(t)] \in {WORD} THEN 1 ELSE 0
      BY <3>2, <3>3, WhereAppend, SMTT(30)
    <3>5. Cardinality(WordsUnread(i)') =
              Cardinality(WordsUnread(i)) + IF b = WORD THEN 1 ELSE 0
      BY <3>2, <3>3, <3>4, WordPlaces
    <3> QED
      BY <2>0, <3>1, <3>5
  <2>2. CASE ClientClose(i)
    <3>1. words'[i] = words[i] /\ (inbox'[i] = inbox[i] \/ inbox'[i] = <<>>)
      BY <2>2 DEF ClientClose, TypeOK
    <3> QED
      BY <2>0, <3>1, SameCounts, UnreadNone
  <2> QED
    BY <2>1, <2>2 DEF Client
<1>3. ASSUME NEW j \in Players, timeTaken'[j] = DNF
      PROVE  progress'[j] + Cardinality(WordsQueued(j)') + WordsInHand(j)'
                + Cardinality(WordsUnread(j)') <= words'[j]
  <2>1. /\ WordsQueued(j)' = WordsQueued(j) /\ WordsInHand(j)' = WordsInHand(j)
        /\ progress'[j] = progress[j]
    BY <1>1, SameCounts
  <2>2. Cardinality(WordsUnread(j)') - words'[j] <= Cardinality(WordsUnread(j)) - words[j]
    <3>1. CASE j = i
      BY <1>2, <3>1
    <3>2. CASE j # i
      BY <1>1, <3>2, SameCounts, WordCounts
    <3> QED
      BY <3>1, <3>2
  <2>3. progress[j] + Cardinality(WordsQueued(j)) + WordsInHand(j)
            + Cardinality(WordsUnread(j)) <= words[j]
    BY <1>1, <1>3 DEF Credit
  <2>4. words'[j] \in Nat /\ Cardinality(WordsUnread(j)') \in Nat
    <3>1. inbox'[j] \in Seq(Bytes)
      BY DEF TypeOK
    <3> QED
      BY <3>1, WordPlaces, WhereFinite, RaceAssumption DEF TypeOK, ClientTypes
  <2>5. /\ Cardinality(WordsUnread(j)) \in Nat /\ Cardinality(WordsQueued(j)) \in Nat
        /\ WordsInHand(j) \in {0, 1} /\ progress[j] \in Nat /\ words[j] \in Nat
    BY WordCounts
  <2>6. Cardinality(WordsQueued(j)') = Cardinality(WordsQueued(j))
    BY <2>1
  <2> HIDE DEF WordsInHand, WordsQueued, WordsUnread
  <2> QED
    BY <2>1, <2>2, <2>3, <2>4, <2>5, <2>6
<1> QED
  BY <1>3 DEF Credit

\* A thread moves a word from its inbox to its hand and from there to the queue, or drops it.
LEMMA CreditThread ==
    ASSUME TypeOK, TypeOK', Bookkeeping, Credit, NEW i \in Players, Thread(i)
    PROVE  Credit'
<1>1. /\ UNCHANGED <<timeTaken, progress, words>>
      /\ \A j \in Players \ {i} : inbox'[j] = inbox[j] /\ reader'[j] = reader[j] /\ hand'[j] = hand[j]
  <2>1. \A j \in Players \ {i} : inbox'[j] = inbox[j] /\ reader'[j] = reader[j] /\ hand'[j] = hand[j]
    BY DEF Thread, LobbyWake, LobbyPeek, LobbyLeave, ReaderCheck, RecvByte, RecvEnd, ReaderPush,
           TypeOK, ThreadTypes
  <2> QED
    BY <2>1, ThreadEffect
<1>2. /\ reader \in [Players -> ReaderState] /\ hand \in [Players -> Event \cup {NoEvent}]
      /\ inbox \in [Players -> Seq(Bytes)]
  BY DEF TypeOK, ThreadTypes
<1>3. /\ \A j \in Players \ {i} : Cardinality(WordsQueued(j)') = Cardinality(WordsQueued(j))
      /\ Cardinality(WordsQueued(i)') + WordsInHand(i)' + Cardinality(WordsUnread(i)')
            <= Cardinality(WordsQueued(i)) + WordsInHand(i) + Cardinality(WordsUnread(i))
  <2>0. /\ Cardinality(WordsUnread(i)) \in Nat /\ Cardinality(WordsQueued(i)) \in Nat
        /\ WordsInHand(i) \in {0, 1}
    BY WordCounts
  <2>1. CASE LobbyWake(i) \/ LobbyPeek(i) \/ LobbyLeave(i) \/ ReaderCheck(i)
    <3>1. UNCHANGED <<queue, inbox>> /\ reader'[i] # "push"
      BY <1>2, <2>1 DEF LobbyWake, LobbyPeek, LobbyLeave, ReaderCheck, channel
    <3> QED
      BY <2>0, <3>1, SameCounts
  <2>2. CASE RecvByte(i)
    <3>1. /\ queue' = queue /\ reader[i] = "recv" /\ inbox[i] # <<>>
          /\ inbox'[i] = Tail(inbox[i])
          /\ reader'[i] = "push" => hand'[i].type = Head(inbox[i])
      BY <1>2, <2>2 DEF RecvByte, channel
    <3>2. WordsInHand(i)' <= IF Head(inbox[i]) = WORD THEN 1 ELSE 0
      BY <3>1 DEF WordsInHand
    <3>3. WordsInHand(i) = 0 /\ WordsInHand(i)' \in {0, 1}
      BY <3>1 DEF WordsInHand
    <3>4. Cardinality(WordsUnread(i)) =
              Cardinality(WordsUnread(i)') + IF Head(inbox[i]) = WORD THEN 1 ELSE 0
      BY <3>1, UnreadTail
    <3>5. Cardinality(WordsUnread(i)') \in Nat
      <4>1. inbox'[i] \in Seq(Bytes)
        BY DEF TypeOK
      <4> QED
        BY <4>1, WordPlaces, WhereFinite
    <3>6. Cardinality(WordsQueued(i)') = Cardinality(WordsQueued(i))
          /\ \A j \in Players \ {i} : Cardinality(WordsQueued(j)') = Cardinality(WordsQueued(j))
      BY <3>1, SameCounts
    <3> HIDE DEF WordsInHand, WordsQueued, WordsUnread
    <3> QED
      BY <2>0, <3>2, <3>3, <3>4, <3>5, <3>6
  <2>3. CASE RecvEnd(i)
    <3>1. UNCHANGED <<queue, inbox>> /\ hand'[i].type # WORD
      BY <1>2, <2>3 DEF RecvEnd, channel, DISCONNECT, WORD
    <3>2. WordsInHand(i)' = 0
      BY <3>1 DEF WordsInHand
    <3> QED
      BY <2>0, <3>1, <3>2, SameCounts
  <2>4. CASE ReaderPush(i)
    <3>1. /\ reader[i] = "push" /\ hand[i] \in Event /\ hand[i].player = i /\ Enqueue(hand[i])
          /\ reader'[i] # "push" /\ (inbox'[i] = inbox[i] \/ inbox'[i] = <<>>)
      BY <1>2, <2>4 DEF ReaderPush, Bookkeeping
    <3>2. Cardinality(WordsUnread(i)') \in Nat
          /\ Cardinality(WordsUnread(i)') <= Cardinality(WordsUnread(i))
      BY <2>0, <3>1, SameCounts, UnreadNone
    <3>3. WordsInHand(i)' = 0 /\ WordsInHand(i) = IF hand[i].type = WORD THEN 1 ELSE 0
      BY <3>1 DEF WordsInHand
    <3>4. ASSUME NEW j \in Players
          PROVE  \/ Cardinality(WordsQueued(j)') = Cardinality(WordsQueued(j))
                 \/ Cardinality(WordsQueued(j)') = Cardinality(WordsQueued(j))
                        + IF hand[i].type = WORD /\ j = i THEN 1 ELSE 0
      <4>1. CASE queue' = queue
        BY <4>1, SameCounts
      <4>2. CASE queue' # queue
        <5>1. /\ Len(queue') = Len(queue) + 1 /\ queue'[Len(queue')] = hand[i]
              /\ \A k \in 1 .. Len(queue) : queue'[k] = queue[k]
              /\ queue \in Seq(Event) /\ queue' \in Seq(Event)
          BY <3>1, <4>2, EnqueueEffect DEF TypeOK, ChannelTypes
        <5>2. PICK s \in Seq(Event), t \in Seq(Event) : s = queue /\ t = queue'
          BY <5>1
        <5>3. Cardinality(Where(t, WordsOf(j))) =
                  Cardinality(Where(s, WordsOf(j))) + IF t[Len(t)] \in WordsOf(j) THEN 1 ELSE 0
          BY <5>1, <5>2, WhereAppend
        <5>4. hand[i] \in WordsOf(j) <=> hand[i].type = WORD /\ j = i
          BY <3>1 DEF WordsOf
        <5> QED
          BY <5>1, <5>2, <5>3, <5>4, WordPlaces
      <4> QED
        BY <4>1, <4>2
    <3>5. \A j \in Players \ {i} : Cardinality(WordsQueued(j)') = Cardinality(WordsQueued(j))
      BY <3>4, WordCounts
    <3>6. Cardinality(WordsQueued(i)') \in Nat
          /\ Cardinality(WordsQueued(i)') <= Cardinality(WordsQueued(i)) + WordsInHand(i)
      BY <2>0, <3>3, <3>4
    <3> HIDE DEF WordsInHand, WordsQueued, WordsUnread
    <3> QED
      BY <2>0, <3>2, <3>3, <3>5, <3>6
  <2> QED
    BY <2>1, <2>2, <2>3, <2>4 DEF Thread
<1>4. ASSUME NEW j \in Players, timeTaken'[j] = DNF
      PROVE  progress'[j] + Cardinality(WordsQueued(j)') + WordsInHand(j)'
                + Cardinality(WordsUnread(j)') <= words'[j]
  <2>1. progress[j] + Cardinality(WordsQueued(j)) + WordsInHand(j)
            + Cardinality(WordsUnread(j)) <= words[j]
    BY <1>1, <1>4 DEF Credit
  <2>2. /\ Cardinality(WordsUnread(j)') \in Nat /\ Cardinality(WordsQueued(j)') \in Nat
        /\ WordsInHand(j)' \in {0, 1}
    <3>1. inbox'[j] \in Seq(Bytes) /\ queue' \in Seq(Event)
      BY DEF TypeOK, ChannelTypes
    <3>2. Cardinality(WordsUnread(j)') \in Nat /\ Cardinality(WordsQueued(j)') \in Nat
      BY <3>1, WordPlaces, WhereFinite
    <3> QED
      BY <3>2 DEF WordsInHand
  <2>3. Cardinality(WordsQueued(j)') + WordsInHand(j)' + Cardinality(WordsUnread(j)')
            <= Cardinality(WordsQueued(j)) + WordsInHand(j) + Cardinality(WordsUnread(j))
    <3>1. CASE j = i
      BY <1>3, <3>1
    <3>2. CASE j # i
      <4>1. Cardinality(WordsQueued(j)') = Cardinality(WordsQueued(j))
        BY <1>3, <3>2
      <4>2. WordsInHand(j)' = WordsInHand(j) /\ WordsUnread(j)' = WordsUnread(j)
        BY <1>1, <3>2, SameCounts
      <4> HIDE DEF WordsInHand, WordsQueued, WordsUnread
      <4> QED
        BY <4>1, <4>2, WordCounts
    <3> QED
      BY <3>1, <3>2
  <2>4. /\ Cardinality(WordsUnread(j)) \in Nat /\ Cardinality(WordsQueued(j)) \in Nat
        /\ WordsInHand(j) \in {0, 1} /\ progress[j] \in Nat /\ words[j] \in Nat
    BY WordCounts
  <2>5. progress'[j] = progress[j] /\ words'[j] = words[j]
    BY <1>1
  <2> HIDE DEF WordsInHand, WordsQueued, WordsUnread
  <2> QED
    BY <2>1, <2>2, <2>3, <2>4, <2>5
<1> QED
  BY <1>4 DEF Credit

\* The hub turns a word of the queue into progress, or drops it; a finish ends the count.
LEMMA CreditEvent ==
    ASSUME IInv, TypeOK', Stamps, Credit, HubEvent
    PROVE  Credit'
<1>0. TypeOK
  BY DEF IInv
<1>1. PICK i \in Players :
        /\ UNCHANGED <<reader, hand, inbox, words>>
        /\ queue \in Seq(Event) /\ queue' \in Seq(Event)
        /\ Len(queue) >= 1 /\ Len(queue') = Len(queue) - 1
        /\ \A k \in 1 .. Len(queue') : queue'[k] = queue[k + 1]
        /\ queue[1] \in Event /\ queue[1].player = i
        /\ \/ /\ UNCHANGED timeTaken
              /\ \/ UNCHANGED progress
                 \/ /\ queue[1].type = WORD
                    /\ progress' = [progress EXCEPT ![i] = @ + 1]
           \/ /\ progress' = [progress EXCEPT ![i] = TotalWords]
              /\ timeTaken' = [timeTaken EXCEPT ![i] = Elapsed(queue[1].ts)]
  BY EventEffect
<1>2. ASSUME NEW j \in Players
      PROVE  /\ Cardinality(WordsQueued(j)') \in Nat
             /\ Cardinality(WordsQueued(j)) =
                  Cardinality(WordsQueued(j)') + IF queue[1].type = WORD /\ j = i THEN 1 ELSE 0
  <2>1. PICK s \in Seq(Event), t \in Seq(Event) : s = queue /\ t = queue'
    BY <1>1
  <2>2. Len(s) >= 1 /\ Len(t) = Len(s) - 1 /\ \A k \in 1 .. Len(t) : t[k] = s[k + 1]
    BY <1>1, <2>1
  <2>3. Cardinality(Where(s, WordsOf(j))) =
            Cardinality(Where(t, WordsOf(j))) + IF s[1] \in WordsOf(j) THEN 1 ELSE 0
    BY <2>2, WhereTail
  <2>4. queue[1] \in WordsOf(j) <=> queue[1].type = WORD /\ j = i
    BY <1>1 DEF WordsOf
  <2>5. Cardinality(Where(t, WordsOf(j))) \in Nat
    BY WhereFinite
  <2> QED
    BY <1>0, <2>1, <2>3, <2>4, <2>5, WordPlaces
<1>3. ASSUME NEW j \in Players, timeTaken'[j] = DNF
      PROVE  progress'[j] + Cardinality(WordsQueued(j)') + WordsInHand(j)'
                + Cardinality(WordsUnread(j)') <= words'[j]
  <2>1. WordsInHand(j)' = WordsInHand(j) /\ WordsUnread(j)' = WordsUnread(j) /\ words'[j] = words[j]
    BY <1>1, SameCounts
  <2>2. progress \in [Players -> 0 .. TotalWords] /\ timeTaken \in [Players -> Time \cup {DNF}]
        /\ now \in Nat /\ raceStart \in Int /\ queue[1].ts \in Nat
    <3>1. progress \in [Players -> 0 .. TotalWords] /\ timeTaken \in [Players -> Time \cup {DNF}]
      BY <1>0 DEF TypeOK, ScoreTypes
    <3>2. now \in Nat /\ raceStart \in Int
      BY <1>0, Ranges
    <3>3. queue[1].ts \in Nat
      BY <1>0, <1>1, Ranges
    <3> QED
      BY <3>1, <3>2, <3>3
  <2>3. Elapsed(queue[1].ts) # DNF
    BY <2>2 DEF Elapsed, DNF
  <2>4. timeTaken[j] = DNF
    BY <1>1, <1>3, <2>2, <2>3
  <2>5. progress'[j] = progress[j] \/ (progress'[j] = progress[j] + 1 /\ queue[1].type = WORD /\ j = i)
    BY <1>1, <1>3, <2>2, <2>3
  <2>6. progress[j] + Cardinality(WordsQueued(j)) + WordsInHand(j)
            + Cardinality(WordsUnread(j)) <= words[j]
    BY <2>4 DEF Credit
  <2>7. /\ Cardinality(WordsUnread(j)) \in Nat /\ Cardinality(WordsQueued(j)) \in Nat
        /\ WordsInHand(j) \in {0, 1} /\ progress[j] \in Nat /\ words[j] \in Nat
    BY <1>0, WordCounts
  <2>8. /\ Cardinality(WordsQueued(j)') \in Nat
        /\ Cardinality(WordsQueued(j)) =
              Cardinality(WordsQueued(j)') + IF queue[1].type = WORD /\ j = i THEN 1 ELSE 0
    BY <1>2
  <2>9. Cardinality(WordsUnread(j)') = Cardinality(WordsUnread(j))
    BY <2>1
  <2> HIDE DEF WordsInHand, WordsQueued, WordsUnread
  <2> QED
    BY <2>1, <2>5, <2>6, <2>7, <2>8, <2>9
<1> QED
  BY <1>3 DEF Credit

\* Every step keeps the credit.
LEMMA CreditStep == ASSUME IInv, IInv', Stamps, Credit, [Next]_vars PROVE Credit'
<1>0. TypeOK /\ TypeOK' /\ Bookkeeping
  BY DEF IInv
<1>1. ASSUME UNCHANGED <<timeTaken, progress, words, queue, inbox, reader, hand>> PROVE Credit'
  <2>1. \A j \in Players : /\ WordsQueued(j)' = WordsQueued(j) /\ WordsInHand(j)' = WordsInHand(j)
                           /\ WordsUnread(j)' = WordsUnread(j)
    BY <1>1, SameCounts
  <2> QED
    BY <1>1, <2>1 DEF Credit
<1>2. CASE HubStep /\ ~HubEvent
  BY <1>1, <1>2, QuietHub
<1>3. CASE UNCHANGED vars \/ Tick \/ StopShutdown \/ StopRelease
  BY <1>1, <1>3 DEF vars, Tick, StopShutdown, StopRelease, clients, threads, channel, scores
<1> QED
  BY <1>0, <1>2, <1>3, CreditClient, CreditThread, CreditEvent DEF Next, Over

\* Every step keeps the results honest: a finish is accepted only of a player whose words, all
\* but the last, were counted, and they were sent.
LEMMA HonestStep ==
    ASSUME IInv, IInv', Stamps, Credit, Credit', HonestFinish, [Next]_vars
    PROVE  HonestFinish'
<1>0. TypeOK /\ TypeOK'
  BY DEF IInv
<1>1. ASSUME NEW i \in Players, timeTaken'[i] = DNF PROVE progress'[i] <= words'[i]
  <2>1. progress'[i] + Cardinality(WordsQueued(i)') + WordsInHand(i)'
            + Cardinality(WordsUnread(i)') <= words'[i]
    BY <1>1 DEF Credit
  <2>2. /\ Cardinality(WordsUnread(i)') \in Nat /\ Cardinality(WordsQueued(i)') \in Nat
        /\ WordsInHand(i)' \in {0, 1}
    <3>1. inbox'[i] \in Seq(Bytes) /\ queue' \in Seq(Event)
      BY <1>0 DEF TypeOK, ChannelTypes
    <3>2. Cardinality(WordsUnread(i)') \in Nat /\ Cardinality(WordsQueued(i)') \in Nat
      BY <1>0, <3>1, WordPlaces, WhereFinite
    <3> QED
      BY <3>2 DEF WordsInHand
  <2>3. progress'[i] \in Nat /\ words'[i] \in Nat
    BY <1>0, RaceAssumption DEF TypeOK, ScoreTypes, ClientTypes
  <2> HIDE DEF WordsInHand, WordsQueued, WordsUnread
  <2> QED
    BY <2>1, <2>2, <2>3
<1>2. ASSUME UNCHANGED <<timeTaken, progress>>, \A i \in Players : words'[i] >= words[i]
      PROVE  HonestFinish'
  <2>1. \A i \in Players : words[i] \in Nat /\ words'[i] \in Nat
    BY <1>0, RaceAssumption DEF TypeOK, ClientTypes
  <2> QED
    BY <1>1, <1>2, <2>1, RaceAssumption DEF HonestFinish, RaceAssumption
<1>3. ASSUME NEW i \in Players, Client(i) \/ Thread(i) PROVE HonestFinish'
  <2>1. UNCHANGED <<timeTaken, progress>>
    BY <1>3, ThreadEffect, Bystanders
  <2>2. \A j \in Players : words[j] \in Nat
    BY <1>0, RaceAssumption DEF TypeOK, ClientTypes
  <2>3. \A j \in Players : words'[j] >= words[j]
    <3>1. ASSUME NEW b \in Bytes, ClientSend(i, b) PROVE \A j \in Players : words'[j] >= words[j]
      <4>1. words' = [words EXCEPT ![i] = IF b = WORD THEN @ + 1 ELSE @]
        BY <3>1 DEF ClientSend
      <4>2. words \in [Players -> 0 .. ByteBudget]
        BY <1>0 DEF TypeOK, ClientTypes
      <4> QED
        BY <2>2, <4>1, <4>2
    <3>2. CASE UNCHANGED words
      BY <2>2, <3>2
    <3> QED
      BY <1>3, <3>1, <3>2, ThreadEffect DEF Client, ClientClose
  <2> QED
    BY <1>2, <2>1, <2>3
<1>4. ASSUME UNCHANGED <<timeTaken, progress, words>> PROVE HonestFinish'
  <2>1. \A j \in Players : words[j] \in Nat
    BY <1>0, RaceAssumption DEF TypeOK, ClientTypes
  <2> QED
    BY <1>2, <1>4, <2>1
<1>5. CASE HubStep /\ ~HubEvent
  BY <1>4, <1>5, QuietHub
<1>6. CASE UNCHANGED vars \/ Tick \/ StopShutdown \/ StopRelease
  BY <1>4, <1>6 DEF vars, Tick, StopShutdown, StopRelease, clients, scores
<1>7. CASE HubEvent
  <2>1. PICK i \in Players :
          /\ UNCHANGED words /\ queue[1] \in Event
          /\ \/ /\ UNCHANGED timeTaken
                /\ \/ UNCHANGED progress
                   \/ i \notin finished /\ progress' = [progress EXCEPT ![i] = @ + 1]
             \/ /\ i \notin finished /\ progress[i] >= TotalWords - 1
                /\ progress' = [progress EXCEPT ![i] = TotalWords]
                /\ timeTaken' = [timeTaken EXCEPT ![i] = Elapsed(queue[1].ts)]
    BY <1>7, EventEffect
  <2>2. /\ progress \in [Players -> 0 .. TotalWords] /\ timeTaken \in [Players -> Time \cup {DNF}]
        /\ TotalWords \in Nat /\ \A j \in Players : words[j] \in Nat
    <3>1. TotalWords \in Nat /\ ByteBudget \in Nat
      BY RaceAssumption
    <3>2. \A j \in Players : words[j] \in Nat
      BY <1>0, <3>1 DEF TypeOK, ClientTypes
    <3> QED
      BY <1>0, <3>1, <3>2 DEF TypeOK, ScoreTypes
  <2>3. timeTaken[i] # DNF => i \in finished
    BY DEF Stamps
  <2>4. ASSUME NEW j \in Players, timeTaken'[j] # DNF
        PROVE  progress'[j] = TotalWords /\ words'[j] >= TotalWords - 1
    <3>1. CASE timeTaken[j] # DNF
      <4>1. progress[j] = TotalWords /\ words[j] >= TotalWords - 1
        BY <3>1 DEF HonestFinish
      <4>2. progress'[j] = progress[j]
        BY <2>1, <2>2, <2>3, <3>1, <4>1
      <4> QED
        BY <2>1, <4>1, <4>2
    <3>2. CASE timeTaken[j] = DNF
      <4>1. j = i /\ progress[i] >= TotalWords - 1 /\ progress'[i] = TotalWords
        BY <2>1, <2>2, <2>4, <3>2
      <4>2. progress[i] <= words[i]
        BY <3>2, <4>1 DEF HonestFinish
      <4> QED
        BY <2>1, <2>2, <4>1, <4>2
    <3> QED
      BY <3>1, <3>2
  <2> QED
    BY <1>1, <2>4 DEF HonestFinish
<1> QED
  BY <1>3, <1>5, <1>6, <1>7 DEF Next, Over

-----------------------------------------------------------------------------
(* The theorems. *)

\* Before the race nobody has a time or a word.
LEMMA ResultsInit == Init => ResultsInv
<1> SUFFICES ASSUME Init PROVE ResultsInv
  OBVIOUS
<1>0. IInv /\ TypeOK
  BY IInvInit DEF IInv
<1>1. queue = <<>> /\ Len(<<>>) = 0
  BY EmptySeq DEF Init
<1>2. Stamps
  BY <1>1 DEF Init, Stamps, None
<1>3. TimesWithinRace
  BY DEF Init, TimesWithinRace
<1>4. ASSUME NEW i \in Players
      PROVE  /\ progress[i] = 0 /\ words[i] = 0 /\ timeTaken[i] = DNF /\ WordsInHand(i) = 0
             /\ Cardinality(WordsQueued(i)) = 0 /\ Cardinality(WordsUnread(i)) = 0
  <2>1. WordsQueued(i) = {} /\ WordsUnread(i) = {}
    BY <1>1 DEF Init, WordsQueued, WordsUnread
  <2> QED
    BY <2>1, FS_EmptySet DEF Init, WordsInHand
<1>5. Credit
  BY <1>4 DEF Credit
<1>6. HonestFinish
  BY <1>4 DEF HonestFinish
<1> QED
  BY <1>0, <1>2, <1>3, <1>5, <1>6 DEF ResultsInv

\* The invariant about the results is inductive.
LEMMA ResultsStep == ResultsInv /\ [Next]_vars => ResultsInv'
<1> SUFFICES ASSUME ResultsInv, [Next]_vars PROVE ResultsInv'
  OBVIOUS
<1>1. IInv'
  BY IInvStep DEF ResultsInv
<1>2. Stamps' /\ TimesWithinRace'
  BY StampsStep, TimesStep DEF ResultsInv
<1>3. Credit'
  BY <1>1, CreditStep DEF ResultsInv
<1> QED
  BY <1>1, <1>2, <1>3, HonestStep DEF ResultsInv

\* ResultsInv holds in every reachable state: what readers stamp and report, what waits in
\* inboxes and queue, and what the hub has credited fit together.
THEOREM ResultsInvariance == Spec => []ResultsInv
  BY ResultsInit, ResultsStep, PTL DEF Spec

\* Times are server-authoritative: a time the hub gives lies between the start of the race and
\* now, also when the finish was stamped before raceStart was recorded, and the grace countdown
\* runs exactly when somebody has a time, not from before that player finished.
THEOREM TimesSound == Spec => []TimesWithinRace
<1>1. ResultsInv => TimesWithinRace
  BY DEF ResultsInv
<1> QED
  BY <1>1, ResultsInvariance, PTL

\* Anti-cheat: the hub gives a time only to a client that sent all words but the last, and
\* credits no client with more words than it sent, whatever the queue refuses and connections lose.
THEOREM FinishIsHonest == Spec => []HonestFinish
<1>1. ResultsInv => HonestFinish
  BY DEF ResultsInv
<1> QED
  BY <1>1, ResultsInvariance, PTL
=============================================================================
