------------------------- MODULE CoordinatorProofs -------------------------
(***************************************************************************)
(* Proofs about Coordinator for every set of rooms, connections, codes and *)
(* commands and every limit.  The inductive invariant IInv is shown part   *)
(* by part: types, locks, the room about to be pruned, the stages of a     *)
(* room, who owns it, who sits in it and what its destruction has          *)
(* established; then that every step is a step of Lobby or changes nothing *)
(* Lobby speaks of.                                                        *)
(***************************************************************************)
EXTENDS Coordinator, LoopProofs, FiniteSetTheorems, SequenceTheorems

-----------------------------------------------------------------------------
(* Facts about the operators the steps are built from. *)

\* The slot a new player gets: the first vacated one, or the one behind the last.
LEMMA FreeSlotPlace ==
    ASSUME TypeOK, NEW r \in Rooms
    PROVE  /\ Len(slots[r]) \in Nat /\ slots[r] \in [1 .. Len(slots[r]) -> Conns]
           /\ FreeSlot(r) \in 1 .. Len(slots[r]) + 1
           /\ FreeSlot(r) <= Len(slots[r]) => slots[r][FreeSlot(r)] \in gone
           /\ FreeSlot(r) > Len(slots[r]) => Vacated(r) = {}
<1>1. slots[r] \in Seq(Conns)
  BY DEF TypeOK, RoomTypes
<1>2. Len(slots[r]) \in Nat /\ slots[r] \in [1 .. Len(slots[r]) -> Conns]
  BY <1>1, LenProperties
<1>3. CASE Vacated(r) = {}
  BY <1>2, <1>3 DEF FreeSlot
<1>4. CASE Vacated(r) # {}
  <2>1. Vacated(r) \in SUBSET Nat
    BY <1>2 DEF Vacated
  <2>2. \E s \in Vacated(r) : \A t \in Vacated(r) : s <= t
    BY <1>4, <2>1, LeastExists
  <2>3. FreeSlot(r) \in Vacated(r)
    BY <1>4, <2>2 DEF FreeSlot
  <2> QED
    BY <1>2, <2>3 DEF Vacated
<1> QED
  BY <1>2, <1>3, <1>4

\* countActivePlayers counts slots: none beyond the vector, all of them when none is vacated.
LEMMA ActiveCount ==
    ASSUME TypeOK, NEW r \in Rooms
    PROVE  /\ Active(r) \in Nat /\ Active(r) <= Len(slots[r])
           /\ Vacated(r) = {} => Active(r) = Len(slots[r])
           /\ Active(r) = Len(slots[r]) => Vacated(r) = {}
           /\ Active(r) = 0 => ActivePlayers(r) = {}
<1> DEFINE N == 1 .. Len(slots[r])
           A == {s \in N : slots[r][s] \notin gone}
<1>1. Len(slots[r]) \in Nat
  BY FreeSlotPlace
<1>2. IsFiniteSet(N) /\ Cardinality(N) = Len(slots[r])
  BY <1>1, FS_Interval
<1>3. /\ IsFiniteSet(A) /\ Cardinality(A) <= Cardinality(N)
      /\ Cardinality(N) = Cardinality(A) => N = A
  <2>1. A \in SUBSET N
    OBVIOUS
  <2> HIDE DEF A, N
  <2> QED
    BY <1>2, <2>1, FS_Subset
<1>4. Cardinality(A) \in Nat /\ (Cardinality(A) = 0 => A = {})
  <2> HIDE DEF A
  <2> QED
    BY <1>3, FS_CardinalityType, FS_EmptySet
<1>5. Active(r) = Cardinality(A)
  BY DEF Active
<1>6. (Vacated(r) = {} => A = N) /\ (A = N => Vacated(r) = {})
  BY DEF Vacated
<1>7. A = {} => ActivePlayers(r) = {}
  BY DEF ActivePlayers, Players
<1> HIDE DEF A, N
<1> QED
  BY <1>1, <1>2, <1>3, <1>4, <1>5, <1>6, <1>7

\* Where no player has two slots, counting the slots counts the players.
LEMMA ActiveIsCardinality ==
    ASSUME TypeOK, NEW r \in Rooms,
           \A s, t \in 1 .. Len(slots[r]) : slots[r][s] = slots[r][t] => s = t
    PROVE  IsFiniteSet(ActivePlayers(r)) /\ Cardinality(ActivePlayers(r)) = Active(r)
<1> DEFINE N == 1 .. Len(slots[r])
           A == {s \in N : slots[r][s] \notin gone}
           f == [s \in A |-> slots[r][s]]
<1>1. Len(slots[r]) \in Nat
  BY FreeSlotPlace
<1>2. IsFiniteSet(N)
  BY <1>1, FS_Interval
<1>3. IsFiniteSet(A)
  <2>1. A \in SUBSET N
    OBVIOUS
  <2> HIDE DEF A, N
  <2> QED
    BY <1>2, <2>1, FS_Subset
<1>4. ActivePlayers(r) = {slots[r][s] : s \in A}
  BY DEF ActivePlayers, Players
<1>5. f \in Bijection(A, ActivePlayers(r))
  <2>1. f \in [A -> ActivePlayers(r)]
    BY <1>4
  <2>2. \A s, t \in A : f[s] = f[t] => s = t
    OBVIOUS
  <2>3. \A p \in ActivePlayers(r) : \E s \in A : f[s] = p
    BY <1>4
  <2> HIDE DEF f, A
  <2> QED
    BY <2>1, <2>2, <2>3 DEF Bijection, Injection, Surjection, IsInjective
<1>6. ExistsBijection(A, ActivePlayers(r))
  BY <1>5 DEF ExistsBijection
<1> HIDE DEF f, A
<1>7. IsFiniteSet(ActivePlayers(r)) /\ Cardinality(ActivePlayers(r)) = Cardinality(A)
  BY <1>3, <1>6, FS_Bijection
<1> QED
  BY <1>7 DEF Active, A, N

\* What JOIN does to the vector of players: one place k takes the new player, and a player who
\* loses it was disconnected and has no thread left.
LEMMA RegisterEffect ==
    ASSUME TypeOK, NEW w \in Conns, NEW r \in Rooms, JoinRegister(w, r)
    PROVE  /\ slots'[r] \in Seq(Conns) /\ Len(slots'[r]) <= Capacity
           /\ slots' = [slots EXCEPT ![r] = slots'[r]]
           /\ \E k \in 1 .. Len(slots'[r]) :
                 /\ slots'[r][k] = w
                 /\ \A j \in 1 .. Len(slots'[r]) : j # k => j <= Len(slots[r]) /\ slots'[r][j] = slots[r][j]
                 /\ \A j \in 1 .. Len(slots[r]) : j # k => j <= Len(slots'[r])
                 /\ k <= Len(slots[r]) => slots[r][k] \in gone /\ Returned(slots[r][k])
<1> DEFINE k == FreeSlot(r)
           q == IF k > Len(slots[r]) THEN Append(slots[r], w) ELSE [slots[r] EXCEPT ![k] = w]
<1>1. slots \in [Rooms -> Seq(Conns)] /\ slots[r] \in Seq(Conns) /\ Len(slots[r]) <= Capacity
  BY DEF TypeOK, RoomTypes
<1>2. /\ Len(slots[r]) \in Nat /\ k \in 1 .. Len(slots[r]) + 1
      /\ k <= Len(slots[r]) => slots[r][k] \in gone
      /\ k > Len(slots[r]) => Vacated(r) = {}
  BY FreeSlotPlace
<1>3. slots' = [slots EXCEPT ![r] = q]
  BY <1>1 DEF JoinRegister
<1>4. slots'[r] = q
  BY <1>1, <1>3
<1>5. k <= Len(slots[r]) => Returned(slots[r][k])
  BY DEF JoinRegister, SlotReady
<1>6. slots' = [slots EXCEPT ![r] = slots'[r]]
  BY <1>3, <1>4
<1>7. CASE k > Len(slots[r])
  <2>1. q = Append(slots[r], w) /\ k = Len(slots[r]) + 1
    BY <1>2, <1>7
  <2>2. /\ q \in Seq(Conns) /\ Len(q) = Len(slots[r]) + 1 /\ q[k] = w
        /\ \A j \in 1 .. Len(slots[r]) : q[j] = slots[r][j]
    BY <1>1, <1>2, <2>1, AppendProperties
  <2>3. Active(r) < Capacity /\ Active(r) = Len(slots[r])
    BY <1>2, <1>7, ActiveCount DEF JoinRegister, Admits
  <2>4. Len(q) <= Capacity
    BY <1>2, <2>2, <2>3, CoordinatorAssumption DEF CoordinatorAssumption
  <2>5. \A j \in 1 .. Len(q) : j # k => j <= Len(slots[r]) /\ q[j] = slots[r][j]
    BY <1>2, <2>1, <2>2
  <2>6. k \in 1 .. Len(q) /\ \A j \in 1 .. Len(slots[r]) : j <= Len(q)
    BY <1>2, <2>1, <2>2
  <2> HIDE DEF q, k
  <2> QED
    BY <1>4, <1>7, <1>6, <2>2, <2>4, <2>5, <2>6, SMTT(30)
<1>8. CASE k <= Len(slots[r])
  <2>1. q = [slots[r] EXCEPT ![k] = w] /\ k \in 1 .. Len(slots[r])
    BY <1>2, <1>8
  <2>2. /\ q \in Seq(Conns) /\ Len(q) = Len(slots[r]) /\ q[k] = w
        /\ \A j \in 1 .. Len(slots[r]) : j # k => q[j] = slots[r][j]
    BY <1>1, <2>1, ExceptSeq
  <2> HIDE DEF q, k
  <2> QED
    BY <1>1, <1>2, <1>4, <1>5, <1>8, <1>6, <2>1, <2>2
<1> QED
  BY <1>2, <1>7, <1>8

-----------------------------------------------------------------------------
(* Types. *)

\* What a step leaves alone keeps its type.
LEMMA Frame ==
    ASSUME TypeOK
    PROVE  /\ UNCHANGED control => ControlTypes'
           /\ UNCHANGED list => ListTypes'
           /\ UNCHANGED room => RoomTypes'
           /\ UNCHANGED workers => WorkerTypes'
           /\ UNCHANGED players => PlayerTypes'
<1>1. UNCHANGED control => ControlTypes'
  BY DEF TypeOK, control, ControlTypes
<1>2. UNCHANGED list => ListTypes'
  BY DEF TypeOK, list, ListTypes
<1>3. UNCHANGED room => RoomTypes'
  BY DEF TypeOK, room, RoomTypes
<1>4. UNCHANGED workers => WorkerTypes'
  BY DEF TypeOK, workers, WorkerTypes
<1>5. UNCHANGED players => PlayerTypes'
  BY DEF TypeOK, players, PlayerTypes
<1> QED
  BY <1>1, <1>2, <1>3, <1>4, <1>5

\* The initial state is well typed.
LEMMA TypeInit == Init => TypeOK
<1> SUFFICES ASSUME Init PROVE TypeOK
  OBVIOUS
<1>1. <<>> \in Seq(Conns) /\ Len(<<>>) = 0 /\ Capacity \in Nat
  BY EmptySeq, CoordinatorAssumption DEF CoordinatorAssumption
<1>2. RoomTypes
  BY <1>1 DEF Init, RoomTypes
<1>3. ControlTypes /\ ListTypes /\ WorkerTypes /\ PlayerTypes
  BY DEF Init, ControlTypes, ListTypes, WorkerTypes, PlayerTypes, Agents
<1> QED
  BY <1>2, <1>3 DEF Init, TypeOK

\* The room's runner.
LEMMA RunnerTypes ==
    ASSUME TypeOK, NEW r \in Rooms, Runner(r)
    PROVE  TypeOK'
<1>1. /\ runner \in [Rooms -> {"none", "check", "asleep", "start", "race", "join", "finish", "done"}]
      /\ runner' \in [Rooms -> {"none", "check", "asleep", "start", "race", "join", "finish", "done"}]
  BY DEF TypeOK, Runner, RunnerCheck, RunnerStart, RunnerUnblock, RunnerJoin, RunnerFinish
<1>2. RoomTypes'
  BY DEF TypeOK, RoomTypes, room, Runner, RunnerCheck, RunnerStart, RunnerUnblock, RunnerJoin, RunnerFinish
<1>3. PlayerTypes'
  BY DEF TypeOK, PlayerTypes, players, ReadShut, Runner, RunnerCheck, RunnerStart, RunnerUnblock,
         RunnerJoin, RunnerFinish
<1>4. UNCHANGED <<control, list, doom, mutex, dying, workers>>
  BY DEF Runner, RunnerCheck, RunnerStart, RunnerUnblock, RunnerJoin, RunnerFinish
<1> QED
  BY <1>1, <1>2, <1>3, <1>4, Frame DEF TypeOK

\* The players' threads.
LEMMA PlayerStepTypes ==
    ASSUME TypeOK, NEW w \in Conns, Player(w) \/ HangUp(w)
    PROVE  TypeOK'
<1>1. PlayerTypes'
  BY DEF TypeOK, PlayerTypes, Player, LobbyWake, LobbyPeek, LobbyLeave, LobbyReturn, ReaderReturn, HangUp
<1>2. UNCHANGED <<control, list, doom, room, runner, mutex, dying, workers>>
  BY DEF Player, LobbyWake, LobbyPeek, LobbyLeave, LobbyReturn, ReaderReturn, HangUp
<1> QED
  BY <1>1, <1>2, Frame DEF TypeOK

\* The destruction of a room.
LEMMA DestroyTypes ==
    ASSUME TypeOK, NEW r \in Rooms, Destroy(r)
    PROVE  TypeOK'
<1> USE DEF TypeOK, RoomTypes, PlayerTypes, ListTypes
<1>1. ASSUME NEW a \in Agents, DestroyBegin(a, r) PROVE TypeOK'
  <2>1. dying' \in [Rooms -> {"no", "release", "wake", "runner", "threads", "close"}]
    BY <1>1 DEF DestroyBegin
  <2>2. RoomTypes' /\ PlayerTypes'
    BY <1>1 DEF DestroyBegin, Shut
  <2> QED
    BY <1>1, <2>1, <2>2, Frame DEF DestroyBegin
<1>2. ASSUME NEW a \in Agents, DestroyFree(a, r) PROVE TypeOK'
  <2>1. /\ dying' \in [Rooms -> {"no", "release", "wake", "runner", "threads", "close"}]
        /\ runner' \in [Rooms -> {"none", "check", "asleep", "start", "race", "join", "finish", "done"}]
        /\ doom' \in [Agents -> SUBSET Rooms]
    BY <1>2 DEF DestroyFree
  <2>2. ListTypes' /\ PlayerTypes'
    BY <1>2 DEF DestroyFree
  <2>3. RoomTypes'
    <3>1. <<>> \in Seq(Conns) /\ Len(<<>>) = 0 /\ Capacity \in Nat
      BY EmptySeq, CoordinatorAssumption DEF CoordinatorAssumption
    <3> QED
      BY <1>2, <3>1 DEF DestroyFree
  <2> QED
    BY <1>2, <2>1, <2>2, <2>3, Frame DEF DestroyFree
<1>3. CASE DestroyRelease(r) \/ DestroyWake(r) \/ DestroyJoinRunner(r) \/ DestroyJoinThreads(r)
  <2>1. /\ dying' \in [Rooms -> {"no", "release", "wake", "runner", "threads", "close"}]
        /\ runner' \in [Rooms -> {"none", "check", "asleep", "start", "race", "join", "finish", "done"}]
    BY <1>3, ZenonT(60) DEF DestroyRelease, DestroyWake, DestroyJoinRunner, DestroyJoinThreads, Woken
  <2>2. RoomTypes'
    <3>1. CASE DestroyRelease(r)
      BY <3>1 DEF DestroyRelease
    <3>2. CASE DestroyWake(r) \/ DestroyJoinRunner(r) \/ DestroyJoinThreads(r)
      BY <3>2, Frame DEF DestroyWake, DestroyJoinRunner, DestroyJoinThreads
    <3> QED
      BY <1>3, <3>1, <3>2
  <2>3. UNCHANGED <<control, list, doom, mutex, workers, players>>
    BY <1>3 DEF DestroyRelease, DestroyWake, DestroyJoinRunner, DestroyJoinThreads
  <2> QED
    BY <2>1, <2>2, <2>3, Frame
<1> QED
  BY <1>1, <1>2, <1>3 DEF Destroy

\* The workers: everything but the registration of a player.
LEMMA WorkerStepTypes ==
    ASSUME TypeOK, NEW w \in Conns, Worker(w)
    PROVE  TypeOK'
<1> USE DEF TypeOK, ControlTypes, ListTypes, WorkerTypes, PlayerTypes, Goto, Lock, Unlock, CloseConn
<1>1. CASE WorkerGivesUp(w) \/ InfoReply(w) \/ Summary(w) \/ CreateRefused(w) \/ Swept(w)
  <2>1. ControlTypes' /\ WorkerTypes' /\ PlayerTypes'
    <3>1. CASE WorkerGivesUp(w)
      BY <3>1, Frame DEF WorkerGivesUp
    <3>2. CASE InfoReply(w)
      BY <3>2 DEF InfoReply
    <3>3. CASE Summary(w) \/ CreateRefused(w)
      BY <3>3 DEF Summary, CreateRefused
    <3>4. CASE Swept(w)
      BY <3>4, Frame DEF Swept
    <3> QED
      BY <1>1, <3>1, <3>2, <3>3, <3>4
  <2>2. UNCHANGED <<list, doom, room, runner, mutex, dying>>
    BY <1>1 DEF WorkerGivesUp, InfoReply, Summary, CreateRefused, Swept
  <2> QED
    BY <2>1, <2>2, Frame
<1>2. ASSUME NEW what \in Commands, NEW c \in Codes, WorkerReads(w, what, c) PROVE TypeOK'
  <2>1. WorkerTypes'
    BY <1>2 DEF WorkerReads
  <2> QED
    BY <1>2, <2>1, Frame DEF WorkerReads
<1>14. CASE WorkerLocks(w)
  <2>1. ControlTypes' /\ WorkerTypes'
    BY <1>14 DEF WorkerLocks, Agents
  <2> QED
    BY <1>14, <2>1, Frame DEF WorkerLocks
<1>3. ASSUME NEW r \in Rooms, InfoRoom(w, r) PROVE TypeOK'
  <2>1. ControlTypes'
    BY <1>3 DEF InfoRoom
  <2> QED
    BY <1>3, <2>1, Frame DEF InfoRoom
<1>4. Found(w) \subseteq Rooms
  BY DEF Found
<1>5. ASSUME NoRoom(w) PROVE listed' \subseteq Rooms /\ doom' \in [Agents -> SUBSET Rooms]
  BY <1>4, <1>5 DEF NoRoom, Extract, Remaining, FoundFinished, Agents
<1>6. ASSUME NEW r \in Rooms, NewRoom(w, r), pc[w] = "lookup"
      PROVE  /\ ListTypes' /\ doom' \in [Agents -> SUBSET Rooms]
             /\ state' \in [Rooms -> {"free", "waiting", "racing", "finished"}]
             /\ runner' \in [Rooms -> {"none", "check", "asleep", "start", "race", "join", "finish", "done"}]
  BY <1>4, <1>6 DEF NewRoom, Extract, Remaining, FoundFinished, Agents, RoomTypes
<1>7. CASE CreateFails(w) \/ JoinFails(w)
  <2>1. ListTypes' /\ doom' \in [Agents -> SUBSET Rooms]
    BY <1>5, <1>7 DEF CreateFails, JoinFails
  <2>2. ControlTypes' /\ WorkerTypes'
    BY <1>7 DEF CreateFails, JoinFails
  <2> QED
    BY <1>7, <2>1, <2>2, Frame DEF CreateFails, JoinFails
<1>8. ASSUME NEW r \in Rooms, CreateRoom(w, r) PROVE TypeOK'
  <2>1. ControlTypes' /\ WorkerTypes'
    BY <1>8 DEF CreateRoom
  <2>2. RoomTypes'
    BY <1>6, <1>8 DEF CreateRoom, Lookup, RoomTypes
  <2> QED
    BY <1>6, <1>8, <2>1, <2>2, Frame DEF CreateRoom, Lookup
<1>9. ASSUME NEW r \in Rooms, JoinCreates(w, r) PROVE TypeOK'
  <2>1. WorkerTypes'
    BY <1>9 DEF JoinCreates
  <2>2. RoomTypes'
    BY <1>6, <1>9 DEF JoinCreates, Lookup, RoomTypes
  <2> QED
    BY <1>6, <1>9, <2>1, <2>2, Frame DEF JoinCreates, Lookup
<1>10. ASSUME NEW r \in Rooms, JoinFound(w, r) PROVE TypeOK'
  <2>1. WorkerTypes'
    BY <1>10 DEF JoinFound
  <2> QED
    BY <1>10, <2>1, Frame DEF JoinFound
<1>11. CASE JoinEnter(w)
  <2>1. ControlTypes' /\ WorkerTypes' /\ mutex' \in [Rooms -> Conns \cup {None}]
    BY <1>11 DEF JoinEnter
  <2> QED
    BY <1>11, <2>1, Frame DEF JoinEnter
<1>12. CASE JoinRefused(w)
  <2>1. WorkerTypes' /\ PlayerTypes' /\ mutex' \in [Rooms -> Conns \cup {None}]
    BY <1>12 DEF JoinRefused, ReleaseMutex
  <2> QED
    BY <1>12, <2>1, Frame DEF JoinRefused
<1>13. ASSUME NEW r \in Rooms, JoinRegister(w, r) PROVE TypeOK'
  <2>1. RoomTypes'
    <3>1. /\ slots'[r] \in Seq(Conns) /\ Len(slots'[r]) <= Capacity
          /\ slots' = [slots EXCEPT ![r] = slots'[r]]
      BY <1>13, RegisterEffect
    <3>2. slots' \in [Rooms -> Seq(Conns)] /\ \A q \in Rooms : Len(slots'[q]) <= Capacity
      BY <3>1, ZenonT(60) DEF RoomTypes
    <3> QED
      BY <1>13, <3>2 DEF JoinRegister, RoomTypes
  <2>2. WorkerTypes' /\ PlayerTypes'
    BY <1>13 DEF JoinRegister
  <2>3. /\ mutex' \in [Rooms -> Conns \cup {None}]
        /\ runner' \in [Rooms -> {"none", "check", "asleep", "start", "race", "join", "finish", "done"}]
    BY <1>13 DEF JoinRegister, ReleaseMutex, Woken
  <2> QED
    BY <1>13, <2>1, <2>2, <2>3, Frame DEF JoinRegister
<1> QED
  BY <1>1, <1>2, <1>3, <1>7, <1>8, <1>9, <1>10, <1>11, <1>12, <1>13, <1>14
     DEF Worker, WorkerAnswers

\* The main thread and the signal.
LEMMA MainStepTypes ==
    ASSUME TypeOK, MainThread \/ Signal
    PROVE  TypeOK'
<1> USE DEF TypeOK, ControlTypes, ListTypes, Lock, Unlock
<1>1. CASE MainLoop \/ PruneEnd \/ MainSwept \/ AcceptNobody \/ MainDrain \/ MainEnd \/ Signal
  <2>1. ControlTypes'
    BY <1>1 DEF MainLoop, PruneEnd, MainSwept, AcceptNobody, MainDrain, MainEnd, Signal, Agents
  <2>2. UNCHANGED <<list, doom, room, runner, mutex, dying, workers, players>>
    BY <1>1 DEF MainLoop, PruneEnd, MainSwept, AcceptNobody, MainDrain, MainEnd, Signal
  <2> QED
    BY <2>1, <2>2, Frame
<1>2. ASSUME NEW r \in Rooms, PruneLook(r) \/ PruneTake(r) PROVE TypeOK'
  <2>1. ControlTypes'
    BY <1>2 DEF PruneLook, PruneTake
  <2>2. ListTypes' /\ doom' \in [Agents -> SUBSET Rooms]
    BY <1>2, Frame DEF PruneLook, PruneTake
  <2> QED
    BY <1>2, <2>1, <2>2, Frame DEF PruneLook, PruneTake
<1>3. ASSUME NEW w \in Conns, Accept(w) PROVE TypeOK'
  <2>1. ControlTypes' /\ WorkerTypes' /\ PlayerTypes'
    BY <1>3 DEF Accept, WorkerTypes, PlayerTypes, Goto, CloseConn
  <2> QED
    BY <1>3, <2>1, Frame DEF Accept
<1>4. CASE MainTake
  <2>1. ControlTypes' /\ ListTypes' /\ doom' \in [Agents -> SUBSET Rooms]
    BY <1>4 DEF MainTake
  <2> QED
    BY <1>4, <2>1, Frame DEF MainTake
<1> QED
  BY <1>1, <1>2, <1>3, <1>4 DEF MainThread

\* Every step keeps the types.
LEMMA TypeStep == TypeOK /\ [Next]_vars => TypeOK'
<1> SUFFICES ASSUME TypeOK, [Next]_vars PROVE TypeOK'
  OBVIOUS
<1>1. CASE UNCHANGED vars
  BY <1>1, Frame DEF vars, TypeOK
<1> QED
  BY <1>1, RunnerTypes, DestroyTypes, WorkerStepTypes, PlayerStepTypes, MainStepTypes DEF Next, Exited

\* Every variable keeps its type; above all no vector of players outgrows maxPlayers, although
\* coordinator_connection_worker checks the count of active players and not the vector's length.
THEOREM TypeCorrect == Spec => []TypeOK
  BY TypeInit, TypeStep, PTL DEF Spec

-----------------------------------------------------------------------------
(* Locks. *)

\* Nobody holds a mutex at the start.
LEMMA LocksInit == Init => Locks
  BY CoordinatorAssumption DEF Init, Locks, CoordinatorAssumption

\* Only steps that move the main thread or a worker, or change the list, concern the locks.
LEMMA LocksFrame ==
    ASSUME Locks, UNCHANGED <<main, coord, scan, listed, mutex, workers>>
    PROVE  Locks'
  BY DEF Locks, workers

\* The steps of the workers.
LEMMA LocksWorker ==
    ASSUME TypeOK, Locks, NEW w \in Conns, Worker(w)
    PROVE  Locks'
<1> USE CoordinatorAssumption DEF CoordinatorAssumption
<1>1. /\ pc \in [Conns -> {"idle", "read", "asked", "lookup", "tour", "enter", "sweep", "register", "done"}]
      /\ want \in [Conns -> Codes \cup {None}] /\ hub \in [Conns -> Rooms \cup {None}]
      /\ mutex \in [Rooms -> Conns \cup {None}] /\ listed \subseteq Rooms
  BY DEF TypeOK, WorkerTypes, ListTypes
<1> USE <1>1 DEF Locks, Goto, Lock, Unlock
<1>2. CASE WorkerGivesUp(w)
  BY <1>2 DEF WorkerGivesUp, control, list
<1>3. ASSUME NEW what \in Commands, NEW c \in Codes, WorkerReads(w, what, c) PROVE Locks'
  BY <1>3 DEF WorkerReads, control, list
<1>14. CASE WorkerLocks(w)
  BY <1>14 DEF WorkerLocks, list
<1>4. CASE InfoReply(w) \/ (\E r \in Rooms : InfoRoom(w, r))
  BY <1>4 DEF InfoReply, InfoRoom, list, workers
<1>5. CASE Summary(w) \/ CreateRefused(w)
  BY <1>5 DEF Summary, CreateRefused, Lookup, list
<1>6. CASE CreateFails(w) \/ JoinFails(w)
  BY <1>6 DEF CreateFails, JoinFails, Lookup, NoRoom, Remaining
<1>7. ASSUME NEW r \in Rooms, CreateRoom(w, r) PROVE Locks'
  BY <1>7 DEF CreateRoom, Lookup, NewRoom, Remaining
<1>8. ASSUME NEW r \in Rooms, JoinFound(w, r) PROVE Locks'
  BY <1>8 DEF JoinFound, Lookup, FoundLive, Found, control, list
<1>9. ASSUME NEW r \in Rooms, JoinCreates(w, r) PROVE Locks'
  BY <1>9 DEF JoinCreates, Lookup, NewRoom, Remaining, control
<1>10. CASE JoinEnter(w)
  BY <1>10 DEF JoinEnter, list, RoomMutexFree
<1>11. CASE Swept(w)
  BY <1>11 DEF Swept, control, list
<1>12. CASE JoinRefused(w)
  BY <1>12 DEF JoinRefused, ReleaseMutex, control, list
<1>13. ASSUME NEW r \in Rooms, JoinRegister(w, r) PROVE Locks'
  BY <1>13 DEF JoinRegister, ReleaseMutex, control, list
<1> QED
  BY <1>2, <1>3, <1>4, <1>5, <1>6, <1>7, <1>8, <1>9, <1>10, <1>11, <1>12, <1>13, <1>14
     DEF Worker, WorkerAnswers

\* The steps of the main thread.
LEMMA LocksMain ==
    ASSUME TypeOK, Locks, Picking, MainThread
    PROVE  Locks'
<1> USE CoordinatorAssumption DEF CoordinatorAssumption
<1>1. /\ pc \in [Conns -> {"idle", "read", "asked", "lookup", "tour", "enter", "sweep", "register", "done"}]
      /\ mutex \in [Rooms -> Conns \cup {None}] /\ listed \subseteq Rooms
  BY DEF TypeOK, WorkerTypes, ListTypes
<1> USE <1>1 DEF Locks, Lock, Unlock, list, workers
<1>2. CASE MainLoop
  BY <1>2 DEF MainLoop
<1>3. ASSUME NEW r \in Rooms, PruneLook(r) \/ PruneTake(r) PROVE Locks'
  <2>1. CASE PruneLook(r)
    BY <1>3, <2>1 DEF PruneLook
  <2>2. CASE PruneTake(r)
    BY <2>2 DEF PruneTake, Picking
  <2> QED
    BY <1>3, <2>1, <2>2
<1>4. CASE PruneEnd \/ MainSwept \/ AcceptNobody \/ MainDrain \/ MainEnd
  BY <1>4 DEF PruneEnd, MainSwept, AcceptNobody, MainDrain, MainEnd
<1>5. ASSUME NEW w \in Conns, Accept(w) PROVE Locks'
  BY <1>5 DEF Accept, Goto
<1>6. CASE MainTake
  BY <1>6 DEF MainTake
<1> QED
  BY <1>2, <1>3, <1>4, <1>5, <1>6 DEF MainThread

\* Every step.
LEMMA LocksStep == TypeOK /\ Locks /\ Picking /\ [Next]_vars => Locks'
<1> SUFFICES ASSUME TypeOK, Locks, Picking, [Next]_vars PROVE Locks'
  OBVIOUS
<1> USE DEF control, list
<1>1. CASE UNCHANGED vars
  BY <1>1, LocksFrame DEF vars
<1>2. ASSUME NEW r \in Rooms, Runner(r) PROVE Locks'
  BY <1>2, LocksFrame DEF Runner, RunnerCheck, RunnerStart, RunnerUnblock, RunnerJoin, RunnerFinish
<1>3. ASSUME NEW r \in Rooms, Destroy(r) PROVE Locks'
  BY <1>3, LocksFrame DEF Destroy, DestroyBegin, DestroyFree, DestroyRelease, DestroyWake,
        DestroyJoinRunner, DestroyJoinThreads
<1>4. ASSUME NEW w \in Conns, Player(w) \/ HangUp(w) PROVE Locks'
  BY <1>4, LocksFrame DEF Player, LobbyWake, LobbyPeek, LobbyLeave, LobbyReturn, ReaderReturn, HangUp
<1>5. CASE Signal
  BY <1>5, LocksFrame DEF Signal
<1> QED
  BY <1>1, <1>2, <1>3, <1>4, <1>5, LocksWorker, LocksMain DEF Next, Exited

-----------------------------------------------------------------------------
(* The stages of a room. *)

\* No room is in use at the start.
LEMMA StagesInit == Init => Stages
  BY DEF Init, Stages

\* Every step.
LEMMA StagesStep == TypeOK /\ Stages /\ [Next]_vars => Stages'
<1> SUFFICES ASSUME TypeOK, Stages, [Next]_vars PROVE Stages'
  OBVIOUS
<1>1. /\ runner \in [Rooms -> {"none", "check", "asleep", "start", "race", "join", "finish", "done"}]
      /\ state \in [Rooms -> {"free", "waiting", "racing", "finished"}]
  BY DEF TypeOK, RoomTypes
<1>2. UNCHANGED <<runner, state>> => Stages'
  BY DEF Stages
<1>3. ASSUME NEW r \in Rooms, Runner(r) PROVE Stages'
  <2>1. CASE RunnerCheck(r)
    BY <1>1, <2>1 DEF RunnerCheck, Stages
  <2>2. CASE RunnerStart(r) \/ RunnerUnblock(r) \/ RunnerJoin(r)
    BY <1>1, <2>2 DEF RunnerStart, RunnerUnblock, RunnerJoin, Stages, room
  <2>3. CASE RunnerFinish(r)
    BY <1>1, <2>3 DEF RunnerFinish, Stages
  <2> QED
    BY <1>3, <2>1, <2>2, <2>3 DEF Runner
<1>4. ASSUME NEW r \in Rooms, Destroy(r) PROVE Stages'
  <2>1. ASSUME NEW a \in Agents, DestroyFree(a, r) PROVE Stages'
    BY <1>1, <2>1 DEF DestroyFree, Stages
  <2>2. CASE DestroyWake(r)
    BY <1>1, <2>2 DEF DestroyWake, Woken, Stages, room
  <2> QED
    BY <1>2, <1>4, <2>1, <2>2 DEF Destroy, DestroyBegin, DestroyRelease, DestroyJoinRunner,
          DestroyJoinThreads, room
<1>5. ASSUME NEW w \in Conns, Worker(w) PROVE Stages'
  <2>1. ASSUME NEW r \in Rooms, NewRoom(w, r) PROVE Stages'
    BY <1>1, <2>1 DEF NewRoom, Stages
  <2>2. ASSUME NEW r \in Rooms, JoinRegister(w, r) PROVE Stages'
    BY <1>1, <2>2 DEF JoinRegister, Woken, Stages
  <2> QED
    BY <1>2, <1>5, <2>1, <2>2 DEF Worker, WorkerAnswers, WorkerGivesUp, WorkerReads, WorkerLocks,
          InfoRoom, InfoReply, Summary,
          CreateRefused, CreateRoom, CreateFails, JoinFails, JoinFound, JoinCreates, JoinEnter, Swept,
          JoinRefused, room
<1>6. ASSUME NEW w \in Conns, Player(w) \/ HangUp(w) PROVE Stages'
  BY <1>2, <1>6 DEF Player, LobbyWake, LobbyPeek, LobbyLeave, LobbyReturn, ReaderReturn, HangUp, room
<1>7. CASE MainThread \/ Signal
  BY <1>2, <1>7 DEF MainThread, MainLoop, PruneLook, PruneTake, PruneEnd, MainSwept, Accept,
          AcceptNobody, MainDrain,
        MainTake, MainEnd, Signal, room
<1>8. CASE UNCHANGED vars
  BY <1>2, <1>8 DEF vars, room
<1> QED
  BY <1>3, <1>4, <1>5, <1>6, <1>7, <1>8 DEF Next, Exited

-----------------------------------------------------------------------------
(* Who owns a room. *)

\* Nobody owns anything at the start.
LEMMA OwnershipInit == Init => Ownership
<1>1. Cardinality({}) = 0 /\ RoomLimit \in Nat \ {0}
  BY FS_EmptySet, CoordinatorAssumption DEF CoordinatorAssumption
<1> QED
  BY <1>1 DEF Init, Ownership, Doomed, Agents

\* A set of rooms is finite; one room more raises the count by at most one, and a part of the
\* list is no longer than the list.
LEMMA RoomSets ==
    ASSUME NEW S \in SUBSET Rooms
    PROVE  /\ IsFiniteSet(S) /\ Cardinality(S) \in Nat
           /\ \A T \in SUBSET S : Cardinality(T) <= Cardinality(S)
           /\ \A r \in Rooms : Cardinality(S \cup {r}) <= Cardinality(S) + 1
<1>1. IsFiniteSet(S)
  BY FS_Subset, CoordinatorAssumption DEF CoordinatorAssumption
<1>2. Cardinality(S) \in Nat
  BY <1>1, FS_CardinalityType
<1>3. ASSUME NEW T \in SUBSET S PROVE Cardinality(T) <= Cardinality(S)
  BY <1>1, FS_Subset
<1>4. ASSUME NEW r \in Rooms PROVE Cardinality(S \cup {r}) <= Cardinality(S) + 1
  <2>1. CASE r \in S
    <3>1. S \cup {r} = S
      BY <2>1
    <3>2. Cardinality(S \cup {r}) = Cardinality(S)
      BY <3>1
    <3> QED
      BY <1>2, <3>2
  <2>2. CASE r \notin S
    <3>1. Cardinality(S \cup {r}) = Cardinality(S) + 1
      BY <1>1, <2>2, FS_AddElement
    <3> QED
      BY <1>2, <3>1
  <2> QED
    BY <2>1, <2>2
<1> QED
  BY <1>1, <1>2, <1>3, <1>4

\* A step that leaves the list, the codes and the rooms to destroy alone, frees no room, and
\* lets no thread with rooms to destroy go on, keeps the owners.
LEMMA OwnershipFrame ==
    ASSUME Ownership, UNCHANGED <<listed, code, doom>>,
           \A r \in Rooms : state'[r] = "free" <=> state[r] = "free",
           \A w \in Conns : doom[w] # {} => pc'[w] \in {"enter", "sweep"},
           doom[Main] # {} => main' \in {"scan", "sweep", "lastSweep"},
           \A r \in Rooms : dying'[r] # "no" => Doomed(r)
    PROVE  Ownership'
  BY DEF Ownership, Doomed

\* CREATE and JOIN take the finished room of their code from the list, if there is one.
LEMMA OwnershipNoRoom ==
    ASSUME TypeOK, Ownership, NEW w \in Conns, pc[w] = "lookup", NoRoom(w),
           UNCHANGED <<code, state, dying, main>>, pc' = [pc EXCEPT ![w] = "sweep"]
    PROVE  Ownership'
<1>1. /\ doom \in [Agents -> SUBSET Rooms] /\ listed \subseteq Rooms /\ w \in Agents
      /\ pc \in [Conns -> {"idle", "read", "asked", "lookup", "tour", "enter", "sweep", "register", "done"}]
      /\ Main \in Agents /\ w # Main /\ Conns \subseteq Agents
  BY CoordinatorAssumption DEF TypeOK, ListTypes, WorkerTypes, Agents, CoordinatorAssumption
<1>2. FoundFinished(w) \subseteq listed
  BY DEF FoundFinished, Found
<1>3. doom[w] = {}
  BY DEF Ownership
<1> DEFINE FF == FoundFinished(w)
<1>4. listed' = listed \ FF /\ doom' = [doom EXCEPT ![w] = FF]
  BY <1>1, <1>3 DEF NoRoom, Extract, Remaining
<1>5. Cardinality(listed') <= RoomLimit
  <2>1. Cardinality(listed') <= Cardinality(listed) /\ Cardinality(listed) \in Nat
        /\ Cardinality(listed') \in Nat
    BY <1>1, <1>4, RoomSets
  <2> QED
    BY <2>1, CoordinatorAssumption DEF Ownership, CoordinatorAssumption
<1> HIDE DEF FF
<1>6. \A q \in Rooms : Doomed(q)' <=> Doomed(q) \/ q \in FF
  BY <1>1, <1>3, <1>4 DEF Doomed
<1>7. /\ \A q \in Rooms : state'[q] # "free" <=> q \in listed' \/ Doomed(q)'
      /\ \A q \in listed' : ~Doomed(q)'
      /\ \A q \in Rooms : dying'[q] # "no" => Doomed(q)'
  BY <1>1, <1>2, <1>4, <1>6 DEF Ownership, FF
<1>8. \A a, b \in Agents : doom'[a] \cap doom'[b] # {} => a = b
  BY <1>1, <1>2, <1>3, <1>4 DEF Ownership, Doomed, FF
<1>9. /\ \A v \in Conns : doom'[v] # {} => pc'[v] \in {"enter", "sweep"}
      /\ doom'[Main] # {} => main' \in {"scan", "sweep", "lastSweep"}
      /\ \A p, q \in listed' : code'[q] = code'[p] => q = p
  BY <1>1, <1>3, <1>4 DEF Ownership
<1> QED
  BY <1>5, <1>7, <1>8, <1>9 DEF Ownership

\* And they put a new one on it: no other room of that code is left there, and the room was free.
LEMMA OwnershipNewRoom ==
    ASSUME TypeOK, Ownership, NEW w \in Conns, NEW r \in Rooms, pc[w] = "lookup", NewRoom(w, r),
           UNCHANGED <<dying, main>>, NEW place \in {"enter", "sweep"}, pc' = [pc EXCEPT ![w] = place]
    PROVE  Ownership'
<1>1. /\ doom \in [Agents -> SUBSET Rooms] /\ listed \subseteq Rooms /\ w \in Agents
      /\ pc \in [Conns -> {"idle", "read", "asked", "lookup", "tour", "enter", "sweep", "register", "done"}]
      /\ Main \in Agents /\ w # Main /\ Conns \subseteq Agents
      /\ state \in [Rooms -> {"free", "waiting", "racing", "finished"}]
      /\ code \in [Rooms -> Codes \cup {None}]
  BY CoordinatorAssumption DEF TypeOK, ListTypes, RoomTypes, WorkerTypes, Agents, CoordinatorAssumption
<1> DEFINE FF == FoundFinished(w)
<1>2. FF \subseteq listed /\ \A q \in listed \ FF : code[q] # want[w]
  BY DEF FoundFinished, FoundLive, Found, NewRoom
<1>3. doom[w] = {} /\ state[r] = "free" /\ r \notin listed /\ ~Doomed(r)
  BY DEF Ownership, NewRoom
<1>4. /\ listed' = (listed \ FF) \cup {r} /\ doom' = [doom EXCEPT ![w] = FF]
      /\ state' = [state EXCEPT ![r] = "waiting"] /\ code' = [code EXCEPT ![r] = want[w]]
  BY <1>1, <1>3 DEF NewRoom, Extract, Remaining
<1>5. Cardinality(listed') <= RoomLimit
  <2>1. /\ Cardinality(listed') <= Cardinality(listed \ FF) + 1
        /\ Cardinality(listed') \in Nat /\ Cardinality(listed \ FF) \in Nat
    <3>1. listed \ FF \in SUBSET Rooms /\ listed' \in SUBSET Rooms
      BY <1>1, <1>4
    <3> HIDE DEF FF
    <3> QED
      BY <1>4, <3>1, RoomSets
  <2>2. Cardinality(listed \ FF) < RoomLimit
    BY DEF NewRoom, PlaceLeft, Remaining
  <2> QED
    BY <2>1, <2>2, CoordinatorAssumption DEF CoordinatorAssumption
<1> HIDE DEF FF
<1>6. \A q \in Rooms : Doomed(q)' <=> Doomed(q) \/ q \in FF
  BY <1>1, <1>3, <1>4 DEF Doomed
<1>7. /\ \A q \in Rooms : state'[q] # "free" <=> q \in listed' \/ Doomed(q)'
      /\ \A q \in listed' : ~Doomed(q)'
      /\ \A q \in Rooms : dying'[q] # "no" => Doomed(q)'
  BY <1>1, <1>2, <1>3, <1>4, <1>6 DEF Ownership
<1>8. \A a, b \in Agents : doom'[a] \cap doom'[b] # {} => a = b
  BY <1>1, <1>2, <1>3, <1>4 DEF Ownership, Doomed
<1>9. /\ \A v \in Conns : doom'[v] # {} => pc'[v] \in {"enter", "sweep"}
      /\ doom'[Main] # {} => main' \in {"scan", "sweep", "lastSweep"}
  BY <1>1, <1>3, <1>4 DEF Ownership
<1>10. \A p, q \in listed' : code'[q] = code'[p] => q = p
  BY <1>1, <1>2, <1>4 DEF Ownership
<1> QED
  BY <1>5, <1>7, <1>8, <1>9, <1>10 DEF Ownership

\* The main thread takes one room while it prunes, and every room when it stops.
LEMMA OwnershipMain ==
    ASSUME TypeOK, Picking, Ownership, MainThread \/ Signal
    PROVE  Ownership'
<1>1. /\ doom \in [Agents -> SUBSET Rooms] /\ listed \subseteq Rooms /\ Main \in Agents
      /\ pc \in [Conns -> {"idle", "read", "asked", "lookup", "tour", "enter", "sweep", "register", "done"}]
      /\ Conns \subseteq Agents /\ Main \notin Conns /\ IsFiniteSet(Rooms)
      /\ RoomLimit \in Nat
  BY CoordinatorAssumption DEF TypeOK, ListTypes, WorkerTypes, Agents, CoordinatorAssumption
<1>2. CASE MainLoop \/ PruneEnd \/ MainSwept \/ AcceptNobody \/ MainDrain \/ MainEnd \/ Signal
  BY <1>2, OwnershipFrame DEF MainLoop, PruneEnd, MainSwept, AcceptNobody, MainDrain, MainEnd, Signal,
        list, room, workers, Ownership
<1>3. ASSUME NEW w \in Conns, Accept(w) PROVE Ownership'
  <2>1. /\ UNCHANGED <<listed, code, doom, state, dying>> /\ main = "accept" /\ pc[w] = "idle"
        /\ pc' \in [Conns -> {"idle", "read", "asked", "lookup", "tour", "enter", "sweep", "register", "done"}]
        /\ \A v \in Conns : v # w => pc'[v] = pc[v]
    BY <1>1, <1>3 DEF Accept, Goto, list, room
  <2> QED
    BY <1>1, <2>1, OwnershipFrame DEF Ownership
<1>4. ASSUME NEW r \in Rooms, PruneLook(r) \/ PruneTake(r) PROVE Ownership'
  <2>1. CASE PruneLook(r)
    BY <2>1, OwnershipFrame DEF PruneLook, list, room, workers, Ownership
  <2>2. CASE PruneTake(r)
    <3>1. UNCHANGED <<main, code, state, pc, dying>> /\ main = "scan" /\ r \in listed
      BY <2>2, CoordinatorAssumption DEF PruneTake, room, workers, Picking, CoordinatorAssumption
    <3>2. listed' = listed \ {r} /\ doom' = [doom EXCEPT ![Main] = @ \cup {r}]
      BY <2>2 DEF PruneTake
    <3>3. Cardinality(listed') <= RoomLimit
      <4>1. /\ Cardinality(listed') <= Cardinality(listed) /\ Cardinality(listed) \in Nat
            /\ Cardinality(listed') \in Nat
        BY <1>1, <3>2, RoomSets
      <4> QED
        BY <1>1, <4>1 DEF Ownership
    <3>4. \A q \in Rooms : Doomed(q)' <=> Doomed(q) \/ q = r
      BY <1>1, <3>2 DEF Doomed
    <3>5. \A a, b \in Agents : doom'[a] \cap doom'[b] # {} => a = b
      BY <1>1, <3>1, <3>2 DEF Ownership, Doomed
    <3>6. \A v \in Conns : doom'[v] # {} => pc'[v] \in {"enter", "sweep"}
      BY <1>1, <3>1, <3>2 DEF Ownership
    <3> QED
      BY <1>1, <3>1, <3>2, <3>3, <3>4, <3>5, <3>6 DEF Ownership
  <2> QED
    BY <1>4, <2>1, <2>2
<1>5. CASE MainTake
  <2>1. /\ UNCHANGED <<code, state, pc, dying>> /\ main = "take" /\ main' = "lastSweep"
        /\ doom' = [doom EXCEPT ![Main] = listed] /\ listed' = {} /\ doom[Main] = {}
    BY <1>5 DEF MainTake, room, workers, Ownership
  <2>2. Cardinality(listed') <= RoomLimit
    BY <1>1, <2>1, FS_EmptySet
  <2>3. \A q \in Rooms : Doomed(q)' <=> Doomed(q) \/ q \in listed
    BY <1>1, <2>1 DEF Doomed
  <2>4. \A a, b \in Agents : doom'[a] \cap doom'[b] # {} => a = b
    BY <1>1, <2>1 DEF Ownership, Doomed
  <2>5. \A v \in Conns : doom'[v] # {} => pc'[v] \in {"enter", "sweep"}
    BY <1>1, <2>1 DEF Ownership
  <2> QED
    BY <1>1, <2>1, <2>2, <2>3, <2>4, <2>5 DEF Ownership
<1> QED
  BY <1>2, <1>3, <1>4, <1>5 DEF MainThread

\* The thread that destroys a room lets go of it when it frees it.
LEMMA OwnershipDestroy ==
    ASSUME TypeOK, Ownership, NEW r \in Rooms, Destroy(r)
    PROVE  Ownership'
<1>1. /\ doom \in [Agents -> SUBSET Rooms] /\ listed \subseteq Rooms /\ Main \in Agents
      /\ Conns \subseteq Agents
      /\ dying \in [Rooms -> {"no", "release", "wake", "runner", "threads", "close"}]
      /\ state \in [Rooms -> {"free", "waiting", "racing", "finished"}]
      /\ code \in [Rooms -> Codes \cup {None}]
  BY DEF TypeOK, ListTypes, RoomTypes, Agents
<1>2. ASSUME NEW a \in Agents, DestroyBegin(a, r) PROVE Ownership'
  <2>1. /\ UNCHANGED <<listed, code, doom, state, pc, main>> /\ r \in doom[a]
        /\ dying' = [dying EXCEPT ![r] = "release"]
    BY <1>2 DEF DestroyBegin, control, list, workers
  <2>2. \A q \in Rooms : dying'[q] # "no" => Doomed(q)
    BY <1>1, <2>1 DEF Ownership, Doomed
  <2> QED
    BY <2>1, <2>2, OwnershipFrame DEF Ownership
<1>3. ASSUME NEW a \in Agents, DestroyFree(a, r) PROVE Ownership'
  <2>1. /\ UNCHANGED <<listed, pc, main>> /\ r \in doom[a]
        /\ dying' = [dying EXCEPT ![r] = "no"] /\ state' = [state EXCEPT ![r] = "free"]
        /\ doom' = [doom EXCEPT ![a] = @ \ {r}] /\ code' = [code EXCEPT ![r] = None]
    BY <1>3 DEF DestroyFree, control, workers
  <2>2. r \notin listed
    BY <2>1 DEF Ownership, Doomed
  <2>3. \A q \in Rooms : Doomed(q)' <=> Doomed(q) /\ q # r
    BY <1>1, <2>1 DEF Ownership, Doomed
  <2>4. /\ \A a1, b1 \in Agents : doom'[a1] \cap doom'[b1] # {} => a1 = b1
        /\ \A w \in Conns : doom'[w] # {} => pc'[w] \in {"enter", "sweep"}
        /\ doom'[Main] # {} => main' \in {"scan", "sweep", "lastSweep"}
    BY <1>1, <2>1 DEF Ownership
  <2>5. \A p, q \in listed' : code'[q] = code'[p] => q = p
    BY <1>1, <2>1, <2>2 DEF Ownership
  <2> QED
    BY <1>1, <2>1, <2>2, <2>3, <2>4, <2>5 DEF Ownership
<1>4. CASE DestroyRelease(r) \/ DestroyWake(r) \/ DestroyJoinRunner(r) \/ DestroyJoinThreads(r)
  <2>1. /\ UNCHANGED <<listed, code, doom, state, pc, main>>
        /\ \A q \in Rooms : dying'[q] # "no" => dying[q] # "no"
    BY <1>1, <1>4 DEF DestroyRelease, DestroyWake, DestroyJoinRunner, DestroyJoinThreads, control, list,
          room, workers
  <2> QED
    BY <2>1, OwnershipFrame DEF Ownership
<1> QED
  BY <1>2, <1>3, <1>4 DEF Destroy

\* The workers.
LEMMA OwnershipWorker ==
    ASSUME TypeOK, Ownership, NEW w \in Conns, Worker(w)
    PROVE  Ownership'
<1>1. pc \in [Conns -> {"idle", "read", "asked", "lookup", "tour", "enter", "sweep", "register", "done"}]
  BY DEF TypeOK, WorkerTypes
<1>2. CASE CreateFails(w) \/ JoinFails(w)
  BY <1>2, OwnershipNoRoom DEF CreateFails, JoinFails, Lookup, Goto, room
<1>3. ASSUME NEW r \in Rooms, CreateRoom(w, r) \/ JoinCreates(w, r) PROVE Ownership'
  <2>1. CASE CreateRoom(w, r)
    BY <2>1, OwnershipNewRoom DEF CreateRoom, Lookup, Goto
  <2>2. CASE JoinCreates(w, r)
    BY <2>2, OwnershipNewRoom DEF JoinCreates, Lookup, Goto, control
  <2> QED
    BY <1>3, <2>1, <2>2
<1>4. CASE \/ WorkerGivesUp(w) \/ (\E what \in Commands, c \in Codes : WorkerReads(w, what, c))
           \/ WorkerLocks(w)
           \/ InfoReply(w) \/ Summary(w) \/ CreateRefused(w) \/ (\E r \in Rooms : JoinFound(w, r))
           \/ JoinEnter(w) \/ Swept(w) \/ JoinRefused(w) \/ (\E r \in Rooms : JoinRegister(w, r))
  <2>1. UNCHANGED <<listed, code, doom, state, dying, main>>
    BY <1>4 DEF WorkerGivesUp, WorkerReads, WorkerLocks, InfoReply, Summary, CreateRefused,
          JoinFound, JoinEnter,
          Swept, JoinRefused, JoinRegister, control, list, room
  <2>2. pc[w] \notin {"enter", "sweep"} \/ doom[w] = {} \/ pc'[w] = "sweep"
    BY <1>1, <1>4 DEF WorkerGivesUp, WorkerReads, WorkerLocks, InfoReply, Summary, CreateRefused, JoinFound,
          JoinEnter, Swept, JoinRefused, JoinRegister, Lookup, Goto
  <2>3. \A v \in Conns : v # w => pc'[v] = pc[v]
    BY <1>1, <1>4 DEF WorkerGivesUp, WorkerReads, WorkerLocks, InfoReply, Summary, CreateRefused, JoinFound,
          JoinEnter, Swept, JoinRefused, JoinRegister, Lookup, Goto
  <2> QED
    BY <2>1, <2>2, <2>3, OwnershipFrame DEF Ownership
<1>5. ASSUME NEW r \in Rooms, InfoRoom(w, r) PROVE Ownership'
  BY <1>5, OwnershipFrame DEF InfoRoom, list, room, workers, Ownership
<1> QED
  BY <1>2, <1>3, <1>4, <1>5 DEF Worker, WorkerAnswers

\* Every step.
LEMMA OwnershipStep == TypeOK /\ Picking /\ Stages /\ Ownership /\ [Next]_vars => Ownership'
<1> SUFFICES ASSUME TypeOK, Picking, Stages, Ownership, [Next]_vars PROVE Ownership'
  OBVIOUS
<1> USE DEF control, list, room, workers
<1>1. UNCHANGED <<listed, code, doom, state, dying, pc, main>> => Ownership'
  BY OwnershipFrame DEF Ownership
<1>2. ASSUME NEW r \in Rooms, Runner(r) PROVE Ownership'
  <2>1. UNCHANGED <<listed, code, doom, dying, pc, main>>
    BY <1>2 DEF Runner, RunnerCheck, RunnerStart, RunnerUnblock, RunnerJoin, RunnerFinish
  <2>2. \A q \in Rooms : state'[q] = "free" <=> state[q] = "free"
    <3>1. /\ state \in [Rooms -> {"free", "waiting", "racing", "finished"}]
          /\ runner \in [Rooms -> {"none", "check", "asleep", "start", "race", "join", "finish", "done"}]
      BY DEF TypeOK, RoomTypes
    <3> QED
      BY <1>2, <3>1 DEF Stages, Runner, RunnerCheck, RunnerStart, RunnerUnblock, RunnerJoin, RunnerFinish
  <2> QED
    BY <2>1, <2>2, OwnershipFrame DEF Ownership
<1>3. ASSUME NEW w \in Conns, Player(w) \/ HangUp(w) PROVE Ownership'
  BY <1>1, <1>3 DEF Player, LobbyWake, LobbyPeek, LobbyLeave, LobbyReturn, ReaderReturn, HangUp
<1>4. CASE UNCHANGED vars
  BY <1>1, <1>4 DEF vars
<1> QED
  BY <1>2, <1>3, <1>4, OwnershipDestroy, OwnershipWorker, OwnershipMain DEF Next, Exited

-----------------------------------------------------------------------------
(* The room that is about to be pruned. *)

\* None is picked at the start.
LEMMA PickingInit == Init => Picking
  BY DEF Init, Picking

\* A room without active players stays so while its vector of players is left alone.
LEMMA PickedStays ==
    ASSUME TypeOK, Picking, picked \in Rooms,
           UNCHANGED <<picked, main, listed>>, scan' \subseteq scan,
           mutex'[picked] = mutex[picked], state'[picked] = state[picked],
           slots'[picked] = slots[picked], gone \subseteq gone'
    PROVE  Picking'
<1> DEFINE A == {s \in 1 .. Len(slots[picked]) : slots[picked][s] \notin gone}
           B == {s \in 1 .. Len(slots'[picked]) : slots'[picked][s] \notin gone'}
<1>1. /\ main = "scan" /\ picked \in listed \ scan /\ mutex[picked] = None
      /\ Prunable(picked) /\ picked # None
  BY CoordinatorAssumption DEF Picking, RoomMutexFree, CoordinatorAssumption
<1>2. Active(picked) = 0 => ActivePlayers(picked) = {}
  BY ActiveCount
<1>3. Active(picked) = 0 => B = {}
  BY <1>2 DEF ActivePlayers, Players
<1>4. Active(picked)' = Cardinality(B)
  BY DEF Active
<1>5. Active(picked) = 0 => Active(picked)' = 0
  <2> HIDE DEF B
  <2> QED
    BY <1>3, <1>4, FS_EmptySet
<1>6. Prunable(picked)'
  <2>1. state[picked] = "finished" \/ (state[picked] = "waiting" /\ Active(picked) = 0)
    BY <1>1 DEF Prunable
  <2>2. state'[picked'] = "finished" \/ (state'[picked'] = "waiting" /\ Active(picked)' = 0)
    BY <1>5, <2>1
  <2> QED
    BY <2>2 DEF Prunable
<1>7. RoomMutexFree(picked)'
  BY <1>1 DEF RoomMutexFree
<1> QED
  BY <1>1, <1>6, <1>7 DEF Picking

\* The main thread holds gCoordinatorMutex from the decision to the removal, so that no worker
\* gets to the room's mutex, which a player needs to be registered.
LEMMA PickingWorker ==
    ASSUME TypeOK, Locks, Picking, picked \in Rooms, NEW w \in Conns, Worker(w)
    PROVE  Picking'
<1>1. coord = Main /\ pc[w] \notin {"lookup", "tour", "enter"} /\ coord # None /\ mutex[picked] # w
  BY CoordinatorAssumption DEF Locks, Picking, RoomMutexFree, CoordinatorAssumption
<1> USE DEF control, list, room, players
<1>2. CASE WorkerGivesUp(w) \/ (\E what \in Commands, c \in Codes : WorkerReads(w, what, c)) \/ Swept(w)
  BY <1>2, PickedStays DEF WorkerGivesUp, WorkerReads, Swept
<1>3. CASE JoinRefused(w)
  <2>1. mutex[hub[w]] = w /\ hub[w] # picked
    BY <1>1, <1>3 DEF JoinRefused, Locks, TypeOK, WorkerTypes
  <2>2. mutex'[picked] = mutex[picked]
    BY <1>3, <2>1 DEF JoinRefused, ReleaseMutex, TypeOK
  <2> QED
    BY <1>3, <2>2, PickedStays DEF JoinRefused
<1>4. ASSUME NEW r \in Rooms, JoinRegister(w, r) PROVE Picking'
  <2>1. r # picked
    BY <1>1, <1>4 DEF JoinRegister, Locks
  <2>2. mutex'[picked] = mutex[picked] /\ slots'[picked] = slots[picked]
    BY <1>4, <2>1 DEF JoinRegister, ReleaseMutex, TypeOK, RoomTypes
  <2>3. UNCHANGED <<picked, main, listed, scan, state>> /\ gone \subseteq gone'
    BY <1>4 DEF JoinRegister
  <2> QED
    BY <2>2, <2>3, PickedStays
<1> QED
  BY <1>1, <1>2, <1>3, <1>4 DEF Worker, WorkerAnswers, WorkerLocks, Lock, InfoRoom, InfoReply, Summary,
        Lookup, CreateRefused, CreateRoom, CreateFails, JoinFails, JoinFound, JoinCreates, JoinEnter

\* The runner of such a room neither starts nor ends a race, and nobody destroys it.
LEMMA PickingRoom ==
    ASSUME TypeOK, Stages, Ownership, Picking, picked \in Rooms, NEW r \in Rooms, Runner(r) \/ Destroy(r)
    PROVE  Picking'
<1> USE DEF control, list, room, players
<1>1. /\ Prunable(picked) /\ picked \in listed /\ ~Doomed(picked) /\ picked # None
  BY CoordinatorAssumption DEF Picking, Ownership, CoordinatorAssumption
<1>2. /\ state \in [Rooms -> {"free", "waiting", "racing", "finished"}]
      /\ slots \in [Rooms -> Seq(Conns)]
  BY DEF TypeOK, RoomTypes
<1>3. CASE Runner(r)
  <2>1. UNCHANGED <<picked, main, listed, scan, mutex, slots, gone>>
    BY <1>3 DEF Runner, RunnerCheck, RunnerStart, RunnerUnblock, RunnerJoin, RunnerFinish
  <2>2. state'[picked] = state[picked]
    <3>1. CASE RunnerCheck(r)
      <4>1. r = picked => ~Full(r)
        BY <1>1, <3>1, CoordinatorAssumption DEF RunnerCheck, Stages, Prunable, Full, CoordinatorAssumption
      <4> QED
        BY <1>2, <3>1, <4>1 DEF RunnerCheck
    <3>2. CASE RunnerFinish(r)
      <4>1. r # picked
        BY <1>1, <3>2 DEF RunnerFinish, Stages, Prunable
      <4> QED
        BY <1>2, <3>2, <4>1 DEF RunnerFinish
    <3> QED
      BY <1>3, <3>1, <3>2 DEF Runner, RunnerStart, RunnerUnblock, RunnerJoin
  <2> QED
    BY <2>1, <2>2, PickedStays
<1>4. ASSUME NEW a \in Agents, DestroyFree(a, r) PROVE Picking'
  <2>1. r # picked
    BY <1>1, <1>4 DEF DestroyFree, Doomed
  <2>2. state'[picked] = state[picked] /\ slots'[picked] = slots[picked]
    BY <1>2, <1>4, <2>1 DEF DestroyFree
  <2> QED
    BY <1>4, <2>2, PickedStays DEF DestroyFree
<1>5. CASE \/ \E a \in Agents : DestroyBegin(a, r)
           \/ DestroyRelease(r) \/ DestroyWake(r) \/ DestroyJoinRunner(r) \/ DestroyJoinThreads(r)
  BY <1>5, PickedStays DEF DestroyBegin, DestroyRelease, DestroyWake, DestroyJoinRunner,
        DestroyJoinThreads
<1> QED
  BY <1>3, <1>4, <1>5 DEF Destroy

\* Every step.
LEMMA PickingStep == TypeOK /\ Locks /\ Stages /\ Ownership /\ Picking /\ [Next]_vars => Picking'
<1> SUFFICES ASSUME TypeOK, Locks, Stages, Ownership, Picking, [Next]_vars PROVE Picking'
  OBVIOUS
<1> USE DEF control, list, room, players
<1>1. picked \in Rooms \/ picked = None
  BY DEF TypeOK, ControlTypes
<1>2. CASE picked = None /\ picked' = None
  BY <1>2 DEF Picking
<1>3. CASE UNCHANGED vars
  BY <1>1, <1>2, <1>3, PickedStays DEF vars
<1>4. ASSUME NEW r \in Rooms, Runner(r) \/ Destroy(r) PROVE Picking'
  <2>1. picked' = picked
    BY <1>4 DEF Runner, RunnerCheck, RunnerStart, RunnerUnblock, RunnerJoin, RunnerFinish, Destroy,
          DestroyBegin, DestroyFree, DestroyRelease, DestroyWake, DestroyJoinRunner, DestroyJoinThreads
  <2> QED
    BY <1>1, <1>2, <1>4, <2>1, PickingRoom
<1>5. ASSUME NEW w \in Conns, Worker(w) PROVE Picking'
  <2>1. picked' = picked
    BY <1>5 DEF Worker, WorkerAnswers, WorkerGivesUp, WorkerReads, WorkerLocks, InfoRoom, InfoReply,
          Summary, CreateRefused, CreateRoom, CreateFails, JoinFails, JoinFound, JoinCreates, JoinEnter,
          Swept, JoinRefused, JoinRegister
  <2> QED
    BY <1>1, <1>2, <1>5, <2>1, PickingWorker
<1>6. ASSUME NEW w \in Conns, Player(w) \/ HangUp(w) PROVE Picking'
  <2>1. UNCHANGED <<picked, main, listed, scan, mutex, state, slots>> /\ gone \subseteq gone'
    BY <1>6 DEF Player, LobbyWake, LobbyPeek, LobbyLeave, LobbyReturn, ReaderReturn, HangUp
  <2> QED
    BY <1>1, <1>2, <2>1, PickedStays
<1>7. CASE MainThread
  <2>1. ASSUME NEW r \in Rooms, PruneLook(r) PROVE Picking'
    <3>1. CASE picked' = r
      <4>1. r \in listed' \ scan' /\ main' = "scan"
        BY <2>1 DEF PruneLook, Locks
      <4>2. RoomMutexFree(r)'
        BY <2>1 DEF PruneLook, RoomMutexFree
      <4>3. Prunable(r)'
        <5>1. Prunable(r) /\ UNCHANGED <<state, slots, gone>>
          BY <2>1, <3>1, CoordinatorAssumption DEF PruneLook, CoordinatorAssumption
        <5> QED
          BY <5>1 DEF Prunable, Active
      <4> QED
        BY <3>1, <4>1, <4>2, <4>3 DEF Picking, Prunable, Active, RoomMutexFree
    <3> QED
      BY <1>2, <2>1, <3>1 DEF PruneLook
  <2>2. ASSUME NEW r \in Rooms, PruneTake(r) PROVE Picking'
    BY <2>2 DEF PruneTake, Picking
  <2> QED
    BY <1>1, <1>2, <1>7, <2>1, <2>2 DEF MainThread, MainLoop, PruneEnd, MainSwept, Accept, AcceptNobody,
          MainDrain, MainTake, MainEnd, Picking
<1>8. CASE Signal
  BY <1>1, <1>2, <1>8, PickedStays DEF Signal
<1> QED
  BY <1>3, <1>4, <1>5, <1>6, <1>7, <1>8 DEF Next, Exited

-----------------------------------------------------------------------------
(* Who sits in a room, and what its destruction has established. *)

\* Nobody sits anywhere at the start, and nothing is being destroyed.
LEMMA SeatsInit == Init => Seats /\ Teardown
<1> SUFFICES ASSUME Init PROVE Seats /\ Teardown
  OBVIOUS
<1>1. \A r \in Rooms : slots[r] = <<>> /\ Len(slots[r]) = 0
  BY EmptySeq DEF Init
<1>2. \A r \in Rooms : Players(r) = {}
  BY <1>1 DEF Players
<1>3. Seats
  BY <1>1, <1>2 DEF Init, Seats, ThreadsOwned, Returned
<1>4. Teardown
  BY <1>1, CoordinatorAssumption DEF Init, Teardown, RoomMutexFree, Returned, CoordinatorAssumption
<1> QED
  BY <1>3, <1>4

\* A worker that is not done sits nowhere yet: what it does with its place and its room is no
\* concern of any player.
LEMMA SeatsOthers ==
    ASSUME TypeOK, Seats, NEW w \in Conns, UNCHANGED <<slots, thread, gone>>, pc[w] # "done",
           \A v \in Conns \ {w} : pc'[v] = pc[v] /\ hub'[v] = hub[v]
    PROVE  Seats'
<1>1. /\ \A r \in Rooms : w \notin Players(r)
      /\ thread[w] = "none" /\ w \notin gone
      /\ \A r \in Rooms : Players(r) \subseteq Conns /\ Players(r)' = Players(r)
      /\ gone \subseteq Conns
  <2>1. \A r \in Rooms : Players(r) \subseteq Conns
    BY FreeSlotPlace DEF Players
  <2> QED
    BY <2>1 DEF Seats, TypeOK, PlayerTypes, Players
<1>2. \A r \in Rooms : \A v \in Players(r) : hub'[v] = r /\ pc'[v] = "done"
  BY <1>1 DEF Seats
<1>3. \A v \in Conns : thread'[v] # "none" => pc'[v] = "done" /\ hub'[v] # None
  BY <1>1 DEF Seats
<1>4. \A v \in gone' : pc'[v] = "done" /\ thread'[v] \in {"none", "left", "done"}
  BY <1>1 DEF Seats
<1>5. ThreadsOwned'
  BY <1>1 DEF Seats, ThreadsOwned, Returned, Players
<1> QED
  BY <1>1, <1>2, <1>3, <1>4, <1>5 DEF Seats

\* A step that changes only threads: none is born, and only a lobby thread that left the room
\* marks its player disconnected.
LEMMA SeatsThreads ==
    ASSUME TypeOK, Seats, UNCHANGED <<slots, pc, hub>>,
           \A v \in Conns : thread[v] \in {"none", "done"} => thread'[v] = thread[v],
           \A v \in Conns : thread[v] = "none" <=> thread'[v] = "none",
           \A v \in gone' : v \in gone \/ (v \in Conns /\ thread[v] = "leaving" /\ thread'[v] = "left"),
           \A v \in gone : thread'[v] \in {"none", "left", "done"}
    PROVE  Seats'
<1>1. \A r \in Rooms : Players(r)' = Players(r)
  BY DEF Players
<1>2. ThreadsOwned'
  BY DEF Seats, ThreadsOwned, Returned, Players
<1>3. \A v \in Conns : thread'[v] # "none" => pc'[v] = "done" /\ hub'[v] # None
  BY DEF Seats
<1>4. \A v \in gone' : pc'[v] = "done" /\ thread'[v] \in {"none", "left", "done"}
  BY DEF Seats
<1> QED
  BY <1>1, <1>2, <1>3, <1>4 DEF Seats

\* The players' threads.
LEMMA SeatsPlayer ==
    ASSUME TypeOK, Seats, NEW w \in Conns, Player(w) \/ HangUp(w)
    PROVE  Seats'
<1>1. /\ thread \in [Conns -> {"none", "lobby", "leaving", "left", "reader", "done"}]
      /\ gone \subseteq Conns
  BY DEF TypeOK, PlayerTypes
<1>2. CASE LobbyWake(w) \/ LobbyPeek(w) \/ LobbyReturn(w) \/ ReaderReturn(w)
  <2>1. UNCHANGED <<slots, pc, hub, gone>>
    BY <1>2 DEF LobbyWake, LobbyPeek, LobbyReturn, ReaderReturn, room, workers
  <2>2. /\ \A v \in Conns : thread[v] \in {"none", "done"} => thread'[v] = thread[v]
        /\ \A v \in Conns : thread[v] = "none" <=> thread'[v] = "none"
        /\ \A v \in gone : thread'[v] \in {"none", "left", "done"}
    BY <1>1, <1>2 DEF LobbyWake, LobbyPeek, LobbyReturn, ReaderReturn, Seats
  <2> QED
    BY <2>1, <2>2, SeatsThreads
<1>3. CASE LobbyLeave(w)
  <2>1. UNCHANGED <<slots, pc, hub>> /\ gone' = gone \cup {w} /\ thread[w] = "leaving"
        /\ thread' = [thread EXCEPT ![w] = "left"]
    BY <1>3 DEF LobbyLeave, room, workers
  <2>2. /\ \A v \in Conns : thread[v] \in {"none", "done"} => thread'[v] = thread[v]
        /\ \A v \in Conns : thread[v] = "none" <=> thread'[v] = "none"
        /\ \A v \in gone : thread'[v] \in {"none", "left", "done"}
    BY <1>1, <2>1 DEF Seats
  <2>3. \A v \in gone' : v \in gone \/ (v \in Conns /\ thread[v] = "leaving" /\ thread'[v] = "left")
    BY <1>1, <2>1
  <2> QED
    BY <2>1, <2>2, <2>3, SeatsThreads
<1>4. CASE HangUp(w)
  <2>1. UNCHANGED <<slots, pc, hub, thread, gone>>
    BY <1>4 DEF HangUp, room, workers
  <2>2. \A v \in gone : thread'[v] \in {"none", "left", "done"}
    BY <2>1 DEF Seats
  <2> QED
    BY <2>1, <2>2, SeatsThreads
<1> QED
  BY <1>2, <1>3, <1>4 DEF Player

\* A player takes a slot: the one who had it before is disconnected and has no thread left.
LEMMA SeatsRegister ==
    ASSUME TypeOK, Seats, NEW w \in Conns, NEW r \in Rooms, JoinRegister(w, r)
    PROVE  Seats'
<1>1. /\ pc \in [Conns -> {"idle", "read", "asked", "lookup", "tour", "enter", "sweep", "register", "done"}]
      /\ hub \in [Conns -> Rooms \cup {None}] /\ gone \subseteq Conns
      /\ thread \in [Conns -> {"none", "lobby", "leaving", "left", "reader", "done"}]
      /\ None \notin Rooms
  BY CoordinatorAssumption DEF TypeOK, WorkerTypes, PlayerTypes, CoordinatorAssumption
<1>2. /\ pc[w] = "register" /\ hub[w] = r /\ UNCHANGED hub /\ pc' = [pc EXCEPT ![w] = "done"]
      /\ \/ thread' = [thread EXCEPT ![w] = "lobby"] /\ UNCHANGED gone
         \/ gone' = gone \cup {w} /\ UNCHANGED thread
  BY DEF JoinRegister, Goto
<1>3. PICK k \in 1 .. Len(slots'[r]) :
         /\ slots'[r][k] = w
         /\ \A j \in 1 .. Len(slots'[r]) : j # k => j <= Len(slots[r]) /\ slots'[r][j] = slots[r][j]
         /\ \A j \in 1 .. Len(slots[r]) : j # k => j <= Len(slots'[r])
         /\ k <= Len(slots[r]) => slots[r][k] \in gone /\ Returned(slots[r][k])
  BY RegisterEffect
<1>4. /\ slots' = [slots EXCEPT ![r] = slots'[r]]
      /\ Len(slots'[r]) \in Nat /\ Len(slots[r]) \in Nat
      /\ slots \in [Rooms -> Seq(Conns)]
      /\ slots[r] \in [1 .. Len(slots[r]) -> Conns]
  <2>1. slots'[r] \in Seq(Conns)
    BY RegisterEffect
  <2> QED
    BY <2>1, RegisterEffect, FreeSlotPlace, LenProperties DEF TypeOK, RoomTypes
<1>5. \A q \in Rooms : q # r => slots'[q] = slots[q] /\ Players(q)' = Players(q)
  BY <1>4 DEF Players
<1>6. w \notin Players(r) /\ thread[w] = "none" /\ w \notin gone
  BY <1>1, <1>2 DEF Seats
<1>7. \A s \in 1 .. Len(slots[r]) : slots[r][s] # w
  BY <1>6 DEF Players
<1>8. \A s, t \in 1 .. Len(slots'[r]) : slots'[r][s] = slots'[r][t] => s = t
  BY <1>3, <1>4, <1>7 DEF Seats
<1>9. \A v \in Players(r)' : v = w \/ v \in Players(r)
  BY <1>3, <1>4 DEF Players
<1>10. \A v \in Players(r) : v \in Players(r)' \/ Returned(v)
  BY <1>3, <1>4 DEF Players
<1>11. w \in Players(r)'
  BY <1>3 DEF Players
<1>12. \A q \in Rooms : \A v \in Players(q)' : hub'[v] = q /\ pc'[v] = "done"
  <2>1. \A q \in Rooms : Players(q) \subseteq Conns
    BY FreeSlotPlace DEF Players
  <2> QED
    BY <1>1, <1>2, <1>5, <1>9, <2>1 DEF Seats
<1>13. \A v \in Conns : thread'[v] # "none" => pc'[v] = "done" /\ hub'[v] # None
  BY <1>1, <1>2 DEF Seats
<1>14. \A v \in gone' : pc'[v] = "done" /\ thread'[v] \in {"none", "left", "done"}
  BY <1>1, <1>2, <1>6 DEF Seats
<1>15. ThreadsOwned'
  <2> SUFFICES ASSUME NEW v \in Conns, ~Returned(v)' PROVE v \in Players(hub[v])'
    BY <1>2 DEF ThreadsOwned
  <2>1. CASE v = w
    BY <1>2, <1>11, <2>1
  <2>2. CASE v # w
    <3>1. ~Returned(v) /\ v \in Players(hub[v]) /\ hub[v] \in Rooms
      BY <1>1, <1>2, <2>2 DEF Returned, Seats, ThreadsOwned
    <3>2. CASE hub[v] = r
      BY <1>2, <1>10, <3>1, <3>2 DEF Players
    <3>3. CASE hub[v] # r
      BY <1>2, <1>5, <3>1, <3>3 DEF Players
    <3> QED
      BY <3>2, <3>3
  <2> QED
    BY <2>1, <2>2
<1> QED
  BY <1>5, <1>8, <1>12, <1>13, <1>14, <1>15 DEF Seats

\* Every other step of a worker.
LEMMA SeatsWorker ==
    ASSUME TypeOK, Seats, NEW w \in Conns, Worker(w)
    PROVE  Seats'
<1>1. /\ pc \in [Conns -> {"idle", "read", "asked", "lookup", "tour", "enter", "sweep", "register", "done"}]
      /\ hub \in [Conns -> Rooms \cup {None}]
  BY DEF TypeOK, WorkerTypes
<1>2. ASSUME NEW r \in Rooms, JoinRegister(w, r) PROVE Seats'
  BY <1>2, SeatsRegister
<1>3. CASE \/ WorkerGivesUp(w) \/ (\E what \in Commands, c \in Codes : WorkerReads(w, what, c))
           \/ WorkerLocks(w)
           \/ (\E r \in Rooms : InfoRoom(w, r)) \/ InfoReply(w) \/ JoinEnter(w) \/ Swept(w)
           \/ JoinRefused(w)
  <2>1. UNCHANGED <<slots, thread, gone>>
    BY <1>3 DEF WorkerGivesUp, WorkerReads, WorkerLocks, InfoRoom, InfoReply, JoinEnter, Swept,
          JoinRefused, room,
          players
  <2>2. pc[w] # "done" /\ \A v \in Conns \ {w} : pc'[v] = pc[v] /\ hub'[v] = hub[v]
    BY <1>1, <1>3 DEF WorkerGivesUp, WorkerReads, WorkerLocks, InfoRoom, InfoReply, JoinEnter,
          Swept, JoinRefused,
          Goto, workers
  <2> QED
    BY <2>1, <2>2, SeatsOthers
<1>4. CASE \/ Summary(w) \/ CreateRefused(w) \/ (\E r \in Rooms : CreateRoom(w, r)) \/ CreateFails(w)
           \/ JoinFails(w) \/ (\E r \in Rooms : JoinFound(w, r) \/ JoinCreates(w, r))
  <2>1. UNCHANGED <<slots, thread, gone>>
    BY <1>4 DEF Summary, CreateRefused, CreateRoom, CreateFails, JoinFails, JoinFound, JoinCreates, room,
          players
  <2>2. pc[w] # "done" /\ \A v \in Conns \ {w} : pc'[v] = pc[v] /\ hub'[v] = hub[v]
    BY <1>1, <1>4 DEF Summary, CreateRefused, CreateRoom, CreateFails, JoinFails, JoinFound, JoinCreates,
          Lookup, Goto
  <2> QED
    BY <2>1, <2>2, SeatsOthers
<1> QED
  BY <1>2, <1>3, <1>4 DEF Worker, WorkerAnswers

\* A room is freed when the threads of all its players have returned.
LEMMA SeatsDestroy ==
    ASSUME TypeOK, Seats, Teardown, NEW r \in Rooms, Destroy(r)
    PROVE  Seats'
<1>1. ASSUME NEW a \in Agents, DestroyFree(a, r) PROVE Seats'
  <2>1. /\ slots' = [slots EXCEPT ![r] = <<>>] /\ UNCHANGED <<pc, hub, thread, gone>>
        /\ \A w \in Players(r) : Returned(w)
    BY <1>1 DEF DestroyFree, Teardown, ThreadsReturned, workers
  <2>2. slots \in [Rooms -> Seq(Conns)] /\ hub \in [Conns -> Rooms \cup {None}]
    BY DEF TypeOK, RoomTypes, WorkerTypes
  <2>3. slots'[r] = <<>> /\ Len(slots'[r]) = 0 /\ \A q \in Rooms : q # r => slots'[q] = slots[q]
    BY <2>1, <2>2, EmptySeq
  <2>4. Players(r)' = {} /\ \A q \in Rooms : q # r => Players(q)' = Players(q)
    BY <2>3 DEF Players
  <2>5. ThreadsOwned'
    <3> SUFFICES ASSUME NEW v \in Conns, ~Returned(v)' PROVE v \in Players(hub[v])'
      BY <2>1 DEF ThreadsOwned
    <3>1. ~Returned(v) /\ v \in Players(hub[v]) /\ hub[v] # r /\ hub[v] \in Rooms
      BY <2>1, <2>2 DEF Seats, ThreadsOwned, Returned
    <3> QED
      BY <2>1, <2>3, <3>1 DEF Players
  <2> QED
    BY <2>1, <2>3, <2>4, <2>5 DEF Seats
<1>2. CASE \/ \E a \in Agents : DestroyBegin(a, r)
           \/ DestroyRelease(r) \/ DestroyWake(r) \/ DestroyJoinRunner(r) \/ DestroyJoinThreads(r)
  <2>1. UNCHANGED <<slots, pc, hub, thread, gone>>
    BY <1>2 DEF DestroyBegin, DestroyRelease, DestroyWake, DestroyJoinRunner, DestroyJoinThreads, room,
          workers, players
  <2>2. \A v \in gone : thread'[v] \in {"none", "left", "done"}
    BY <2>1 DEF Seats
  <2> QED
    BY <2>1, <2>2, SeatsThreads
<1> QED
  BY <1>1, <1>2 DEF Destroy

\* Every step.
LEMMA SeatsStep == TypeOK /\ Seats /\ Teardown /\ [Next]_vars => Seats'
<1> SUFFICES ASSUME TypeOK, Seats, Teardown, [Next]_vars PROVE Seats'
  OBVIOUS
<1>1. UNCHANGED <<slots, pc, hub, thread, gone>> => Seats'
  BY SeatsThreads DEF Seats
<1>2. ASSUME NEW r \in Rooms, Runner(r) PROVE Seats'
  BY <1>1, <1>2 DEF Runner, RunnerCheck, RunnerStart, RunnerUnblock, RunnerJoin, RunnerFinish, room,
        workers, players
<1>3. CASE MainThread \/ Signal
  <2>1. ASSUME NEW w \in Conns, Accept(w) PROVE Seats'
    <3>1. /\ UNCHANGED <<slots, thread, gone, hub>> /\ pc[w] = "idle"
          /\ \A v \in Conns \ {w} : pc'[v] = pc[v]
      BY <2>1 DEF Accept, Goto, room, TypeOK, WorkerTypes
    <3> QED
      BY <3>1, SeatsOthers
  <2> QED
    BY <1>1, <1>3, <2>1 DEF MainThread, MainLoop, PruneLook, PruneTake, PruneEnd, MainSwept,
          AcceptNobody, MainDrain,
          MainTake, MainEnd, Signal, room, workers, players
<1>4. CASE UNCHANGED vars
  BY <1>1, <1>4 DEF vars, room, workers, players
<1> QED
  BY <1>2, <1>3, <1>4, SeatsPlayer, SeatsWorker, SeatsDestroy DEF Next, Exited

\* A room in the hands of the thread that destroys it is entered by nobody.
LEMMA NobodyEnters ==
    ASSUME Locks, NEW r \in Rooms, RoomMutexFree(r), r \notin listed
    PROVE  \A w \in Conns : hub[w] = r => pc[w] = "done"
<1> SUFFICES ASSUME NEW w \in Conns, hub[w] = r PROVE pc[w] = "done"
  OBVIOUS
<1>1. pc[w] \in {"enter", "sweep", "register", "done"}
  BY CoordinatorAssumption DEF Locks, CoordinatorAssumption
<1>2. pc[w] # "enter"
  BY DEF Locks
<1>3. pc[w] \notin {"sweep", "register"}
  BY CoordinatorAssumption DEF Locks, RoomMutexFree, CoordinatorAssumption
<1> QED
  BY <1>1, <1>2, <1>3

\* A step that frees no room, gives no mutex of a room under destruction, starts no thread and
\* leads nobody into a free room keeps what the destructions have established.
LEMMA TeardownFrame ==
    ASSUME TypeOK, Teardown, UNCHANGED <<slots, dying>>,
           \A r \in Rooms : state'[r] = "free" => state[r] = "free",
           \A r \in Rooms : runner[r] = "done" => runner'[r] = "done",
           \A r \in Rooms : mutex[r] = None /\ (dying[r] # "no" \/ state[r] = "free") => mutex'[r] = None,
           \A v \in Conns : Returned(v) => thread'[v] = thread[v],
           \A v \in Conns : pc[v] = "done" => pc'[v] = "done",
           \A v \in Conns : hub'[v] \in {hub[v], None} \/ state'[hub'[v]] # "free"
    PROVE  Teardown'
<1>1. \A r \in Rooms : Players(r)' = Players(r) /\ Players(r) \subseteq Conns
  BY FreeSlotPlace DEF Players
<1>2. ASSUME NEW r \in Rooms, ThreadsReturned(r) PROVE ThreadsReturned(r)'
  BY <1>1, <1>2 DEF ThreadsReturned, Returned
<1>3. ASSUME NEW r \in Rooms, state'[r] = "free", NEW v \in Conns, hub'[v] = r
      PROVE  pc'[v] = "done" /\ Returned(v)'
  <2>1. hub[v] = r
    BY <1>3, CoordinatorAssumption DEF CoordinatorAssumption
  <2> QED
    BY <1>3, <2>1 DEF Teardown, Returned
<1>4. \A r \in Rooms : dying[r] \in {"runner", "threads", "close"} \/ state'[r] = "free" => mutex'[r] = None
  BY DEF Teardown, RoomMutexFree
<1> QED
  BY <1>2, <1>3, <1>4 DEF Teardown, RoomMutexFree

\* A worker enters a room only while it is on the list, and registers its player only while it
\* holds the room's mutex.
LEMMA TeardownWorker ==
    ASSUME TypeOK, Locks, Stages, Ownership, Seats, Teardown, NEW w \in Conns, Worker(w)
    PROVE  Teardown'
<1>1. /\ pc \in [Conns -> {"idle", "read", "asked", "lookup", "tour", "enter", "sweep", "register", "done"}]
      /\ hub \in [Conns -> Rooms \cup {None}] /\ mutex \in [Rooms -> Conns \cup {None}]
      /\ state \in [Rooms -> {"free", "waiting", "racing", "finished"}] /\ listed \subseteq Rooms
      /\ runner \in [Rooms -> {"none", "check", "asleep", "start", "race", "join", "finish", "done"}]
      /\ None \notin Rooms /\ None \notin Conns
  BY CoordinatorAssumption DEF TypeOK, WorkerTypes, RoomTypes, ListTypes, CoordinatorAssumption
<1>2. CASE \/ WorkerGivesUp(w) \/ (\E what \in Commands, c \in Codes : WorkerReads(w, what, c))
           \/ WorkerLocks(w)
           \/ (\E r \in Rooms : InfoRoom(w, r)) \/ InfoReply(w) \/ Summary(w) \/ CreateRefused(w)
           \/ CreateFails(w) \/ JoinFails(w) \/ Swept(w)
  <2>1. UNCHANGED <<slots, dying, state, runner, mutex, thread, hub>>
    BY <1>2 DEF WorkerGivesUp, WorkerReads, WorkerLocks, InfoRoom, InfoReply, Summary,
          CreateRefused, CreateFails,
          JoinFails, Swept, room, workers, players
  <2>2. \A v \in Conns : pc[v] = "done" => pc'[v] = "done"
    BY <1>1, <1>2 DEF WorkerGivesUp, WorkerReads, WorkerLocks, InfoRoom, InfoReply, Summary, CreateRefused,
          CreateFails, JoinFails, Swept, Goto, Lookup, workers
  <2> QED
    BY <1>1, <2>1, <2>2, TeardownFrame
<1>3. ASSUME NEW r \in Rooms, CreateRoom(w, r) \/ JoinCreates(w, r) PROVE Teardown'
  <2>1. /\ UNCHANGED <<slots, dying, mutex, thread>> /\ state' = [state EXCEPT ![r] = "waiting"]
        /\ runner' = [runner EXCEPT ![r] = "check"] /\ state[r] = "free"
        /\ hub' = hub \/ hub' = [hub EXCEPT ![w] = r]
    BY <1>3 DEF CreateRoom, JoinCreates, NewRoom, players
  <2>2. \A v \in Conns : pc[v] = "done" => pc'[v] = "done"
    BY <1>1, <1>3 DEF CreateRoom, JoinCreates, Goto, Lookup
  <2>3. /\ \A q \in Rooms : state'[q] = "free" => state[q] = "free"
        /\ \A q \in Rooms : runner[q] = "done" => runner'[q] = "done"
        /\ \A v \in Conns : hub'[v] \in {hub[v], None} \/ state'[hub'[v]] # "free"
    BY <1>1, <2>1 DEF Stages
  <2> QED
    BY <2>1, <2>2, <2>3, TeardownFrame
<1>4. ASSUME NEW r \in Rooms, JoinFound(w, r) PROVE Teardown'
  <2>1. /\ UNCHANGED <<slots, dying, state, runner, mutex, thread>>
        /\ hub' = [hub EXCEPT ![w] = r] /\ r \in listed /\ state[r] # "free"
        /\ \A v \in Conns : pc[v] = "done" => pc'[v] = "done"
    BY <1>1, <1>4 DEF JoinFound, FoundLive, Found, Goto, Lookup, room, players, Ownership
  <2>2. \A v \in Conns : hub'[v] \in {hub[v], None} \/ state'[hub'[v]] # "free"
    BY <1>1, <2>1
  <2> QED
    BY <2>1, <2>2, TeardownFrame
<1>5. CASE JoinEnter(w)
  <2>1. /\ UNCHANGED <<slots, dying, state, runner, thread, hub>>
        /\ hub[w] \in listed /\ mutex' = [mutex EXCEPT ![hub[w]] = w]
        /\ \A v \in Conns : pc[v] = "done" => pc'[v] = "done"
    BY <1>1, <1>5 DEF JoinEnter, Goto, Locks, room, players
  <2>2. state[hub[w]] # "free" /\ dying[hub[w]] = "no"
    BY <1>1, <2>1 DEF Ownership
  <2>3. \A q \in Rooms : mutex[q] = None /\ (dying[q] # "no" \/ state[q] = "free") => mutex'[q] = None
    BY <1>1, <2>1, <2>2
  <2> QED
    BY <2>1, <2>3, TeardownFrame
<1>6. CASE JoinRefused(w)
  <2>1. /\ UNCHANGED <<slots, dying, state, runner, thread>>
        /\ mutex' = [mutex EXCEPT ![hub[w]] = None] /\ hub' = [hub EXCEPT ![w] = None]
        /\ \A v \in Conns : pc[v] = "done" => pc'[v] = "done"
    BY <1>1, <1>6 DEF JoinRefused, ReleaseMutex, Goto, room
  <2>2. /\ \A q \in Rooms : mutex[q] = None => mutex'[q] = None
        /\ \A v \in Conns : hub'[v] \in {hub[v], None}
    BY <1>1, <2>1
  <2> QED
    BY <2>1, <2>2, TeardownFrame
<1>7. ASSUME NEW r \in Rooms, JoinRegister(w, r) PROVE Teardown'
  <2>1. /\ UNCHANGED <<dying, state, hub>> /\ mutex' = [mutex EXCEPT ![r] = None]
        /\ pc[w] = "register" /\ hub[w] = r /\ pc' = [pc EXCEPT ![w] = "done"]
        /\ thread' = [thread EXCEPT ![w] = "lobby"] \/ UNCHANGED thread
    BY <1>7 DEF JoinRegister, ReleaseMutex, Goto
  <2>2. mutex[r] = w
    BY <1>1, <2>1 DEF Locks
  <2>3. dying[r] \notin {"runner", "threads", "close"} /\ state[r] # "free"
    BY <1>1, <2>2 DEF Teardown, RoomMutexFree
  <2>4. \A q \in Rooms : runner[q] = "done" => runner'[q] = "done"
    BY <1>1, <1>7 DEF JoinRegister, Woken
  <2>5. ASSUME NEW q \in Rooms, q # r
        PROVE  slots'[q] = slots[q] /\ (ThreadsReturned(q) => ThreadsReturned(q)')
    <3>1. slots'[q] = slots[q]
      <4>1. slots' = [slots EXCEPT ![r] = slots'[r]]
        BY <1>7, RegisterEffect
      <4> QED
        BY <2>5, <4>1 DEF TypeOK, RoomTypes
    <3>2. \A v \in Players(q) : v # w /\ v \in Conns
      <4>1. Players(q) \subseteq Conns
        BY FreeSlotPlace DEF Players
      <4> QED
        BY <2>1, <2>5, <4>1 DEF Seats
    <3>3. \A v \in Players(q) : thread'[v] = thread[v]
      BY <2>1, <3>2 DEF TypeOK, PlayerTypes
    <3> QED
      BY <3>1, <3>3 DEF ThreadsReturned, Returned, Players
  <2>6. ASSUME NEW q \in Rooms, state[q] = "free", NEW v \in Conns, hub[v] = q
        PROVE  pc'[v] = "done" /\ Returned(v)'
    <3>1. v # w /\ pc[v] = "done" /\ Returned(v)
      BY <2>1, <2>3, <2>6 DEF Teardown
    <3> QED
      BY <1>1, <2>1, <3>1 DEF Returned, TypeOK, PlayerTypes
  <2> QED
    BY <1>1, <2>1, <2>3, <2>4, <2>5, <2>6 DEF Teardown, RoomMutexFree
<1> QED
  BY <1>2, <1>3, <1>4, <1>5, <1>6, <1>7 DEF Worker, WorkerAnswers

\* The destruction itself: it goes on when a mutex, the runner or a thread is out of the way,
\* and none of them comes back.
LEMMA TeardownDestroy ==
    ASSUME TypeOK, Locks, Stages, Ownership, Seats, Teardown, NEW r \in Rooms, Destroy(r)
    PROVE  Teardown'
<1>1. /\ dying \in [Rooms -> {"no", "release", "wake", "runner", "threads", "close"}]
      /\ state \in [Rooms -> {"free", "waiting", "racing", "finished"}]
      /\ runner \in [Rooms -> {"none", "check", "asleep", "start", "race", "join", "finish", "done"}]
      /\ slots \in [Rooms -> Seq(Conns)]
  BY DEF TypeOK, RoomTypes
<1>2. CASE \/ \E a \in Agents : DestroyBegin(a, r)
           \/ DestroyRelease(r) \/ DestroyWake(r) \/ DestroyJoinRunner(r) \/ DestroyJoinThreads(r)
  <2>1. UNCHANGED <<state, slots, mutex, pc, hub, thread>>
    BY <1>2 DEF DestroyBegin, DestroyRelease, DestroyWake, DestroyJoinRunner, DestroyJoinThreads, room,
          workers, players
  <2>2. \A q \in Rooms : runner[q] = "done" => runner'[q] = "done"
    BY <1>1, <1>2 DEF DestroyBegin, DestroyRelease, DestroyWake, DestroyJoinRunner, DestroyJoinThreads,
          Woken
  <2>3. \A q \in Rooms : dying'[q] \in {"runner", "threads", "close"} => RoomMutexFree(q)
    BY <1>1, <1>2 DEF DestroyBegin, DestroyRelease, DestroyWake, DestroyJoinRunner, DestroyJoinThreads,
          Teardown
  <2>4. \A q \in Rooms : dying'[q] \in {"threads", "close"} => runner[q] = "done"
    BY <1>1, <1>2 DEF DestroyBegin, DestroyRelease, DestroyWake, DestroyJoinRunner, DestroyJoinThreads,
          Teardown
  <2>5. \A q \in Rooms : dying'[q] = "close" => ThreadsReturned(q)
    BY <1>1, <1>2 DEF DestroyBegin, DestroyRelease, DestroyWake, DestroyJoinRunner, DestroyJoinThreads,
          Teardown
  <2>6. \A q \in Rooms : ThreadsReturned(q)' <=> ThreadsReturned(q)
    BY <2>1 DEF ThreadsReturned, Players, Returned
  <2> QED
    BY <2>1, <2>2, <2>3, <2>4, <2>5, <2>6 DEF Teardown, RoomMutexFree, Returned
<1>3. ASSUME NEW a \in Agents, DestroyFree(a, r) PROVE Teardown'
  <2>1. /\ UNCHANGED <<mutex, pc, hub, thread>> /\ r \in doom[a] /\ dying[r] = "close"
        /\ dying' = [dying EXCEPT ![r] = "no"] /\ state' = [state EXCEPT ![r] = "free"]
        /\ slots' = [slots EXCEPT ![r] = <<>>] /\ runner' = [runner EXCEPT ![r] = "none"]
    BY <1>3 DEF DestroyFree, workers
  <2>2. RoomMutexFree(r) /\ ThreadsReturned(r) /\ r \notin listed
    BY <2>1 DEF Teardown, Ownership, Doomed
  <2>3. \A v \in Conns : hub[v] = r => pc[v] = "done"
    BY <2>2, NobodyEnters
  <2>4. \A v \in Conns : hub[v] = r => Returned(v)
    BY <2>2 DEF Seats, ThreadsOwned, ThreadsReturned
  <2>5. \A q \in Rooms : q # r => slots'[q] = slots[q] /\ (ThreadsReturned(q)' <=> ThreadsReturned(q))
    BY <1>1, <2>1 DEF ThreadsReturned, Players, Returned
  <2> QED
    BY <1>1, <2>1, <2>2, <2>3, <2>4, <2>5 DEF Teardown, RoomMutexFree, Returned
<1> QED
  BY <1>2, <1>3 DEF Destroy

\* Every step.
LEMMA TeardownStep ==
    TypeOK /\ Locks /\ Stages /\ Ownership /\ Seats /\ Teardown /\ [Next]_vars => Teardown'
<1> SUFFICES ASSUME TypeOK, Locks, Stages, Ownership, Seats, Teardown, [Next]_vars PROVE Teardown'
  OBVIOUS
<1>1. ASSUME NEW r \in Rooms, Runner(r) PROVE Teardown'
  <2>1. UNCHANGED <<slots, dying, mutex, thread, pc, hub>>
    BY <1>1 DEF Runner, RunnerCheck, RunnerStart, RunnerUnblock, RunnerJoin, RunnerFinish, room, workers,
          players
  <2>2. /\ \A q \in Rooms : state'[q] = "free" => state[q] = "free"
        /\ \A q \in Rooms : runner[q] = "done" => runner'[q] = "done"
    BY <1>1 DEF Runner, RunnerCheck, RunnerStart, RunnerUnblock, RunnerJoin, RunnerFinish, room, TypeOK,
          RoomTypes
  <2> QED
    BY <2>1, <2>2, TeardownFrame
<1>2. ASSUME NEW w \in Conns, Player(w) \/ HangUp(w) PROVE Teardown'
  <2>1. UNCHANGED <<slots, dying, mutex, pc, hub, state, runner>>
    BY <1>2 DEF Player, LobbyWake, LobbyPeek, LobbyLeave, LobbyReturn, ReaderReturn, HangUp, room, workers
  <2>2. \A v \in Conns : Returned(v) => thread'[v] = thread[v]
    BY <1>2 DEF Player, LobbyWake, LobbyPeek, LobbyLeave, LobbyReturn, ReaderReturn, HangUp, Returned,
          TypeOK, PlayerTypes
  <2> QED
    BY <2>1, <2>2, TeardownFrame
<1>3. CASE MainThread \/ Signal
  <2>1. UNCHANGED <<slots, dying, mutex, thread, hub, state, runner>>
    BY <1>3 DEF MainThread, MainLoop, PruneLook, PruneTake, PruneEnd, MainSwept, Accept,
          AcceptNobody, MainDrain,
          MainTake, MainEnd, Signal, room, workers, players
  <2>2. \A v \in Conns : pc[v] = "done" => pc'[v] = "done"
    BY <1>3 DEF MainThread, MainLoop, PruneLook, PruneTake, PruneEnd, MainSwept, Accept,
          AcceptNobody, MainDrain,
          MainTake, MainEnd, Signal, Goto, workers, TypeOK, WorkerTypes
  <2> QED
    BY <2>1, <2>2, TeardownFrame
<1>4. CASE UNCHANGED vars
  BY <1>4, TeardownFrame DEF vars, room, workers, players
<1> QED
  BY <1>1, <1>2, <1>3, <1>4, TeardownWorker, TeardownDestroy DEF Next, Exited

-----------------------------------------------------------------------------
(* The theorems. *)

\* The inductive invariant holds at the start.
LEMMA IInvInit == Init => IInv
  BY TypeInit, LocksInit, PickingInit, StagesInit, OwnershipInit, SeatsInit DEF IInv

\* Every step keeps it.
LEMMA IInvStep == IInv /\ [Next]_vars => IInv'
  BY TypeStep, LocksStep, PickingStep, StagesStep, OwnershipStep, SeatsStep, TeardownStep DEF IInv

\* Who holds which mutex, how far each room, its runner and its destruction are, who owns it and
\* who sits in it agree in every reachable state of the coordinator, its workers and its rooms.
THEOREM Invariance == Spec => []IInv
  BY IInvInit, IInvStep, PTL DEF Spec

\* gRoomHead never holds more than MAX_COORDINATOR_ROOMS rooms, two of one code, or one that is
\* being destroyed: coordinator_create_room and the removals are atomic with their checks.
THEOREM ListIsSound == Spec => []ListSound
<1>1. IInv => ListSound
  BY DEF IInv, Ownership, ListSound, TypeOK, ListTypes
<1> QED
  BY <1>1, Invariance, PTL

\* A room that coordinator_destroy_room has freed is used by no runner, thread or worker.
THEOREM FreedUnused == Spec => []FreedRoomsUnused
<1>1. IInv => FreedRoomsUnused
  BY DEF IInv, Stages, Teardown, FreedRoomsUnused
<1> QED
  BY <1>1, Invariance, PTL

\* A slot is recycled only when the thread of the player who had it has returned, so whoever
\* destroys a room joins every thread that still runs in it.
THEOREM NoThreadDropped == Spec => []ThreadsOwned
<1>1. IInv => ThreadsOwned
  BY DEF IInv, Seats
<1> QED
  BY <1>1, Invariance, PTL

\* Pruning, CREATE and JOIN of a finished room's code, and the shutdown never take the same
\* room, nor lose one: each allocated room has exactly one owner.
THEOREM ExactlyOneOwner == Spec => []OneOwner
<1>1. ASSUME IInv, NEW r \in Rooms
      PROVE  Cardinality({a \in Agents : r \in doom[a]}) + (IF r \in listed THEN 1 ELSE 0)
                = IF state[r] = "free" THEN 0 ELSE 1
  <2> DEFINE H == {a \in Agents : r \in doom[a]}
  <2>1. /\ state[r] # "free" <=> r \in listed \/ Doomed(r)
        /\ r \in listed => ~Doomed(r)
        /\ \A a, b \in H : a = b
    BY <1>1 DEF IInv, Ownership
  <2>2. Doomed(r) <=> H # {}
    BY DEF Doomed
  <2>3. CASE Doomed(r)
    <3>1. PICK a \in H : H = {a}
      BY <2>1, <2>2, <2>3
    <3>2. Cardinality(H) = 1
      <4> HIDE DEF H
      <4> QED
        BY <3>1, FS_Singleton
    <3> HIDE DEF H
    <3> QED
      BY <2>1, <2>3, <3>2 DEF H
  <2>4. CASE ~Doomed(r)
    <3>1. H = {}
      BY <2>2, <2>4
    <3>2. Cardinality(H) = 0
      BY <3>1, FS_EmptySet
    <3> HIDE DEF H
    <3> QED
      BY <2>1, <2>4, <3>2 DEF H
  <2> QED
    BY <2>3, <2>4
<1>2. IInv => OneOwner
  BY <1>1 DEF OneOwner
<1> QED
  BY <1>2, Invariance, PTL

-----------------------------------------------------------------------------
(* The coordinator implements Lobby. *)

\* What Lobby sees of a room.
LEMMA LobbyView ==
    ASSUME IInv, NEW r \in Rooms
    PROVE  /\ status[r] = "none" <=> r \notin listed
           /\ status[r] = "open" <=> r \in listed /\ state[r] = "waiting"
           /\ status[r] = "racing" <=> r \in listed /\ state[r] = "racing"
           /\ status[r] = "over" <=> r \in listed /\ state[r] = "finished"
           /\ members[r] = IF r \notin listed THEN {}
                           ELSE IF state[r] = "waiting" THEN ActivePlayers(r) ELSE Players(r)
<1>1. state[r] \in {"free", "waiting", "racing", "finished"} /\ (r \in listed => state[r] # "free")
  BY DEF IInv, TypeOK, RoomTypes, Ownership
<1> QED
  BY <1>1 DEF status, members

\* A step that changes no list, room state or vector of players is none of Lobby's business.
LEMMA LobbyStutter ==
    ASSUME UNCHANGED <<listed, code, state, slots, gone>>,
           main \in {"lastSweep", "end"} <=> main' \in {"lastSweep", "end"}
    PROVE  UNCHANGED Rules!lobbyVars
<1>1. UNCHANGED status
  BY DEF status
<1>2. UNCHANGED members
  BY DEF members, ActivePlayers, Players
<1> QED
  BY <1>1, <1>2 DEF Rules!lobbyVars

\* Lobby counts as this module does.
LEMMA SameCount == ASSUME NEW S PROVE Rules!Cardinality(S) = Cardinality(S)
  BY DEF Rules!Cardinality, Cardinality

\* The initial coordinator is Lobby's.
LEMMA LobbyInitially == Init => Rules!LobbyInit
  BY DEF Init, Rules!LobbyInit, status, members

\* The runner starts the race of a full room: every slot is then held by an active player.
LEMMA LobbyRunner ==
    ASSUME IInv, NEW r \in Rooms, Runner(r)
    PROVE  [Rules!LobbyNext]_(Rules!lobbyVars)
<1>1. /\ state \in [Rooms -> {"free", "waiting", "racing", "finished"}]
      /\ runner \in [Rooms -> {"none", "check", "asleep", "start", "race", "join", "finish", "done"}]
  BY DEF IInv, TypeOK, RoomTypes
<1>2. UNCHANGED <<listed, code, slots, gone, main>>
  BY DEF Runner, RunnerCheck, RunnerStart, RunnerUnblock, RunnerJoin, RunnerFinish, control, list, room,
        players
<1>3. CASE UNCHANGED state
  BY <1>2, <1>3, LobbyStutter
<1>4. CASE RunnerCheck(r) /\ state' = [state EXCEPT ![r] = "racing"] /\ Full(r)
  <2>1. state[r] = "waiting"
    BY <1>1, <1>4 DEF RunnerCheck, IInv, Stages
  <2>2. Players(r) = ActivePlayers(r) /\ Cardinality(ActivePlayers(r)) = Capacity
    <3>1. Active(r) = Len(slots[r]) /\ Active(r) = Capacity
      <4>1. Len(slots[r]) \in Nat /\ Len(slots[r]) <= Capacity /\ Capacity \in Nat
        BY FreeSlotPlace, CoordinatorAssumption DEF IInv, TypeOK, RoomTypes, CoordinatorAssumption
      <4>2. Active(r) \in Nat /\ Active(r) <= Len(slots[r]) /\ Active(r) >= Capacity
        BY <1>4, ActiveCount DEF IInv, Full
      <4> QED
        BY <4>1, <4>2
    <3>2. Vacated(r) = {}
      BY <3>1, ActiveCount DEF IInv
    <3>3. Players(r) = ActivePlayers(r)
      BY <3>2 DEF Vacated, ActivePlayers, Players
    <3> QED
      BY <3>1, <3>3, ActiveIsCardinality DEF IInv, Seats
  <2>3. CASE r \in listed
    <3>1. status' = [status EXCEPT ![r] = "racing"] /\ status[r] = "open"
      BY <1>1, <1>2, <1>4, <2>1, <2>3 DEF status
    <3>2. members' = members /\ members[r] = ActivePlayers(r)
      BY <1>1, <1>2, <1>4, <2>1, <2>2, <2>3 DEF members, ActivePlayers, Players
    <3>3. Rules!Cardinality(members[r]) = Capacity
      BY <2>2, <3>2, SameCount
    <3>4. Rules!Start(r)
      BY <1>2, <3>1, <3>2, <3>3 DEF Rules!Start
    <3> QED
      BY <3>4 DEF Rules!LobbyNext
  <2>4. CASE r \notin listed
    <3>1. status' = status /\ members' = members
      BY <1>1, <1>2, <1>4, <2>4 DEF status, members, ActivePlayers, Players
    <3> QED
      BY <1>2, <3>1 DEF Rules!lobbyVars
  <2> QED
    BY <2>3, <2>4
<1>5. CASE RunnerFinish(r)
  <2>1. state[r] = "racing" /\ state' = [state EXCEPT ![r] = "finished"]
    BY <1>1, <1>5 DEF RunnerFinish, IInv, Stages
  <2>2. members' = members
    BY <1>1, <1>2, <2>1 DEF members, ActivePlayers, Players
  <2>3. CASE r \in listed
    <3>1. status' = [status EXCEPT ![r] = "over"] /\ status[r] = "racing"
      BY <1>1, <1>2, <2>1, <2>3 DEF status
    <3>2. Rules!Finish(r)
      BY <1>2, <2>2, <3>1 DEF Rules!Finish
    <3> QED
      BY <3>2 DEF Rules!LobbyNext
  <2>4. CASE r \notin listed
    <3>1. status' = status
      BY <1>1, <1>2, <2>1, <2>4 DEF status
    <3> QED
      BY <1>2, <2>2, <3>1 DEF Rules!lobbyVars
  <2> QED
    BY <2>3, <2>4
<1> QED
  BY <1>3, <1>4, <1>5 DEF Runner, RunnerCheck, RunnerStart, RunnerUnblock, RunnerJoin, room

\* A player who leaves a room that still waits leaves Lobby's room; later its place in the room
\* is kept.
LEMMA LobbyPlayer ==
    ASSUME IInv, NEW w \in Conns, Player(w) \/ HangUp(w)
    PROVE  [Rules!LobbyNext]_(Rules!lobbyVars)
<1>1. UNCHANGED <<listed, code, state, slots, main>>
  BY DEF Player, LobbyWake, LobbyPeek, LobbyLeave, LobbyReturn, ReaderReturn, HangUp, control, list, room
<1>2. CASE UNCHANGED gone
  BY <1>1, <1>2, LobbyStutter
<1>3. CASE LobbyLeave(w)
  <2> DEFINE r == hub[w]
  <2>1. gone' = gone \cup {w} /\ thread[w] = "leaving"
    BY <1>3 DEF LobbyLeave
  <2>2. r \in Rooms /\ w \in Players(r) /\ w \notin gone
    BY <2>1 DEF IInv, TypeOK, WorkerTypes, Seats, ThreadsOwned, Returned
  <2>3. \A q \in Rooms : q # r => w \notin Players(q)
    BY <2>2 DEF IInv, Seats
  <2> HIDE DEF r
  <2>4. status' = status
    BY <1>1 DEF status
  <2>5. \A q \in Rooms : Players(q)' = Players(q)
    BY <1>1 DEF Players
  <2>6. \A q \in Rooms : ActivePlayers(q)' = ActivePlayers(q) \ {w}
    BY <2>1, <2>5 DEF ActivePlayers
  <2>7. CASE r \in listed /\ state[r] = "waiting"
    <3>1. status[r] = "open" /\ members[r] = ActivePlayers(r)
      BY <2>2, <2>7, LobbyView
    <3>2. w \in members[r]
      BY <2>2, <3>1 DEF ActivePlayers
    <3>3. members' = [members EXCEPT ![r] = @ \ {w}]
      <4>1. \A q \in Rooms : q # r => ActivePlayers(q)' = ActivePlayers(q)
        BY <2>3, <2>6 DEF ActivePlayers
      <4> QED
        BY <1>1, <2>2, <2>5, <2>6, <2>7, <4>1 DEF members
    <3>4. Rules!Leave(r, w)
      BY <1>1, <2>4, <3>1, <3>2, <3>3 DEF Rules!Leave
    <3> QED
      BY <2>2, <3>4 DEF Rules!LobbyNext
  <2>8. CASE ~(r \in listed /\ state[r] = "waiting")
    <3>1. \A q \in Rooms : q # r => ActivePlayers(q)' = ActivePlayers(q)
      BY <2>3, <2>6 DEF ActivePlayers
    <3>2. members' = members
      BY <1>1, <2>5, <2>8, <3>1 DEF members
    <3> QED
      BY <1>1, <2>4, <3>2 DEF Rules!lobbyVars
  <2> QED
    BY <2>7, <2>8
<1> QED
  BY <1>2, <1>3 DEF Player, LobbyWake, LobbyPeek, LobbyReturn, ReaderReturn, HangUp, players

\* A JOIN that ends well is Lobby's entry of a player who sits nowhere else; if the thread cannot
\* be started, or the room was taken from the list meanwhile, Lobby sees nothing.
LEMMA LobbyRegister ==
    ASSUME IInv, NEW w \in Conns, NEW r \in Rooms, JoinRegister(w, r)
    PROVE  [Rules!LobbyNext]_(Rules!lobbyVars)
<1>1. /\ UNCHANGED <<listed, code, state, main>>
      /\ state[r] = "waiting" /\ Active(r) < Capacity /\ pc[w] = "register"
  BY DEF JoinRegister, control, list, Admits
<1>2. status' = status
  BY <1>1 DEF status
<1>3. PICK k \in 1 .. Len(slots'[r]) :
         /\ slots'[r][k] = w
         /\ \A j \in 1 .. Len(slots'[r]) : j # k => j <= Len(slots[r]) /\ slots'[r][j] = slots[r][j]
         /\ \A j \in 1 .. Len(slots[r]) : j # k => j <= Len(slots'[r])
         /\ k <= Len(slots[r]) => slots[r][k] \in gone /\ Returned(slots[r][k])
  BY RegisterEffect DEF IInv
<1>4. /\ Len(slots'[r]) \in Nat /\ Len(slots[r]) \in Nat
      /\ \A q \in Rooms : q # r => slots'[q] = slots[q]
  <2>1. slots'[r] \in Seq(Conns) /\ slots' = [slots EXCEPT ![r] = slots'[r]]
    BY RegisterEffect DEF IInv
  <2> QED
    BY <2>1, FreeSlotPlace, LenProperties DEF IInv, TypeOK, RoomTypes
<1>5. \A q \in Rooms : w \notin Players(q)
  BY <1>1 DEF IInv, Seats
<1>6. w \notin gone
  BY <1>1 DEF IInv, Seats
<1>7. gone' = gone \/ gone' = gone \cup {w}
  BY DEF JoinRegister
<1>8. \A q \in Rooms : q # r => Players(q)' = Players(q)
  BY <1>4 DEF Players
<1>9. \A q \in Rooms : q # r => ActivePlayers(q)' = ActivePlayers(q)
  BY <1>5, <1>7, <1>8 DEF ActivePlayers
<1>10. \A v \in Players(r)' : v = w \/ v \in Players(r)
  BY <1>3, <1>4 DEF Players
<1>11. \A v \in Players(r) : v \in Players(r)' \/ v \in gone
  BY <1>3, <1>4 DEF Players
<1>12. w \in Players(r)'
  BY <1>3 DEF Players
<1>13. CASE gone' = gone
  <2>1. ActivePlayers(r)' = ActivePlayers(r) \cup {w}
    BY <1>6, <1>10, <1>11, <1>12, <1>13 DEF ActivePlayers
  <2>2. CASE r \in listed
    <3>1. status[r] = "open" /\ members[r] = ActivePlayers(r)
      BY <1>1, <2>2, LobbyView
    <3>2. members' = [members EXCEPT ![r] = @ \cup {w}]
      BY <1>1, <1>8, <1>9, <2>1, <2>2 DEF members
    <3>3. Rules!Cardinality(members[r]) < Capacity
      <4>1. Cardinality(ActivePlayers(r)) = Active(r)
        BY ActiveIsCardinality DEF IInv, Seats
      <4> QED
        BY <1>1, <3>1, <4>1, SameCount
    <3>4. \A q \in Rooms : w \notin members[q]
      <4> SUFFICES ASSUME NEW q \in Rooms PROVE w \notin members[q]
        OBVIOUS
      <4>1. w \notin Players(q) /\ w \notin ActivePlayers(q)
        BY <1>5 DEF ActivePlayers
      <4> QED
        BY <4>1, LobbyView
    <3>5. Rules!Enter(r, w)
      BY <1>1, <1>2, <3>1, <3>2, <3>3, <3>4 DEF Rules!Enter
    <3> QED
      BY <3>5 DEF Rules!LobbyNext
  <2>3. CASE r \notin listed
    <3>1. members' = members
      BY <1>1, <1>8, <1>9, <2>3 DEF members
    <3> QED
      BY <1>1, <1>2, <3>1 DEF Rules!lobbyVars
  <2> QED
    BY <2>2, <2>3
<1>14. CASE gone' = gone \cup {w}
  <2>1. ActivePlayers(r)' = ActivePlayers(r)
    BY <1>5, <1>10, <1>11, <1>14 DEF ActivePlayers
  <2>2. members' = members
    BY <1>1, <1>8, <1>9, <2>1 DEF members
  <2> QED
    BY <1>1, <1>2, <2>2 DEF Rules!lobbyVars
<1> QED
  BY <1>7, <1>13, <1>14

\* At most one room of a code is on the list, so at most one is taken from it.
LEMMA OneFinished ==
    ASSUME IInv, NEW w \in Conns, NEW old \in FoundFinished(w)
    PROVE  /\ FoundFinished(w) = {old} /\ old \in Rooms /\ old \in listed
           /\ state[old] = "finished" /\ code[old] = want[w]
<1>1. \A q \in FoundFinished(w) : q \in listed /\ state[q] = "finished" /\ code[q] = want[w]
  BY DEF FoundFinished, Found
<1>2. \A q \in FoundFinished(w) : q = old
  BY <1>1 DEF IInv, Ownership
<1> QED
  BY <1>1, <1>2 DEF IInv, TypeOK, ListTypes

\* A command that gets no room removes the finished one of its code, or nothing.
LEMMA LobbyNoRoom ==
    ASSUME IInv, NEW w \in Conns, NoRoom(w), UNCHANGED <<code, state, slots, gone, main>>
    PROVE  [Rules!LobbyNext]_(Rules!lobbyVars)
<1>1. listed' = listed \ FoundFinished(w)
  BY DEF NoRoom, Remaining
<1>2. CASE FoundFinished(w) = {}
  <2>1. listed' = listed
    BY <1>1, <1>2
  <2> QED
    BY <2>1, LobbyStutter
<1>3. ASSUME NEW old \in FoundFinished(w) PROVE [Rules!LobbyNext]_(Rules!lobbyVars)
  <2>1. /\ old \in Rooms /\ old \in listed /\ state[old] = "finished" /\ listed' = listed \ {old}
    BY <1>1, <1>3, OneFinished
  <2>2. status' = [status EXCEPT ![old] = "none"]
    BY <2>1 DEF status
  <2>3. members' = [members EXCEPT ![old] = {}]
    BY <2>1 DEF members, ActivePlayers, Players
  <2>4. status[old] = "over"
    BY <2>1, LobbyView
  <2>5. Rules!Remove(old)
    BY <2>1, <2>2, <2>3, <2>4 DEF Rules!Remove, Rules!Removable
  <2> QED
    BY <2>1, <2>5 DEF Rules!LobbyNext
<1> QED
  BY <1>2, <1>3

\* A command that gets a new room opens one, and gives it the code of a finished one if there is
\* any: no other room has that code.
LEMMA LobbyNewRoom ==
    ASSUME IInv, NEW w \in Conns, NEW r \in Rooms, pc[w] = "lookup", NewRoom(w, r),
           UNCHANGED <<slots, gone, main>>
    PROVE  [Rules!LobbyNext]_(Rules!lobbyVars)
<1>1. /\ state \in [Rooms -> {"free", "waiting", "racing", "finished"}]
      /\ code \in [Rooms -> Codes \cup {None}] /\ listed \subseteq Rooms
      /\ want[w] \in Codes
  BY DEF IInv, TypeOK, RoomTypes, ListTypes, Locks
<1>2. /\ r \notin listed /\ state[r] = "free" /\ FoundLive(w) = {}
      /\ listed' = (listed \ FoundFinished(w)) \cup {r}
      /\ code' = [code EXCEPT ![r] = want[w]] /\ state' = [state EXCEPT ![r] = "waiting"]
  BY DEF NewRoom, Remaining, IInv, Ownership
<1>3. Players(r)' = {} /\ ActivePlayers(r)' = {}
  <2>1. slots'[r] = <<>> /\ Len(slots'[r]) = 0
    BY <1>2, EmptySeq DEF IInv, Teardown
  <2> QED
    BY <2>1 DEF Players, ActivePlayers
<1>4. \A q \in Rooms : Players(q)' = Players(q) /\ ActivePlayers(q)' = ActivePlayers(q)
  BY DEF Players, ActivePlayers
<1>5. CASE FoundFinished(w) = {}
  <2>1. listed' = listed \cup {r} /\ \A q \in listed : code[q] # want[w]
    BY <1>2, <1>5 DEF FoundLive, Found
  <2>2. status[r] = "none" /\ \A q \in Rooms : status[q] # "none" => q \in listed
    BY <1>2, LobbyView
  <2>3. status' = [status EXCEPT ![r] = "open"]
    BY <1>1, <1>2, <2>1 DEF status
  <2>4. members' = members
    BY <1>1, <1>2, <1>3, <1>4, <2>1 DEF members
  <2>5. [q \in Rooms |-> IF q \in listed THEN code[q] ELSE None]'
          = [[q \in Rooms |-> IF q \in listed THEN code[q] ELSE None] EXCEPT ![r] = want[w]]
    BY <1>1, <1>2, <2>1
  <2>6. PICK c \in Codes : c = want[w]
    BY <1>1
  <2>7. Rules!Open(r, c)
    BY <2>1, <2>2, <2>3, <2>4, <2>5, <2>6 DEF Rules!Open
  <2> QED
    BY <2>7 DEF Rules!LobbyNext
<1>6. ASSUME NEW old \in FoundFinished(w) PROVE [Rules!LobbyNext]_(Rules!lobbyVars)
  <2>1. /\ old \in Rooms /\ old \in listed /\ state[old] = "finished" /\ code[old] = want[w]
        /\ listed' = (listed \ {old}) \cup {r} /\ old # r
    BY <1>2, <1>6, OneFinished
  <2>2. status[r] = "none" /\ status[old] = "over"
    BY <1>2, <2>1, LobbyView
  <2>3. status' = [status EXCEPT ![old] = "none", ![r] = "open"]
    BY <1>1, <1>2, <2>1 DEF status
  <2>4. members' = [members EXCEPT ![old] = {}]
    BY <1>1, <1>2, <1>3, <1>4, <2>1 DEF members
  <2>5. [q \in Rooms |-> IF q \in listed THEN code[q] ELSE None]'
          = [[q \in Rooms |-> IF q \in listed THEN code[q] ELSE None]
               EXCEPT ![old] = None, ![r] = want[w]]
    BY <1>1, <1>2, <2>1
  <2>6. PICK c \in Codes : c = want[w]
    BY <1>1
  <2>7. Rules!Reopen(old, r, c)
    BY <2>1, <2>2, <2>3, <2>4, <2>5, <2>6 DEF Rules!Reopen
  <2> QED
    BY <2>1, <2>7 DEF Rules!LobbyNext
<1> QED
  BY <1>5, <1>6

\* The workers.
LEMMA LobbyWorker ==
    ASSUME IInv, NEW w \in Conns, Worker(w)
    PROVE  [Rules!LobbyNext]_(Rules!lobbyVars)
<1> USE DEF control, list, room, players
<1>1. CASE CreateFails(w) \/ JoinFails(w)
  BY <1>1, LobbyNoRoom DEF CreateFails, JoinFails
<1>2. ASSUME NEW r \in Rooms, CreateRoom(w, r) \/ JoinCreates(w, r)
      PROVE  [Rules!LobbyNext]_(Rules!lobbyVars)
  BY <1>2, LobbyNewRoom DEF CreateRoom, JoinCreates, Lookup
<1>3. ASSUME NEW r \in Rooms, JoinRegister(w, r) PROVE [Rules!LobbyNext]_(Rules!lobbyVars)
  BY <1>3, LobbyRegister
<1>4. CASE \/ WorkerGivesUp(w) \/ (\E what \in Commands, c \in Codes : WorkerReads(w, what, c))
           \/ WorkerLocks(w)
           \/ (\E r \in Rooms : InfoRoom(w, r)) \/ InfoReply(w) \/ Summary(w) \/ CreateRefused(w)
           \/ (\E r \in Rooms : JoinFound(w, r)) \/ JoinEnter(w) \/ Swept(w) \/ JoinRefused(w)
  BY <1>4, LobbyStutter DEF WorkerGivesUp, WorkerReads, WorkerLocks, InfoRoom, InfoReply, Summary,
          CreateRefused,
        JoinFound, JoinEnter, Swept, JoinRefused
<1> QED
  BY <1>1, <1>2, <1>3, <1>4 DEF Worker, WorkerAnswers

\* Freeing a room changes nothing Lobby sees: it left the list before.
LEMMA LobbyDestroy ==
    ASSUME IInv, NEW r \in Rooms, Destroy(r)
    PROVE  [Rules!LobbyNext]_(Rules!lobbyVars)
<1>1. ASSUME NEW a \in Agents, DestroyFree(a, r) PROVE UNCHANGED Rules!lobbyVars
  <2>1. /\ UNCHANGED <<listed, main, gone>> /\ r \notin listed
        /\ code' = [code EXCEPT ![r] = None] /\ state' = [state EXCEPT ![r] = "free"]
        /\ slots' = [slots EXCEPT ![r] = <<>>]
    BY <1>1 DEF DestroyFree, control, IInv, Ownership, Doomed
  <2>2. \A q \in listed : q \in Rooms => code'[q] = code[q] /\ state'[q] = state[q] /\ slots'[q] = slots[q]
    BY <2>1 DEF IInv, TypeOK, ListTypes, RoomTypes
  <2>3. \A q \in listed : q \in Rooms => Players(q)' = Players(q) /\ ActivePlayers(q)' = ActivePlayers(q)
    BY <2>1, <2>2 DEF Players, ActivePlayers
  <2>4. status' = status
    BY <2>1, <2>2 DEF status
  <2>5. members' = members
    BY <2>1, <2>2, <2>3 DEF members
  <2> QED
    BY <2>1, <2>2, <2>4, <2>5 DEF Rules!lobbyVars
<1>2. CASE \/ \E a \in Agents : DestroyBegin(a, r)
           \/ DestroyRelease(r) \/ DestroyWake(r) \/ DestroyJoinRunner(r) \/ DestroyJoinThreads(r)
  BY <1>2, LobbyStutter DEF DestroyBegin, DestroyRelease, DestroyWake, DestroyJoinRunner,
        DestroyJoinThreads, control, list, room, players
<1> QED
  BY <1>1, <1>2 DEF Destroy

\* The main thread prunes rooms whose race is over or that nobody waits in, and shuts down once.
LEMMA LobbyMain ==
    ASSUME IInv, MainThread \/ Signal
    PROVE  [Rules!LobbyNext]_(Rules!lobbyVars)
<1>1. CASE \/ MainLoop \/ PruneEnd \/ MainSwept \/ (\E w \in Conns : Accept(w)) \/ AcceptNobody
           \/ MainDrain \/ MainEnd \/ Signal
  BY <1>1, LobbyStutter DEF MainLoop, PruneEnd, MainSwept, Accept, AcceptNobody, MainDrain, MainEnd,
        Signal, list, room, players
<1>2. ASSUME NEW r \in Rooms, PruneLook(r) \/ PruneTake(r) PROVE [Rules!LobbyNext]_(Rules!lobbyVars)
  <2>1. UNCHANGED <<code, state, slots, gone, main>>
    BY <1>2 DEF PruneLook, PruneTake, list, room, players
  <2>2. CASE PruneLook(r)
    BY <2>1, <2>2, LobbyStutter DEF PruneLook, list
  <2>3. CASE PruneTake(r)
    <3>1. r \in listed /\ Prunable(r) /\ listed' = listed \ {r}
      BY <2>3, CoordinatorAssumption DEF PruneTake, IInv, Picking, CoordinatorAssumption
    <3>2. state[r] = "waiting" => ActivePlayers(r) = {}
      BY <3>1, ActiveCount DEF Prunable, IInv
    <3>3. Rules!Removable(r)
      BY <3>1, <3>2, LobbyView DEF Prunable, Rules!Removable
    <3>4. status' = [status EXCEPT ![r] = "none"]
      BY <2>1, <3>1 DEF status
    <3>5. members' = [members EXCEPT ![r] = {}]
      BY <2>1, <3>1 DEF members, ActivePlayers, Players
    <3>6. Rules!Remove(r)
      BY <2>1, <3>1, <3>3, <3>4, <3>5 DEF Rules!Remove
    <3> QED
      BY <3>6 DEF Rules!LobbyNext
  <2> QED
    BY <1>2, <2>2, <2>3
<1>3. CASE MainTake
  <2>1. listed' = {} /\ main = "take" /\ main' = "lastSweep"
    BY <1>3 DEF MainTake
  <2>2. status' = [q \in Rooms |-> "none"] /\ members' = [q \in Rooms |-> {}]
    BY <2>1 DEF status, members
  <2>3. Rules!Shutdown
    BY <2>1, <2>2 DEF Rules!Shutdown
  <2> QED
    BY <2>3 DEF Rules!LobbyNext
<1> QED
  BY <1>1, <1>2, <1>3 DEF MainThread

\* Every step of the coordinator is one of Lobby's or invisible to it.
LEMMA LobbyStep == IInv /\ [Next]_vars => [Rules!LobbyNext]_(Rules!lobbyVars)
<1> SUFFICES ASSUME IInv, [Next]_vars PROVE [Rules!LobbyNext]_(Rules!lobbyVars)
  OBVIOUS
<1>1. CASE UNCHANGED vars
  BY <1>1, LobbyStutter DEF vars, control, list, room, players
<1> QED
  BY <1>1, LobbyRunner, LobbyDestroy, LobbyWorker, LobbyPlayer, LobbyMain DEF Next, Exited

\* The coordinator with its locks, threads and memory implements Lobby: a race starts with a
\* full room and exactly its players, nobody joins it then, and a room with players waiting in
\* it disappears only at the shutdown.
THEOREM ImplementsLobby == Spec => KeepsLobby
<1>1. Init => Rules!LobbyInit
  BY LobbyInitially
<1>2. IInv /\ [Next]_vars => [Rules!LobbyNext]_(Rules!lobbyVars)
  BY LobbyStep
<1> QED
  BY <1>1, <1>2, Invariance, PTL DEF Spec, KeepsLobby, Rules!LobbySpec
=============================================================================
