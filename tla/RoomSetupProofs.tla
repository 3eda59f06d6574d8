-------------------------- MODULE RoomSetupProofs --------------------------
(***************************************************************************)
(* Proofs about RoomSetup for every set of requests, codes and files and   *)
(* every limit: the types (with the limit of rooms), the truth of the HTTP *)
(* answers, and that no block of memory is lost.                           *)
(***************************************************************************)
EXTENDS RoomSetup, WordsProofs, FiniteSetTheorems

-----------------------------------------------------------------------------
(* Facts about the operators the steps are built from. *)

\* The gateway asks for at least one player and for no more than the engine can seat.
LEMMA MaxPlayersFits ==
    ASSUME NEW n \in PlayersAsked
    PROVE  maxPlayers(n) \in 1 .. EngineMaxPlayers
<1>1. n \in Int /\ MAX_LOBBY_CAPACITY \in Nat /\ EngineMaxPlayers \in Nat \ {0, 1}
      /\ MAX_LOBBY_CAPACITY <= EngineMaxPlayers
  BY RoomSetupAssumption DEF RoomSetupAssumption
<1>2. \A a, b \in Int : Min({a, b}) \in {a, b} /\ Min({a, b}) <= a /\ Min({a, b}) <= b
  <2> SUFFICES ASSUME NEW a \in Int, NEW b \in Int
               PROVE  Min({a, b}) \in {a, b} /\ Min({a, b}) <= a /\ Min({a, b}) <= b
    OBVIOUS
  <2>1. \E x \in {a, b} : \A y \in {a, b} : x <= y
    <3>1. CASE a <= b
      BY <3>1
    <3>2. CASE b <= a
      BY <3>2
    <3> QED
      BY <3>1, <3>2
  <2> QED
    BY <2>1 DEF Min
<1>3. \A a, b \in Int : Max({a, b}) \in {a, b} /\ Max({a, b}) >= a /\ Max({a, b}) >= b
  <2> SUFFICES ASSUME NEW a \in Int, NEW b \in Int
               PROVE  Max({a, b}) \in {a, b} /\ Max({a, b}) >= a /\ Max({a, b}) >= b
    OBVIOUS
  <2>1. \E x \in {a, b} : \A y \in {a, b} : x >= y
    <3>1. CASE a >= b
      BY <3>1
    <3>2. CASE b >= a
      BY <3>2
    <3> QED
      BY <3>1, <3>2
  <2> QED
    BY <2>1 DEF Max
<1>4. CASE n = 0
  BY <1>1, <1>4 DEF maxPlayers
<1>5. CASE n # 0
  <2> DEFINE least == Min({MAX_LOBBY_CAPACITY, n})
  <2>1. MAX_LOBBY_CAPACITY \in Int
    BY <1>1
  <2>2. least \in {MAX_LOBBY_CAPACITY, n} /\ least <= MAX_LOBBY_CAPACITY
    BY <1>1, <1>2, <2>1
  <2>3. maxPlayers(n) = Max({1, least})
    BY <1>5 DEF maxPlayers
  <2> HIDE DEF least
  <2>4. least \in Int /\ least <= EngineMaxPlayers
    BY <1>1, <2>2
  <2>5. Max({1, least}) \in {1, least} /\ Max({1, least}) >= 1
    BY <1>3, <2>4
  <2> QED
    BY <1>1, <2>3, <2>4, <2>5
<1> QED
  BY <1>4, <1>5

\* What the gateway asks for is within the engine's limits, which leave it as it is.
LEMMA EngineSizeKeeps ==
    ASSUME NEW n \in 1 .. EngineMaxPlayers
    PROVE  EngineSize(n) = n
  BY RoomSetupAssumption DEF RoomSetupAssumption, EngineSize

\* Wherever the construction fails, everything that was allocated is freed.
LEMMA NothingHeld ==
    ASSUME NEW at \in DOMAIN Held
    PROVE  Held[at] \ Unwound(at) = {}
<1>1. at \in {"hub", "game", "players", "threads", "socketsData", "names", "sentence", "runner"}
  BY DEF Held
<1>2. CASE at = "hub"
  BY <1>2 DEF Held
<1>3. CASE at = "game"
  BY <1>3 DEF Held, Unwound
<1>4. CASE at = "players"
  BY <1>4 DEF Held, Unwound
<1>5. CASE at = "threads"
  BY <1>5 DEF Held, Unwound, serverInitFail
<1>6. CASE at = "socketsData"
  BY <1>6 DEF Held, Unwound, serverInitFail
<1>7. CASE at = "names"
  BY <1>7 DEF Held, Unwound, serverInitFail
<1>8. CASE at = "sentence"
  BY <1>8 DEF Held, Unwound, serverInitFail
<1>9. CASE at = "runner"
  BY <1>9 DEF Held, Unwound, serverDestroy, Blocks, HubBlocks, GameBlocks
<1> QED
  BY <1>1, <1>2, <1>3, <1>4, <1>5, <1>6, <1>7, <1>8, <1>9

\* Destroying a room frees every block of it.
LEMMA DestroysAll ==
    ASSUME NEW r
    PROVE  coordinator_destroy_room(r) = {r} \X Blocks
<1>1. {"runner", "queue", "locks", "threadData", "hub"} \cup serverDestroy = Blocks
  BY DEF serverDestroy, Blocks, HubBlocks, GameBlocks
<1> QED
  BY <1>1 DEF coordinator_destroy_room

\* A cached or freshly read sentence comes from a file.
LEMMA AvailableFromFiles ==
    ASSUME TypeOK
    PROVE  Available \subseteq Sentences
  BY DEF TypeOK, Available, Sentences

\* Taking a room from the list keeps the list within its limit.
LEMMA ExtractedShrinks ==
    ASSUME TypeOK, NEW r \in Requests
    PROVE  /\ Extracted(r) \in [Codes -> Requests \cup {None}]
           /\ {c \in Codes : Extracted(r)[c] # None} = Listed \ {asked[r].code}
                \/ Extracted(r) = rooms
           /\ {c \in Codes : Extracted(r)[c] # None} \subseteq Listed
           /\ Cardinality({c \in Codes : Extracted(r)[c] # None}) <= RoomLimit
<1>1. asked[r].code \in Codes
  BY DEF TypeOK
<1>2. Extracted(r) \in [Codes -> Requests \cup {None}]
  BY <1>1 DEF Extracted, TypeOK
<1>3. \/ {c \in Codes : Extracted(r)[c] # None} = Listed \ {asked[r].code}
      \/ Extracted(r) = rooms
  BY <1>1 DEF Extracted, TypeOK, Listed, Old
<1>4. {c \in Codes : Extracted(r)[c] # None} \subseteq Listed
  BY <1>3 DEF Listed
<1>5. IsFiniteSet(Listed)
  BY FS_Subset, RoomSetupAssumption DEF RoomSetupAssumption, Listed
<1>6. /\ Cardinality({c \in Codes : Extracted(r)[c] # None}) <= Cardinality(Listed)
      /\ Cardinality({c \in Codes : Extracted(r)[c] # None}) \in Nat /\ Cardinality(Listed) \in Nat
  BY <1>4, <1>5, FS_Subset, FS_CardinalityType
<1> QED
  BY <1>2, <1>3, <1>4, <1>6, RoomSetupAssumption DEF RoomSetupAssumption, TypeOK

-----------------------------------------------------------------------------
(* The inductive invariant. *)

\* The engine starts without rooms, connections or memory for them.
LEMMA Initially == Init => IInv
<1> SUFFICES ASSUME Init
             PROVE  IInv
  OBVIOUS
<1>1. Listed = {}
  BY DEF Init, Listed
<1>2. Cardinality(Listed) <= RoomLimit
  BY <1>1, FS_EmptySet, RoomSetupAssumption DEF RoomSetupAssumption
<1>3. TypeOK
  BY <1>1, <1>2, RoomSetupAssumption DEF RoomSetupAssumption, Init, TypeOK, NoAnswer, NoRoom, Answers, Replies
<1>4. InStep /\ Truth /\ Owned /\ ReplyTruthful
  BY <1>1 DEF Init, InStep, Truth, Owned, ReplyTruthful, NoAnswer
<1>5. NothingLeaked
  BY DEF Init, NothingLeaked
<1> QED
  BY <1>3, <1>4, <1>5 DEF IInv

\* A body makes a CREATE that the engine can satisfy, or is refused before one is sent.
LEMMA PostKeeps ==
    ASSUME IInv, NEW r \in Requests, Post(r)
    PROVE  IInv'
<1>1. PICK n \in PlayersAsked \cup {0} :
        \/ /\ n \in PlayersAsked
           /\ asked' = [asked EXCEPT ![r] = [code |-> asked[r].code, players |-> maxPlayers(n)]]
           /\ gateway' = [gateway EXCEPT ![r] = "connecting"]
           /\ UNCHANGED answer
        \/ Answer(r, 413, 0) /\ UNCHANGED asked
  BY DEF Post
<1>2. n \in PlayersAsked => maxPlayers(n) \in 1 .. EngineMaxPlayers
  BY MaxPlayersFits
<1>3. EngineMaxPlayers \in Nat \ {0, 1}
  BY RoomSetupAssumption DEF RoomSetupAssumption
<1>4. gateway[r] = "idle" /\ worker[r] = "none" /\ reply[r] = "none" /\ created[r] = NoRoom
      /\ verdict[r] = "none"
  BY DEF IInv, InStep, Post
<1>5. /\ asked' \in [Requests -> [code : Codes, players : 0 .. EngineMaxPlayers]]
      /\ \A q \in Requests : asked'[q].code = asked[q].code
      /\ \A q \in Requests : q # r => asked'[q] = asked[q]
      /\ gateway'[r] = "connecting" => asked'[r].players # 0
  <2>1. /\ asked \in [Requests -> [code : Codes, players : 0 .. EngineMaxPlayers]]
        /\ gateway \in [Requests -> {"idle", "connecting", "waiting", "answered"}]
    BY DEF IInv, TypeOK
  <2>2. CASE Answer(r, 413, 0) /\ UNCHANGED asked
    BY <2>1, <2>2 DEF Answer
  <2>3. CASE /\ n \in PlayersAsked
             /\ asked' = [asked EXCEPT ![r] = [code |-> asked[r].code, players |-> maxPlayers(n)]]
    <3> DEFINE m == maxPlayers(n)
    <3>1. m \in 1 .. EngineMaxPlayers
      BY <1>2, <2>3
    <3>2. asked' = [asked EXCEPT ![r] = [code |-> asked[r].code, players |-> m]]
      BY <2>3
    <3> HIDE DEF m
    <3>3. m \in 0 .. EngineMaxPlayers /\ m # 0
      BY <1>3, <3>1
    <3> QED
      BY <2>1, <3>2, <3>3
  <2> QED
    BY <1>1, <2>2, <2>3
<1>6. /\ gateway' \in [Requests -> {"idle", "connecting", "waiting", "answered"}]
      /\ answer' \in [Requests -> Answers]
      /\ \A q \in Requests : q # r => gateway'[q] = gateway[q] /\ answer'[q] = answer[q]
      /\ \/ gateway'[r] = "connecting" /\ answer'[r] = answer[r]
         \/ gateway'[r] = "answered" /\ answer'[r] = [status |-> 413, players |-> 0]
  <2>1. gateway \in [Requests -> {"idle", "connecting", "waiting", "answered"}]
        /\ answer \in [Requests -> Answers]
    BY DEF IInv, TypeOK
  <2>2. [status |-> 413, players |-> 0] \in Answers
    BY DEF Answers
  <2>3. CASE gateway' = [gateway EXCEPT ![r] = "connecting"] /\ UNCHANGED answer
    BY <2>1, <2>3
  <2>4. CASE Answer(r, 413, 0)
    BY <2>1, <2>2, <2>4 DEF Answer
  <2> QED
    BY <1>1, <2>3, <2>4
<1>7. UNCHANGED <<worker, verdict, reply, rooms, finished, created, heap, detached, input, cached>>
  BY DEF Post, conn, memory, text
<1>8. TypeOK'
  BY <1>5, <1>6, <1>7 DEF IInv, TypeOK, Listed
<1>9. InStep'
  BY <1>4, <1>5, <1>6, <1>7 DEF IInv, InStep
<1>10. Truth' /\ ReplyTruthful'
  BY <1>4, <1>5, <1>6, <1>7 DEF IInv, Truth, ReplyTruthful
<1>11. Owned' /\ NothingLeaked'
  BY <1>7 DEF IInv, Owned, NothingLeaked, Listed
<1> QED
  BY <1>8, <1>9, <1>10, <1>11 DEF IInv

\* A connection's worker has decided nothing yet; one without a worker never will.
LEMMA CommandKeeps ==
    ASSUME IInv, NEW r \in Requests, Command(r)
    PROVE  IInv'
<1>1. gateway[r] = "connecting" /\ worker[r] = "none" /\ reply[r] = "none"
  BY DEF IInv, InStep, Command
<1>2. /\ gateway' = [gateway EXCEPT ![r] = "waiting"]
      /\ UNCHANGED <<asked, answer, verdict, rooms, finished, created, heap, detached, input, cached>>
  BY DEF Command, memory, text
<1>3. /\ worker' \in [Requests -> {"none", "read", "destroying", "done"}]
      /\ reply' \in [Requests -> Replies]
      /\ \A q \in Requests : q # r => worker'[q] = worker[q] /\ reply'[q] = reply[q]
      /\ \/ worker'[r] = "read" /\ reply'[r] = "none"
         \/ worker'[r] = "done" /\ reply'[r] \in {"ERROR:", "nothing"}
  <2>1. /\ worker \in [Requests -> {"none", "read", "destroying", "done"}]
        /\ reply \in [Requests -> Replies]
    BY DEF IInv, TypeOK
  <2>2. CASE worker' = [worker EXCEPT ![r] = "read"] /\ UNCHANGED reply
    BY <1>1, <2>1, <2>2
  <2>3. CASE /\ worker' = [worker EXCEPT ![r] = "done"]
             /\ \E said \in {"ERROR:", "nothing"} : reply' = [reply EXCEPT ![r] = said]
    <3>1. PICK said \in {"ERROR:", "nothing"} : reply' = [reply EXCEPT ![r] = said]
      BY <2>3
    <3>2. said \in Replies
      BY DEF Replies
    <3> QED
      BY <2>1, <2>3, <3>1, <3>2
  <2> QED
    BY <2>2, <2>3 DEF Command
<1>4. TypeOK'
  BY <1>2, <1>3 DEF IInv, TypeOK, Listed
<1>5. InStep'
  BY <1>1, <1>2, <1>3 DEF IInv, TypeOK, InStep
<1>6. Truth' /\ ReplyTruthful'
  BY <1>1, <1>2, <1>3 DEF IInv, TypeOK, InStep, Truth, ReplyTruthful
<1>7. Owned'
  <2>1. \A q \in Requests : worker[q] \in {"destroying", "done"} => worker'[q] = worker[q]
    BY <1>1, <1>3
  <2>2. /\ \A c \in Listed : rooms[c] \in Requests
        /\ \A q \in Requests : detached[q] # None => detached[q] \in Requests
    BY DEF IInv, TypeOK, Listed
  <2> QED
    BY <1>2, <2>1, <2>2 DEF IInv, Owned, Listed
<1>8. NothingLeaked'
  BY <1>2 DEF IInv, NothingLeaked
<1> QED
  BY <1>4, <1>5, <1>6, <1>7, <1>8 DEF IInv

\* An answer that is true of the engine keeps everything.
LEMMA AnswerKeeps ==
    ASSUME IInv, NEW r \in Requests, NEW status, NEW players,
           gateway[r] \in {"connecting", "waiting"}, Answer(r, status, players),
           UNCHANGED <<asked, conn, memory, text>>,
           [status |-> status, players |-> players] \in Answers,
           status # 413,
           status \in {201, 409, 503} => worker[r] = "done",
           status = 201 => created[r] # NoRoom /\ created[r].size = players,
           status \in {409, 503} => created[r] = NoRoom
    PROVE  IInv'
<1>1. UNCHANGED <<asked, worker, verdict, reply, rooms, finished, created, heap, detached, input, cached>>
  BY DEF conn, memory, text
<1>2. /\ gateway' \in [Requests -> {"idle", "connecting", "waiting", "answered"}]
      /\ answer' \in [Requests -> Answers]
      /\ gateway'[r] = "answered" /\ answer'[r].status = status /\ answer'[r].players = players
      /\ \A q \in Requests : q # r => gateway'[q] = gateway[q] /\ answer'[q] = answer[q]
  BY DEF IInv, TypeOK, Answer
<1>3. TypeOK'
  BY <1>1, <1>2 DEF IInv, TypeOK, Listed
<1>4. InStep'
  BY <1>1, <1>2 DEF IInv, InStep
<1>5. Truth' /\ ReplyTruthful'
  BY <1>1, <1>2 DEF IInv, Truth, ReplyTruthful
<1>6. Owned' /\ NothingLeaked'
  BY <1>1 DEF IInv, Owned, NothingLeaked, Listed
<1> QED
  BY <1>3, <1>4, <1>5, <1>6 DEF IInv

\* The status for a reply is true of what the worker has decided.
LEMMA AnsweredKeeps ==
    ASSUME IInv, NEW r \in Requests, Answered(r)
    PROVE  IInv'
<1> DEFINE status == StatusFor(r).status
           players == StatusFor(r).players
<1>1. reply[r] # "none" /\ worker[r] = "done" /\ reply[r] \in Replies
  BY DEF IInv, TypeOK, InStep, Answered
<1>2. asked[r].players \in 1 .. EngineMaxPlayers
  BY <1>1, RoomSetupAssumption DEF RoomSetupAssumption, IInv, TypeOK, InStep
<1>3. CASE reply[r] = "ok"
  <2>1. status = 201 /\ players = asked[r].players
    BY <1>3 DEF StatusFor
  <2>2. created[r] # NoRoom /\ created[r].size = players
    BY <1>3, <2>1 DEF IInv, Truth
  <2>3. [status |-> status, players |-> players] \in Answers
    BY <1>2, <2>1 DEF Answers
  <2> HIDE DEF status, players
  <2>4. Answer(r, status, players) /\ gateway[r] = "waiting" /\ UNCHANGED <<asked, conn, memory, text>>
    BY DEF Answered, status, players
  <2> QED
    BY <1>1, <2>1, <2>2, <2>3, <2>4, AnswerKeeps
<1>4. CASE reply[r] # "ok"
  <2>1. status \in {409, 502, 503} /\ players = 0
    BY <1>4 DEF StatusFor
  <2>2. status \in {409, 503} => created[r] = NoRoom
    <3>1. status \in {409, 503} => reply[r] # "nothing"
      BY DEF StatusFor
    <3> QED
      BY <1>1, <1>4, <3>1 DEF IInv, Truth
  <2>3. [status |-> status, players |-> players] \in Answers
    BY <2>1 DEF Answers
  <2> HIDE DEF status, players
  <2>4. Answer(r, status, players) /\ gateway[r] = "waiting" /\ UNCHANGED <<asked, conn, memory, text>>
    BY DEF Answered, status, players
  <2> QED
    BY <1>1, <2>1, <2>2, <2>3, <2>4, AnswerKeeps
<1> QED
  BY <1>3, <1>4

\* A timeout says 500, which promises nothing about the engine.
LEMMA RejectedKeeps ==
    ASSUME IInv, NEW r \in Requests, Rejected(r)
    PROVE  IInv'
<1>1. gateway[r] \in {"connecting", "waiting"} /\ Answer(r, 500, 0)
      /\ UNCHANGED <<asked, conn, memory, text>>
  BY DEF Rejected, TimerFires
<1>2. [status |-> 500, players |-> 0] \in Answers
  BY DEF Answers
<1> QED
  BY <1>1, <1>2, AnswerKeeps

-----------------------------------------------------------------------------
(* The worker's decision. *)

\* The requests whose rooms have memory.
Owners == ({rooms[c] : c \in Codes} \cup {detached[r] : r \in Requests}) \ {None}

\* Whatever a worker decides, its room has a new history and everything else of the two
\* sides stays as it was.
LEMMA DecisionKeeps ==
    ASSUME IInv, NEW r \in Requests, NEW said \in Replies, Decides(r, said),
           created' \in [Requests -> [size : 0 .. EngineMaxPlayers,
                                      sentence : {<<>>} \cup Sentences]],
           \A q \in Requests : q # r => created'[q] = created[q],
           \A q \in Requests : q # r => detached'[q] = detached[q],
           said = "ok" => created'[r] # NoRoom /\ created'[r].size = asked[r].players,
           said # "ok" => created'[r] = NoRoom
    PROVE  InStep' /\ Truth' /\ ReplyTruthful'
<1>1. /\ worker[r] = "read" /\ reply[r] = "none" /\ created[r] = NoRoom
      /\ gateway[r] \notin {"idle", "connecting"} /\ asked[r].players # 0
  BY DEF IInv, InStep, Decides
<1>2. /\ worker'[r] = "destroying" /\ verdict'[r] = said
      /\ \A q \in Requests : q # r => worker'[q] = worker[q] /\ verdict'[q] = verdict[q]
      /\ UNCHANGED <<gateway, asked, answer, reply, finished, input>>
  BY DEF IInv, TypeOK, Decides, http
<1>3. answer[r].status \notin {201, 409, 413, 503}
  BY <1>1 DEF IInv, Truth
<1>4. InStep'
  BY <1>1, <1>2 DEF IInv, InStep
<1>5. Truth'
  <2> SUFFICES ASSUME NEW q \in Requests
               PROVE  /\ \A said_1 \in {verdict'[q], reply'[q]} :
                            /\ said_1 = "ok" => /\ created'[q].size = asked'[q].players
                                               /\ created'[q] # NoRoom
                            /\ said_1 \notin {"ok", "none", "nothing"} => created'[q] = NoRoom
                      /\ answer'[q].status \in {201, 409, 503} => worker'[q] = "done"
                      /\ answer'[q].status = 413 =>
                            worker'[q] = "none" /\ gateway'[q] = "answered"
    BY DEF Truth
  <2>1. CASE q = r
    BY <1>1, <1>2, <1>3, <2>1
  <2>2. CASE q # r
    BY <1>2, <2>2 DEF IInv, Truth
  <2> QED
    BY <2>1, <2>2
<1>6. ReplyTruthful'
  BY <1>2, <1>3 DEF IInv, ReplyTruthful
<1> QED
  BY <1>4, <1>5, <1>6

\* A code that is taken: nothing is made, nothing owed.
LEMMA CreateRefusedKeeps ==
    ASSUME IInv, NEW r \in Requests, CreateRefused(r)
    PROVE  IInv'
<1>1. /\ Decides(r, "room_already_exists") /\ "room_already_exists" \in Replies
      /\ UNCHANGED <<rooms, created, heap, detached, cached>>
  BY DEF CreateRefused, Replies
<1>2. UNCHANGED <<gateway, asked, answer, reply, finished, input>>
  BY <1>1 DEF Decides, http
<1>3. /\ worker' \in [Requests -> {"none", "read", "destroying", "done"}]
      /\ verdict' \in [Requests -> Replies]
      /\ worker[r] = "read" /\ created[r] = NoRoom
      /\ \A q \in Requests : worker[q] \in {"destroying", "done"} => worker'[q] = worker[q]
  BY <1>1 DEF IInv, TypeOK, InStep, Decides
<1>4. TypeOK'
  BY <1>1, <1>2, <1>3 DEF IInv, TypeOK, Listed
<1>5. InStep' /\ Truth' /\ ReplyTruthful'
  BY <1>1, <1>3, DecisionKeeps DEF IInv, TypeOK
<1>6. Owned'
  <2>1. /\ \A c \in Listed : rooms[c] \in Requests
        /\ \A q \in Requests : detached[q] # None => detached[q] \in Requests
    BY DEF IInv, TypeOK, Listed
  <2> QED
    BY <1>1, <1>3, <2>1 DEF IInv, Owned, Listed
<1>7. NothingLeaked'
  BY <1>1 DEF IInv, NothingLeaked
<1> QED
  BY <1>4, <1>5, <1>6, <1>7 DEF IInv

\* Taking the finished room of a code from the list hands it to the worker: it stays
\* somebody's, and nobody else's.
LEMMA ExtractionOwned ==
    ASSUME IInv, NEW r \in Requests, worker[r] = "read",
           worker' = [worker EXCEPT ![r] = "destroying"],
           detached' = [detached EXCEPT ![r] = Old(r)]
    PROVE  /\ detached' \in [Requests -> Requests \cup {None}]
           /\ \A c \in Codes : Extracted(r)[c] # None =>
                 /\ worker'[Extracted(r)[c]] \in {"destroying", "done"}
                 /\ Extracted(r)[c] # r
           /\ \A q \in Requests : detached'[q] # None =>
                 /\ worker'[detached'[q]] \in {"destroying", "done"} /\ detached'[q] # r
                 /\ \A c \in Codes : Extracted(r)[c] # detached'[q]
                 /\ \A p \in Requests : detached'[p] = detached'[q] => p = q
           /\ Extracted(r)[asked[r].code] = None
           /\ ({Extracted(r)[c] : c \in Codes} \cup {detached'[q] : q \in Requests}) \ {None}
                 = Owners
<1> DEFINE code == asked[r].code
<1>1. /\ code \in Codes /\ Old(r) = rooms[code] /\ Old(r) \in Requests \cup {None}
      /\ rooms \in [Codes -> Requests \cup {None}]
      /\ detached \in [Requests -> Requests \cup {None}]
      /\ worker \in [Requests -> {"none", "read", "destroying", "done"}]
      /\ None \notin Requests
  BY RoomSetupAssumption DEF RoomSetupAssumption, IInv, TypeOK, Old
<1>2. \A c \in Codes : rooms[c] # None => rooms[c] \in Requests /\ asked[rooms[c]].code = c
  BY <1>1 DEF IInv, TypeOK, Listed
<1>3. \A c \in Codes : rooms[c] # None => worker[rooms[c]] \in {"destroying", "done"}
  BY DEF IInv, Owned, Listed
<1>4. /\ detached[r] = None
      /\ \A q \in Requests : detached[q] # None =>
            /\ worker[detached[q]] \in {"destroying", "done"}
            /\ \A c \in Codes : rooms[c] # detached[q]
            /\ \A p \in Requests : detached[p] = detached[q] => p = q
  BY DEF IInv, InStep, Owned
<1>5. /\ Extracted(r) \in [Codes -> Requests \cup {None}]
      /\ Extracted(r)[code] = None
      /\ \A c \in Codes : c # code => Extracted(r)[c] = rooms[c]
  BY <1>1 DEF Extracted
<1>6. /\ detached' \in [Requests -> Requests \cup {None}] /\ detached'[r] = rooms[code]
      /\ \A q \in Requests : q # r => detached'[q] = detached[q]
  BY <1>1
<1>7. \A q \in Requests : worker[q] \in {"destroying", "done"} => worker'[q] = worker[q] /\ q # r
  BY <1>1
<1> HIDE DEF code
<1>8. \A c \in Codes : Extracted(r)[c] # None =>
         worker'[Extracted(r)[c]] \in {"destroying", "done"} /\ Extracted(r)[c] # r
  BY <1>2, <1>3, <1>5, <1>7
<1>9. ASSUME NEW q \in Requests, detached'[q] # None
      PROVE  /\ worker'[detached'[q]] \in {"destroying", "done"} /\ detached'[q] # r
             /\ \A c \in Codes : Extracted(r)[c] # detached'[q]
             /\ \A p \in Requests : detached'[p] = detached'[q] => p = q
  <2>1. CASE q = r
    <3>1. detached'[q] = rooms[code] /\ rooms[code] # None
      BY <1>6, <1>9, <2>1
    <3>2. worker'[detached'[q]] \in {"destroying", "done"} /\ detached'[q] # r
      BY <1>1, <1>2, <1>3, <1>7, <3>1 DEF code
    <3>3. \A c \in Codes : Extracted(r)[c] # detached'[q]
      BY <1>1, <1>2, <1>5, <3>1 DEF code
    <3>4. \A p \in Requests : detached'[p] = detached'[q] => p = q
      BY <1>1, <1>4, <1>6, <2>1, <3>1 DEF code
    <3> QED
      BY <3>2, <3>3, <3>4
  <2>2. CASE q # r
    <3>1. detached'[q] = detached[q] /\ detached[q] \in Requests
      BY <1>1, <1>6, <1>9, <2>2
    <3>2. worker'[detached'[q]] \in {"destroying", "done"} /\ detached'[q] # r
      BY <1>4, <1>7, <1>9, <3>1
    <3>3. \A c \in Codes : Extracted(r)[c] # detached'[q]
      BY <1>4, <1>5, <1>9, <3>1
    <3>4. \A p \in Requests : detached'[p] = detached'[q] => p = q
      <4> SUFFICES ASSUME NEW p \in Requests, detached'[p] = detached'[q]
                   PROVE  p = q
        OBVIOUS
      <4>1. p # r
        BY <1>1, <1>4, <1>6, <1>9, <3>1 DEF code
      <4> QED
        BY <1>4, <1>6, <1>9, <3>1, <4>1
    <3> QED
      BY <3>2, <3>3, <3>4
  <2> QED
    BY <2>1, <2>2
<1>10. ({Extracted(r)[c] : c \in Codes} \cup {detached'[q] : q \in Requests}) \ {None} = Owners
  <2>1. ASSUME NEW o \in Requests
        PROVE  (\E c \in Codes : Extracted(r)[c] = o) \/ (\E q \in Requests : detached'[q] = o)
                 <=> (\E c \in Codes : rooms[c] = o) \/ (\E q \in Requests : detached[q] = o)
    <3>1. code \in Codes
      BY <1>1 DEF code
    <3>2. o # None
      BY <1>1
    <3>3. ASSUME NEW c \in Codes, rooms[c] = o
          PROVE  Extracted(r)[c] = o \/ detached'[r] = o
      BY <1>5, <1>6, <3>3
    <3>4. ASSUME NEW q \in Requests, detached[q] = o
          PROVE  detached'[q] = o
      BY <1>4, <1>6, <3>2, <3>4
    <3>5. ASSUME NEW c \in Codes, Extracted(r)[c] = o
          PROVE  rooms[c] = o
      BY <1>5, <3>2, <3>5
    <3>6. ASSUME NEW q \in Requests, detached'[q] = o
          PROVE  rooms[code] = o \/ detached[q] = o
      BY <1>6, <3>6
    <3> QED
      BY <3>1, <3>3, <3>4, <3>5, <3>6
  <2>2. /\ Owners \subseteq Requests
        /\ ({Extracted(r)[c] : c \in Codes} \cup {detached'[q] : q \in Requests}) \ {None}
             \subseteq Requests
    BY <1>1, <1>5, <1>6 DEF Owners
  <2>3. ASSUME NEW o \in Requests
        PROVE  /\ o \in Owners <=>
                     (\E c \in Codes : rooms[c] = o) \/ (\E q \in Requests : detached[q] = o)
               /\ o \in ({Extracted(r)[c] : c \in Codes} \cup {detached'[q] : q \in Requests})
                       \ {None} <=>
                     (\E c \in Codes : Extracted(r)[c] = o) \/ (\E q \in Requests : detached'[q] = o)
    BY <1>1 DEF Owners
  <2> QED
    BY <2>1, <2>2, <2>3
<1> QED
  BY <1>5, <1>6, <1>8, <1>9, <1>10 DEF code

\* Without a new room, the old one's removal from the list is all that happens.
LEMMA NotCreatedKeeps ==
    ASSUME IInv, NEW r \in Requests, NEW said \in Replies \ {"ok"}, Decides(r, said),
           rooms' = Extracted(r), detached' = [detached EXCEPT ![r] = Old(r)],
           UNCHANGED <<created, heap>>, cached' \subseteq Sentences
    PROVE  IInv'
<1>1. /\ worker[r] = "read" /\ worker' = [worker EXCEPT ![r] = "destroying"]
      /\ verdict' = [verdict EXCEPT ![r] = said]
      /\ UNCHANGED <<gateway, asked, answer, reply, finished, input>>
  BY DEF Decides, http
<1>2. TypeOK
  BY DEF IInv
<1>3. /\ detached' \in [Requests -> Requests \cup {None}]
      /\ rooms' \in [Codes -> Requests \cup {None}]
      /\ Listed' \subseteq Listed /\ Cardinality(Listed') <= RoomLimit
      /\ \A c \in Listed' : rooms'[c] = rooms[c]
  <2>1. Listed' = {c \in Codes : Extracted(r)[c] # None}
    BY DEF Listed
  <2>2. \A c \in Codes : Extracted(r)[c] # None => Extracted(r)[c] = rooms[c]
    BY <1>2 DEF TypeOK, Extracted
  <2>3. detached' \in [Requests -> Requests \cup {None}]
    BY <1>1, ExtractionOwned
  <2>4. /\ Extracted(r) \in [Codes -> Requests \cup {None}]
        /\ {c \in Codes : Extracted(r)[c] # None} \subseteq Listed
        /\ Cardinality({c \in Codes : Extracted(r)[c] # None}) <= RoomLimit
    BY <1>2, ExtractedShrinks
  <2>5. \A c \in Listed' : rooms'[c] = rooms[c]
    BY <2>1, <2>2
  <2> QED
    BY <2>1, <2>3, <2>4, <2>5
<1>4. TypeOK'
  <2>1. /\ worker' \in [Requests -> {"none", "read", "destroying", "done"}]
        /\ verdict' \in [Requests -> Replies]
    BY <1>1, <1>2 DEF TypeOK
  <2>2. \A c \in Listed' : asked'[rooms'[c]].code = c
    BY <1>1, <1>2, <1>3 DEF TypeOK
  <2> QED
    BY <1>1, <1>2, <1>3, <2>1, <2>2 DEF TypeOK
<1>5. InStep' /\ Truth' /\ ReplyTruthful'
  <2>1. created[r] = NoRoom
    BY <1>1 DEF IInv, InStep
  <2>2. \A q \in Requests : q # r => detached'[q] = detached[q]
    BY <1>2 DEF TypeOK
  <2>3. created \in [Requests -> [size : 0 .. EngineMaxPlayers, sentence : {<<>>} \cup Sentences]]
    BY <1>2 DEF TypeOK
  <2> QED
    BY <2>1, <2>2, <2>3, DecisionKeeps
<1>6. Owned'
  <2>1. /\ \A c \in Codes : Extracted(r)[c] # None =>
              worker'[Extracted(r)[c]] \in {"destroying", "done"}
        /\ \A q \in Requests : detached'[q] # None =>
              /\ worker'[detached'[q]] \in {"destroying", "done"}
              /\ \A c \in Codes : Extracted(r)[c] # detached'[q]
              /\ \A p \in Requests : detached'[p] = detached'[q] => p = q
    BY <1>1, ExtractionOwned, ZenonT(60)
  <2> QED
    BY <2>1 DEF Owned, Listed
<1>7. NothingLeaked'
  <2>1. ({rooms'[c] : c \in Codes} \cup {detached'[q] : q \in Requests}) \ {None} = Owners
    <3>1. ({Extracted(r)[c] : c \in Codes} \cup {detached'[q] : q \in Requests}) \ {None} = Owners
      BY <1>1, ExtractionOwned
    <3>2. {rooms'[c] : c \in Codes} = {Extracted(r)[c] : c \in Codes}
      OBVIOUS
    <3> QED
      BY <3>1, <3>2
  <2>2. heap = Owners \X Blocks
    BY DEF IInv, NothingLeaked, Owners
  <2> QED
    BY <2>1, <2>2 DEF NothingLeaked
<1> QED
  BY <1>4, <1>5, <1>6, <1>7 DEF IInv

\* No place: the finished room of the code, if any, is owed all the same.
LEMMA NoPlaceKeeps ==
    ASSUME IInv, NEW r \in Requests, NoPlace(r)
    PROVE  IInv'
<1>1. "room_limit_reached" \in Replies \ {"ok"}
  BY DEF Replies
<1>2. /\ Decides(r, "room_limit_reached") /\ rooms' = Extracted(r)
      /\ detached' = [detached EXCEPT ![r] = Old(r)] /\ UNCHANGED <<created, heap>>
      /\ cached' \subseteq Sentences
  BY DEF NoPlace, IInv, TypeOK
<1> QED
  BY <1>1, <1>2, NotCreatedKeeps

\* A failed construction has freed all it had allocated.
LEMMA ConstructionFailsKeeps ==
    ASSUME IInv, NEW r \in Requests, ConstructionFails(r)
    PROVE  IInv'
<1>1. "room_creation_failed" \in Replies \ {"ok"}
  BY DEF Replies
<1>2. PICK at \in DOMAIN Held :
          /\ heap' = heap \cup ({r} \X (Held[at] \ Unwound(at)))
          /\ cached' = IF at \in {"sentence", "runner"} THEN Available ELSE cached
  BY DEF ConstructionFails
<1>3. heap' = heap
  <2>1. {r} \X {} = {}
    OBVIOUS
  <2> QED
    BY <1>2, <2>1, NothingHeld
<1>4. cached' \subseteq Sentences
  BY <1>2, AvailableFromFiles DEF IInv, TypeOK
<1>5. /\ Decides(r, "room_creation_failed") /\ rooms' = Extracted(r)
      /\ detached' = [detached EXCEPT ![r] = Old(r)] /\ UNCHANGED <<created, heap>>
  BY <1>3 DEF ConstructionFails
<1> QED
  BY <1>1, <1>4, <1>5, NotCreatedKeeps

\* A new room is listed in the place of the finished one, with memory of its own.
LEMMA CreateRoomKeeps ==
    ASSUME IInv, NEW r \in Requests, CreateRoom(r)
    PROVE  IInv'
<1> DEFINE code == asked[r].code
<1>1. /\ worker[r] = "read" /\ worker' = [worker EXCEPT ![r] = "destroying"]
      /\ verdict' = [verdict EXCEPT ![r] = "ok"]
      /\ UNCHANGED <<gateway, asked, answer, reply, finished, input>>
      /\ rooms' = [rooms EXCEPT ![code] = r]
      /\ detached' = [detached EXCEPT ![r] = Old(r)]
      /\ heap' = heap \cup ({r} \X Blocks) /\ cached' = Available
  BY DEF CreateRoom, Decides, http
<1>2. TypeOK
  BY DEF IInv
<1>3. /\ code \in Codes /\ rooms \in [Codes -> Requests \cup {None}]
      /\ Extracted(r) \in [Codes -> Requests \cup {None}] /\ None \notin Requests
      /\ Extracted(r)[code] = None
      /\ \A c \in Codes : c # code => rooms'[c] = Extracted(r)[c] /\ rooms'[c] = rooms[c]
      /\ rooms'[code] = r
  BY <1>1, <1>2, RoomSetupAssumption DEF RoomSetupAssumption, TypeOK, Extracted, Old
<1>4. PICK s \in Available :
        created' = [created EXCEPT ![r] = [size |-> EngineSize(asked[r].players), sentence |-> s]]
  BY DEF CreateRoom
<1>5. /\ asked[r].players \in 1 .. EngineMaxPlayers /\ EngineMaxPlayers \in Nat
      /\ EngineSize(asked[r].players) = asked[r].players
  <2>1. asked[r].players \in 1 .. EngineMaxPlayers /\ EngineMaxPlayers \in Nat
    BY <1>1, <1>2, RoomSetupAssumption DEF RoomSetupAssumption, TypeOK, IInv, InStep
  <2> QED
    BY <2>1, EngineSizeKeeps
<1>6. /\ created' \in [Requests -> [size : 0 .. EngineMaxPlayers, sentence : {<<>>} \cup Sentences]]
      /\ \A q \in Requests : q # r => created'[q] = created[q]
      /\ created'[r].size = asked[r].players /\ created'[r] # NoRoom
  <2> DEFINE new == [size |-> asked[r].players, sentence |-> s]
  <2>1. /\ new \in [size : 0 .. EngineMaxPlayers, sentence : {<<>>} \cup Sentences]
        /\ new.size = asked[r].players /\ new # NoRoom
    <3>1. s \in Sentences
      BY <1>2, AvailableFromFiles
    <3>2. NoRoom.size = 0
      BY DEF NoRoom
    <3> QED
      BY <1>5, <3>1, <3>2
  <2>2. created' = [created EXCEPT ![r] = new]
    BY <1>4, <1>5
  <2>3. created \in [Requests -> [size : 0 .. EngineMaxPlayers, sentence : {<<>>} \cup Sentences]]
    BY <1>2 DEF TypeOK
  <2> HIDE DEF new
  <2> QED
    BY <2>1, <2>2, <2>3
<1> DEFINE kept == {c \in Codes : Extracted(r)[c] # None}
<1>7. Listed' = kept \cup {code} /\ code \notin kept
  <2>1. r # None
    BY <1>3
  <2> QED
    BY <1>3, <2>1 DEF Listed
<1>8. Cardinality(Listed') <= RoomLimit
  <2>1. IsFiniteSet(kept)
    BY FS_Subset, RoomSetupAssumption DEF RoomSetupAssumption
  <2>2. Cardinality(kept) < RoomLimit
    BY DEF CreateRoom, PlaceLeft
  <2>3. Cardinality(Listed') = Cardinality(kept) + 1
    BY <1>7, <2>1, FS_AddElement
  <2>4. Cardinality(kept) \in Nat /\ RoomLimit \in Nat
    BY <2>1, FS_CardinalityType, RoomSetupAssumption DEF RoomSetupAssumption
  <2> QED
    BY <2>2, <2>3, <2>4
<1>9. TypeOK'
  <2>1. /\ worker' \in [Requests -> {"none", "read", "destroying", "done"}]
        /\ verdict' \in [Requests -> Replies]
    BY <1>1, <1>2 DEF TypeOK, Replies
  <2>2. \A c \in Listed' : asked'[rooms'[c]].code = c
    <3> SUFFICES ASSUME NEW c \in Listed'
                 PROVE  asked[rooms'[c]].code = c
      BY <1>1
    <3>1. CASE c = code
      BY <1>3, <3>1
    <3>2. CASE c # code
      BY <1>2, <1>3, <3>2 DEF TypeOK, Listed
    <3> QED
      BY <3>1, <3>2
  <2>3. rooms' \in [Codes -> Requests \cup {None}] /\ detached' \in [Requests -> Requests \cup {None}]
    BY <1>1, <1>2 DEF TypeOK, Old
  <2>4. heap' \subseteq Requests \X Blocks
    BY <1>1, <1>2 DEF TypeOK
  <2>5. cached' \subseteq Sentences
    BY <1>1, <1>2, AvailableFromFiles
  <2> QED
    BY <1>1, <1>2, <1>6, <1>8, <2>1, <2>2, <2>3, <2>4, <2>5 DEF TypeOK
<1>10. InStep' /\ Truth' /\ ReplyTruthful'
  <2>1. "ok" \in Replies /\ Decides(r, "ok")
    BY DEF Replies, CreateRoom
  <2>2. \A q \in Requests : q # r => detached'[q] = detached[q]
    BY <1>1, <1>2 DEF TypeOK
  <2> QED
    BY <1>6, <2>1, <2>2, DecisionKeeps
<1>11. /\ \A c \in Codes : Extracted(r)[c] # None =>
             worker'[Extracted(r)[c]] \in {"destroying", "done"} /\ Extracted(r)[c] # r
       /\ \A q \in Requests : detached'[q] # None =>
             /\ worker'[detached'[q]] \in {"destroying", "done"} /\ detached'[q] # r
             /\ \A c \in Codes : Extracted(r)[c] # detached'[q]
             /\ \A p \in Requests : detached'[p] = detached'[q] => p = q
       /\ ({Extracted(r)[c] : c \in Codes} \cup {detached'[q] : q \in Requests}) \ {None} = Owners
  BY <1>1, ExtractionOwned
<1>12. Owned'
  <2>1. worker'[r] = "destroying"
    BY <1>1, <1>2 DEF TypeOK
  <2>2. \A c \in Codes : rooms'[c] = r \/ rooms'[c] = Extracted(r)[c]
    BY <1>3
  <2>3. \A c \in Listed' : worker'[rooms'[c]] \in {"destroying", "done"}
    BY <1>11, <2>1, <2>2 DEF Listed
  <2> QED
    BY <1>11, <2>2, <2>3 DEF Owned
<1>13. NothingLeaked'
  <2>1. {rooms'[c] : c \in Codes} \ {None} = ({Extracted(r)[c] : c \in Codes} \ {None}) \cup {r}
    BY <1>3
  <2>2. ({rooms'[c] : c \in Codes} \cup {detached'[q] : q \in Requests}) \ {None} = Owners \cup {r}
    BY <1>3, <1>11, <2>1
  <2>3. heap = Owners \X Blocks
    BY DEF IInv, NothingLeaked, Owners
  <2>4. heap' = (Owners \cup {r}) \X Blocks
    BY <1>1, <2>3
  <2> QED
    BY <2>2, <2>4 DEF NothingLeaked
<1> QED
  BY <1>9, <1>10, <1>12, <1>13 DEF IInv

\* The room a worker has taken from the list is nobody else's: all its memory goes.
LEMMA DestroyAndReplyKeeps ==
    ASSUME IInv, NEW r \in Requests, DestroyAndReply(r)
    PROVE  IInv'
<1>1. /\ worker[r] = "destroying" /\ worker' = [worker EXCEPT ![r] = "done"]
      /\ heap' = heap \ UNION {coordinator_destroy_room(q) : q \in {detached[r]} \ {None}}
      /\ detached' = [detached EXCEPT ![r] = None]
      /\ reply' = [reply EXCEPT ![r] = verdict[r]]
      /\ UNCHANGED <<gateway, asked, answer, verdict, rooms, finished, created, input, cached>>
  BY DEF DestroyAndReply, http, text
<1>2. TypeOK /\ None \notin Requests
  BY RoomSetupAssumption DEF RoomSetupAssumption, IInv
<1>3. /\ detached' \in [Requests -> Requests \cup {None}] /\ detached'[r] = None
      /\ \A q \in Requests : q # r => detached'[q] = detached[q]
      /\ worker' \in [Requests -> {"none", "read", "destroying", "done"}] /\ worker'[r] = "done"
      /\ \A q \in Requests : q # r => worker'[q] = worker[q]
      /\ reply' \in [Requests -> Replies] /\ reply'[r] = verdict[r]
      /\ \A q \in Requests : q # r => reply'[q] = reply[q]
  BY <1>1, <1>2 DEF TypeOK
<1>4. heap' = heap \ (({detached[r]} \ {None}) \X Blocks)
  <2>1. \A q : coordinator_destroy_room(q) = {q} \X Blocks
    BY DestroysAll
  <2>2. UNION {{q} \X Blocks : q \in {detached[r]} \ {None}} = ({detached[r]} \ {None}) \X Blocks
    OBVIOUS
  <2> QED
    BY <1>1, <2>1, <2>2
<1>5. TypeOK'
  BY <1>1, <1>2, <1>3, <1>4 DEF TypeOK, Listed
<1>6. InStep'
  BY <1>1, <1>3 DEF IInv, InStep
<1>7. Truth' /\ ReplyTruthful'
  <2>1. ReplyTruthful'
    BY <1>1 DEF IInv, ReplyTruthful
  <2>2. answer[r].status # 413
    BY <1>1 DEF IInv, Truth
  <2>3. Truth'
    BY <1>1, <1>3, <2>2 DEF IInv, Truth
  <2> QED
    BY <2>1, <2>3
<1>8. Owned'
  <2>1. \A q \in Requests : worker[q] \in {"destroying", "done"} => worker'[q] \in {"destroying", "done"}
    BY <1>3
  <2>2. \A c \in Listed' : worker'[rooms'[c]] \in {"destroying", "done"}
    BY <1>1, <1>2, <2>1 DEF IInv, Owned, TypeOK, Listed
  <2>3. \A q \in Requests : detached'[q] # None => detached'[q] = detached[q] /\ detached[q] \in Requests
    BY <1>2, <1>3 DEF TypeOK
  <2> QED
    BY <1>1, <2>1, <2>2, <2>3 DEF IInv, Owned
<1>9. NothingLeaked'
  <2> DEFINE owners == ({rooms'[c] : c \in Codes} \cup {detached'[q] : q \in Requests}) \ {None}
  <2>1. heap = Owners \X Blocks
    BY DEF IInv, NothingLeaked, Owners
  <2>2. owners = Owners \ ({detached[r]} \ {None})
    <3>1. \A o : o \in owners <=> /\ o # None
                                  /\ \/ \E c \in Codes : rooms[c] = o
                                     \/ \E q \in Requests : detached'[q] = o
      BY <1>1
    <3>2. \A o : o \in Owners <=> /\ o # None
                                  /\ \/ \E c \in Codes : rooms[c] = o
                                     \/ \E q \in Requests : detached[q] = o
      BY DEF Owners
    <3>3. detached[r] # None =>
            /\ \A c \in Codes : rooms[c] # detached[r]
            /\ \A q \in Requests : detached[q] = detached[r] => q = r
      BY DEF IInv, Owned
    <3> HIDE DEF owners
    <3>4. \A o : o \in owners <=> o \in Owners /\ ~(o = detached[r] /\ o # None)
      BY <1>3, <3>1, <3>2, <3>3
    <3> QED
      BY <3>4
  <2> HIDE DEF owners
  <2>3. heap' = owners \X Blocks
    BY <1>4, <2>1, <2>2
  <2> QED
    BY <2>3 DEF NothingLeaked, owners
<1> QED
  BY <1>5, <1>6, <1>7, <1>8, <1>9 DEF IInv

\* A race that ends changes nobody's memory.
LEMMA RaceOverKeeps ==
    ASSUME IInv, NEW c \in Codes, RaceOver(c)
    PROVE  IInv'
<1>1. /\ rooms[c] \in Requests /\ finished' = finished \cup {rooms[c]}
      /\ UNCHANGED <<gateway, asked, answer, worker, verdict, reply, rooms, created, heap,
                     detached, input, cached>>
  BY DEF RaceOver, http, conn, text, IInv, TypeOK
<1>2. TypeOK'
  BY <1>1 DEF IInv, TypeOK, Listed
<1>3. InStep' /\ Truth' /\ ReplyTruthful'
  BY <1>1 DEF IInv, InStep, Truth, ReplyTruthful
<1>4. Owned' /\ NothingLeaked'
  BY <1>1 DEF IInv, Owned, NothingLeaked, Listed
<1> QED
  BY <1>2, <1>3, <1>4 DEF IInv

\* A pruned room is listed under no other code, so that its memory is nobody's.
LEMMA PruneKeeps ==
    ASSUME IInv, NEW c \in Codes, Prune(c)
    PROVE  IInv'
<1>1. /\ rooms[c] # None /\ rooms' = [rooms EXCEPT ![c] = None]
      /\ heap' = heap \ ({rooms[c]} \X Blocks)
      /\ UNCHANGED <<gateway, asked, answer, worker, verdict, reply, finished, created,
                     detached, input, cached>>
  BY DestroysAll DEF Prune, http, conn, text
<1>2. TypeOK /\ None \notin Requests
  BY RoomSetupAssumption DEF RoomSetupAssumption, IInv
<1>3. /\ rooms' \in [Codes -> Requests \cup {None}] /\ rooms'[c] = None
      /\ \A d \in Codes : d # c => rooms'[d] = rooms[d]
      /\ \A d \in Codes : d # c => rooms[d] # rooms[c]
  BY <1>1, <1>2 DEF TypeOK, Listed
<1>4. Listed' \subseteq Listed /\ \A d \in Listed' : rooms'[d] = rooms[d]
  BY <1>3 DEF Listed
<1>5. Cardinality(Listed') <= RoomLimit
  <2>1. IsFiniteSet(Listed)
    BY FS_Subset, RoomSetupAssumption DEF RoomSetupAssumption, Listed
  <2>2. /\ Cardinality(Listed') <= Cardinality(Listed)
        /\ Cardinality(Listed') \in Nat /\ Cardinality(Listed) \in Nat
    BY <1>4, <2>1, FS_Subset, FS_CardinalityType
  <2> QED
    BY <1>2, <2>2, RoomSetupAssumption DEF RoomSetupAssumption, TypeOK
<1>6. TypeOK'
  BY <1>1, <1>2, <1>3, <1>4, <1>5 DEF TypeOK
<1>7. InStep' /\ Truth' /\ ReplyTruthful'
  BY <1>1 DEF IInv, InStep, Truth, ReplyTruthful
<1>8. Owned'
  BY <1>1, <1>3, <1>4, <1>2 DEF IInv, Owned, TypeOK
<1>9. NothingLeaked'
  <2> DEFINE owners == ({rooms'[d] : d \in Codes} \cup {detached'[q] : q \in Requests}) \ {None}
  <2>1. heap = Owners \X Blocks
    BY DEF IInv, NothingLeaked, Owners
  <2>2. owners = Owners \ {rooms[c]}
    <3>1. \A o : o \in owners <=> /\ o # None
                                  /\ \/ \E d \in Codes : rooms'[d] = o
                                     \/ \E q \in Requests : detached[q] = o
      BY <1>1
    <3>2. \A o : o \in Owners <=> /\ o # None
                                  /\ \/ \E d \in Codes : rooms[d] = o
                                     \/ \E q \in Requests : detached[q] = o
      BY DEF Owners
    <3>3. \A q \in Requests : detached[q] # rooms[c]
      BY <1>1 DEF IInv, Owned
    <3> HIDE DEF owners
    <3>4. \A o : o \in owners <=> o \in Owners /\ o # rooms[c]
      BY <1>3, <3>1, <3>2, <3>3
    <3> QED
      BY <3>4
  <2> HIDE DEF owners
  <2>3. heap' = owners \X Blocks
    BY <1>1, <2>1, <2>2
  <2> QED
    BY <2>3 DEF NothingLeaked, owners
<1> QED
  BY <1>6, <1>7, <1>8, <1>9 DEF IInv

\* Every step keeps the invariant.
LEMMA Inductive == IInv /\ [Next]_vars => IInv'
<1> SUFFICES ASSUME IInv, [Next]_vars
             PROVE  IInv'
  OBVIOUS
<1>1. CASE \E r \in Requests : Post(r) \/ Gateway(r)
  BY <1>1, PostKeeps, CommandKeeps, AnsweredKeeps, RejectedKeeps DEF Gateway
<1>2. CASE \E r \in Requests : \/ CreateRefused(r) \/ NoPlace(r) \/ ConstructionFails(r)
                              \/ CreateRoom(r) \/ DestroyAndReply(r)
  BY <1>2, CreateRefusedKeeps, NoPlaceKeeps, ConstructionFailsKeeps, CreateRoomKeeps,
     DestroyAndReplyKeeps
<1>3. CASE \E c \in Codes : RaceOver(c) \/ Prune(c)
  BY <1>3, RaceOverKeeps, PruneKeeps
<1>4. CASE Edit \/ UNCHANGED vars
  <2>1. /\ input' \in Files
        /\ UNCHANGED <<gateway, asked, answer, worker, verdict, reply, rooms, finished, created,
                       heap, detached, cached>>
    BY <1>4 DEF Edit, vars, http, conn, memory, text, IInv, TypeOK
  <2>2. TypeOK' /\ InStep' /\ Truth' /\ ReplyTruthful'
    BY <2>1 DEF IInv, TypeOK, InStep, Truth, ReplyTruthful, Listed
  <2>3. Owned' /\ NothingLeaked'
    BY <2>1 DEF IInv, Owned, NothingLeaked, Listed
  <2> QED
    BY <2>2, <2>3 DEF IInv
<1> QED
  BY <1>1, <1>2, <1>3, <1>4 DEF Next, Done

-----------------------------------------------------------------------------
(* The theorems. *)

\* The invariant holds throughout.
LEMMA Invariance == Spec => []IInv
  BY Initially, Inductive, PTL DEF Spec

\* The types of the state, whatever requests come and files are read; with them, that the
\* list never holds more rooms than MAX_COORDINATOR_ROOMS, also when workers replace finished
\* rooms (the count and the construction under gCoordinatorMutex).
THEOREM TypeCorrect == Spec => []TypeOK
<1>1. IInv => TypeOK
  BY DEF IInv
<1> QED
  BY <1>1, Invariance, PTL

\* On every path that builds, replaces, prunes or fails to build a room, the memory in use is
\* that of the rooms still listed or about to be destroyed (coordinator_create_room and
\* coordinator_destroy_room with serverInit and serverDestroy).
THEOREM Leakless == Spec => []NothingLeaked
<1>1. IInv => NothingLeaked
  BY DEF IInv
<1> QED
  BY <1>1, Invariance, PTL

\* Whatever the gateway's timer overtakes, a 201, 409, 413 or 503 of the gateway is true of
\* the engine (POST /api/lobbies against CREATE).
THEOREM Truthful == Spec => []ReplyTruthful
<1>1. IInv => ReplyTruthful
  BY DEF IInv
<1> QED
  BY <1>1, Invariance, PTL

-----------------------------------------------------------------------------
(* The sentence of a room. *)

\* A usable line in which letters stand before the line end gives a sentence with a word.
LEMMA UsableLines ==
    ASSUME LinesEndOnce, NEW s \in Sentences
    PROVE  countWords(s) > 0
<1>0. PICK f \in Files : s \in SentencesOf(f)
  BY DEF Sentences
<1>1. PICK line \in f : validateLine(line) /\ s = CutAtLineEnd(line)
  BY <1>0 DEF SentencesOf
<1>2. /\ line \in Seq(STRING)
      /\ \A i, j \in DOMAIN line : i < j /\ line[i] \in {"CR", "LF"} => line[j] \in {"CR", "LF"}
  BY <1>1 DEF LinesEndOnce
<1>3. PICK k \in 1 .. Len(line) : line[k] \in Letters
  BY <1>1, <1>2 DEF validateLine
<1>4. line[k] \notin Blanks
  BY <1>3, WordsAssumption
<1>5. \A j \in 1 .. k : line[j] \notin {"CR", "LF"}
  BY <1>2, <1>4 DEF Blanks
<1>6. s \in Seq(STRING) /\ k \in 1 .. Len(s) /\ s[k] = line[k]
  <2>1. PICK cut : cut = CutAtLineEnd(line)
    OBVIOUS
  <2>2. /\ cut \in Seq(STRING) /\ \A i \in 1 .. Len(cut) : cut[i] = line[i]
        /\ \A i \in 1 .. Len(line) : (\A j \in 1 .. i : line[j] \notin {"CR", "LF"}) => i <= Len(cut)
    BY <1>2, <2>1, CutBefore
  <2>3. k <= Len(cut) /\ Len(cut) \in Nat
    BY <1>5, <2>2
  <2>4. k \in 1 .. Len(cut)
    BY <2>3
  <2> QED
    BY <1>1, <2>1, <2>2, <2>4
<1> QED
  BY <1>4, <1>6, SomeWord

\* A sentence is chosen when a room is made and stays.
LEMMA ChosenKeeps == IInv /\ Chosen /\ [Next]_vars => Chosen'
<1> SUFFICES ASSUME IInv, Chosen, [Next]_vars PROVE Chosen'
  OBVIOUS
<1>1. CASE UNCHANGED created
  BY <1>1 DEF Chosen
<1>2. ASSUME NEW r \in Requests, CreateRoom(r) PROVE Chosen'
  <2>1. PICK s \in Available :
           created' = [created EXCEPT ![r] = [size |-> EngineSize(asked[r].players), sentence |-> s]]
    BY <1>2 DEF CreateRoom
  <2>2. s \in Sentences
    BY AvailableFromFiles DEF IInv
  <2>3. created \in [Requests -> [size : 0 .. EngineMaxPlayers, sentence : {<<>>} \cup Sentences]]
    BY DEF IInv, TypeOK
  <2>4. created'[r].sentence = s /\ \A q \in Requests \ {r} : created'[q] = created[q]
    BY <2>1, <2>3
  <2> QED
    BY <2>2, <2>4 DEF Chosen
<1>3. ASSUME NEW r \in Requests, Post(r) \/ Gateway(r) \/ DestroyAndReply(r) PROVE UNCHANGED created
  BY <1>3 DEF Post, Gateway, Command, Answered, Rejected, DestroyAndReply, memory
<1>4. ASSUME NEW r \in Requests, CreateRefused(r) \/ NoPlace(r) \/ ConstructionFails(r) PROVE UNCHANGED created
  BY <1>4 DEF CreateRefused, NoPlace, ConstructionFails
<1>5. ASSUME NEW c \in Codes, RaceOver(c) \/ Prune(c) PROVE UNCHANGED created
  BY <1>5 DEF RaceOver, Prune
<1>6. CASE Edit \/ Done \/ UNCHANGED vars
  BY <1>6, <1>1 DEF Edit, Done, vars, memory
<1> QED
  BY <1>1, <1>2, <1>3, <1>4, <1>5, <1>6 DEF Next

\* A race has words to type, whatever is written into the input file while rooms are made,
\* if no line has a carriage return in front of its letters: a usable line has a letter
\* (validateLine), a letter before the cut is in a word, and countWords counts it.
THEOREM Playable == ASSUME LinesEndOnce PROVE Spec => []RoomsPlayable
<1>1. Init => Chosen
  BY DEF Init, Chosen
<1>2. Chosen => RoomsPlayable
  BY UsableLines DEF Chosen, RoomsPlayable
<1> QED
  BY <1>1, <1>2, Invariance, ChosenKeeps, PTL DEF Spec
=============================================================================
