-------------------------- MODULE EventQueueProofs --------------------------
(***************************************************************************)
(* Proofs about EventQueue for every set of producers, every capacity and  *)
(* every number of pushes.  The list is a function Nth of its places; it   *)
(* is shown to follow the pointers, then how a push and a pop move it, and *)
(* from that the inductive invariant IInv and the refinement of Channel.   *)
(***************************************************************************)
EXTENDS EventQueue, LoopProofs, SequenceTheorems

-----------------------------------------------------------------------------
(* The list as a function of its places. *)

\* f lists n nodes from h on along the pointers nx.
Chain(f, h, nx, n) ==
    /\ f \in [1 .. n -> Pointer]
    /\ \A k \in 1 .. n :
          f[k] = IF k = 1 THEN h ELSE IF f[k - 1] \in Nodes THEN nx[f[k - 1]] ELSE Null

\* From every first node and all next pointers there is a chain of every length.
LEMMA ChainOfLength ==
    ASSUME NEW h \in Pointer, NEW nx \in [Nodes -> Pointer], NEW n \in Nat
    PROVE  \E f : Chain(f, h, nx, n)
<1> DEFINE S == {m \in Nat : \E f : Chain(f, h, nx, m)}
<1>1. 0 \in S
  <2>1. Chain([k \in 1 .. 0 |-> h], h, nx, 0)
    BY DEF Chain
  <2> QED
    BY <2>1
<1>2. ASSUME NEW m \in Nat, m \in S PROVE m + 1 \in S
  <2>1. PICK f : Chain(f, h, nx, m)
    BY <1>2
  <2> DEFINE last == IF m = 0 THEN h ELSE IF f[m] \in Nodes THEN nx[f[m]] ELSE Null
             g == [k \in 1 .. m + 1 |-> IF k = m + 1 THEN last ELSE f[k]]
  <2>2. last \in Pointer
    BY DEF Pointer
  <2>3. g \in [1 .. m + 1 -> Pointer]
    BY <2>1, <2>2 DEF Chain
  <2>4. ASSUME NEW k \in 1 .. m + 1
        PROVE  g[k] = IF k = 1 THEN h ELSE IF g[k - 1] \in Nodes THEN nx[g[k - 1]] ELSE Null
    <3>1. CASE k = m + 1
      <4>1. g[k] = last
        BY <3>1
      <4>2. m # 0 => g[k - 1] = f[m]
        BY <3>1
      <4> HIDE DEF g
      <4> QED
        BY <3>1, <4>1, <4>2
    <3>2. CASE k # m + 1
      <4>1. k \in 1 .. m /\ g[k] = f[k]
        BY <3>2
      <4>2. k # 1 => g[k - 1] = f[k - 1]
        BY <4>1
      <4> HIDE DEF g
      <4> QED
        BY <2>1, <4>1, <4>2 DEF Chain
    <3> QED
      BY <3>1, <3>2
  <2>5. Chain(g, h, nx, m + 1)
    <3> HIDE DEF g
    <3> QED
      BY <2>3, <2>4 DEF Chain
  <2> QED
    BY <2>5
<1>3. Nat \subseteq S
  <2> HIDE DEF S
  <2> QED
    BY <1>1, <1>2, SetInduction
<1> QED
  BY <1>3

\* Two chains with the same pointers agree from the same node on, d places apart: what a pop
\* moves up by one and a push leaves where it is.
LEMMA ChainsAgree ==
    ASSUME NEW f, NEW g, NEW h, NEW i, NEW nx, NEW ny, NEW c \in Nat,
           Chain(f, h, nx, c), Chain(g, i, ny, c),
           NEW d \in Nat, NEW m \in Nat \ {0}, m + d <= c,
           g[1] = f[1 + d],
           \A k \in 1 .. m - 1 : f[k + d] \in Nodes => ny[f[k + d]] = nx[f[k + d]]
    PROVE  \A k \in 1 .. m : g[k] = f[k + d]
<1> DEFINE S == {k \in Nat : k \in 1 .. m => g[k] = f[k + d]}
<1>1. 0 \in S
  OBVIOUS
<1>2. ASSUME NEW k \in Nat, k \in S PROVE k + 1 \in S
  <2>1. CASE k = 0
    BY <2>1
  <2>2. CASE k # 0 /\ k + 1 <= m
    <3>1. k \in 1 .. m - 1 /\ g[k] = f[k + d]
      BY <1>2, <2>2
    <3>2. k + 1 \in 1 .. c /\ (k + 1) - 1 = k /\ k + 1 # 1
      BY <2>2
    <3>3. g[k + 1] = IF g[k] \in Nodes THEN ny[g[k]] ELSE Null
      BY <3>2 DEF Chain
    <3>4. k + 1 + d \in 1 .. c /\ (k + 1 + d) - 1 = k + d /\ k + 1 + d # 1
      BY <2>2
    <3>5. f[k + 1 + d] = IF f[k + d] \in Nodes THEN nx[f[k + d]] ELSE Null
      BY <3>4 DEF Chain
    <3>6. g[k + 1] = f[k + 1 + d]
      BY <3>1, <3>3, <3>5
    <3> QED
      BY <3>6
  <2>3. CASE ~(k + 1 <= m)
    BY <2>3
  <2> QED
    BY <2>1, <2>2, <2>3
<1>3. Nat \subseteq S
  <2> HIDE DEF S
  <2> QED
    BY <1>1, <1>2, SetInduction
<1> QED
  BY <1>3

\* A chain from the second node of another follows it one place ahead.
LEMMA ChainMovesUp ==
    ASSUME NEW f, NEW g, NEW h, NEW i, NEW nx, NEW c \in Nat, Chain(f, h, nx, c), Chain(g, i, nx, c),
           NEW m \in Nat \ {0}, m + 1 <= c, g[1] = f[2]
    PROVE  \A k \in 1 .. m : g[k] = f[k + 1]
<1>1. PICK d : d = 1
  OBVIOUS
<1>2. d \in Nat /\ m + d <= c /\ g[1] = f[1 + d]
  BY <1>1
<1>3. \A k \in 1 .. m : g[k] = f[k + d]
  BY <1>2, ChainsAgree
<1> QED
  BY <1>1, <1>3

\* The list starts at head and goes on along the next pointers.
LEMMA NthFollows ==
    ASSUME head \in Pointer, next \in [Nodes -> Pointer]
    PROVE  Chain(Nth, head, next, Capacity)
<1> DEFINE Eqn(f) == f = [k \in 1 .. Capacity |->
              IF k = 1 THEN head ELSE IF f[k - 1] \in Nodes THEN next[f[k - 1]] ELSE Null]
<1>0. Capacity \in Nat /\ Capacity >= 1
  BY EventQueueAssumption
<1>1. PICK f : Chain(f, head, next, Capacity)
  BY <1>0, ChainOfLength
<1>2. Eqn(f)
  BY <1>1 DEF Chain
<1>3. Nth = CHOOSE g : Eqn(g)
  BY DEF Nth
<1>4. Eqn(Nth)
  <2> HIDE DEF Eqn
  <2> QED
    BY <1>2, <1>3
<1>5. ASSUME NEW k \in 1 .. Capacity
      PROVE  Nth[k] = IF k = 1 THEN head ELSE IF Nth[k - 1] \in Nodes THEN next[Nth[k - 1]] ELSE Null
  BY <1>4
<1>6. ASSUME NEW k \in 1 .. Capacity PROVE Nth[k] \in Pointer
  BY <1>5 DEF Pointer
<1>7. Nth \in [1 .. Capacity -> Pointer]
  BY <1>4, <1>6
<1> QED
  BY <1>5, <1>7 DEF Chain

\* The same of the list after a step.
LEMMA NthFollowsNext ==
    ASSUME head' \in Pointer, next' \in [Nodes -> Pointer]
    PROVE  Chain(Nth', head', next', Capacity)
<1> DEFINE Eqn(f) == f = [k \in 1 .. Capacity |->
              IF k = 1 THEN head' ELSE IF f[k - 1] \in Nodes THEN next'[f[k - 1]] ELSE Null]
<1>0. Capacity \in Nat /\ Capacity >= 1
  BY EventQueueAssumption
<1>1. PICK f : Chain(f, head', next', Capacity)
  BY <1>0, ChainOfLength
<1>2. Eqn(f)
  BY <1>1 DEF Chain
<1>3. Nth' = CHOOSE g : Eqn(g)
  BY DEF Nth
<1>4. Eqn(Nth')
  <2> HIDE DEF Eqn
  <2> QED
    BY <1>2, <1>3
<1>5. ASSUME NEW k \in 1 .. Capacity
      PROVE  Nth'[k] = IF k = 1 THEN head' ELSE IF Nth'[k - 1] \in Nodes THEN next'[Nth'[k - 1]] ELSE Null
  BY <1>4
<1>6. ASSUME NEW k \in 1 .. Capacity PROVE Nth'[k] \in Pointer
  BY <1>5 DEF Pointer
<1>7. Nth' \in [1 .. Capacity -> Pointer]
  BY <1>4, <1>6
<1> QED
  BY <1>5, <1>7 DEF Chain

-----------------------------------------------------------------------------
(* How a push and a pop move the list. *)

\* The first node is there exactly if the list is not empty, and it is its first place.
LEMMA FirstNode ==
    ASSUME TypeOK, ListSound
    PROVE  /\ Capacity \in Nat \ {0} /\ count \in Nat /\ count <= Capacity
           /\ Null \notin Nodes
           /\ Chain(Nth, head, next, Capacity)
           /\ Nth[1] = head
           /\ head = Null <=> count = 0
           /\ tail = Null <=> count = 0
           /\ count # 0 => /\ head \in used /\ tail \in used /\ tail = Nth[count]
                           /\ count \in 1 .. count
<1>1. Capacity \in Nat \ {0} /\ count \in Nat /\ count <= Capacity /\ Null \notin Nodes
  BY EventQueueAssumption DEF TypeOK
<1>2. Chain(Nth, head, next, Capacity)
  BY NthFollows DEF TypeOK
<1>3. Nth[1] = head
  BY <1>1, <1>2 DEF Chain
<1>4. count # 0 => 1 \in 1 .. count /\ count \in 1 .. count
  BY <1>1
<1>5. count # 0 => head \in used /\ tail \in used /\ tail = Nth[count]
  BY <1>3, <1>4 DEF ListSound
<1>6. used \subseteq Nodes
  BY DEF TypeOK
<1>7. count = 0 => head = Null /\ tail = Null
  BY DEF ListSound
<1> QED
  BY <1>1, <1>2, <1>3, <1>4, <1>5, <1>6, <1>7

\* A push leaves every node where it is and puts the new one behind the last.
LEMMA PushedList ==
    ASSUME TypeOK, ListSound, NEW n \in Nodes \ used, NEW e \in Event, Link(n, e), count < Capacity
    PROVE  /\ count' = count + 1
           /\ \A k \in 1 .. count : Nth'[k] = Nth[k]
           /\ Nth'[count + 1] = n
           /\ head' \in Pointer /\ tail' = n /\ next'[n] = Null /\ next' \in [Nodes -> Pointer]
<1>1. /\ Capacity \in Nat \ {0} /\ count \in Nat /\ Null \notin Nodes /\ n \in Nodes
      /\ Chain(Nth, head, next, Capacity) /\ Nth[1] = head
      /\ tail = Null <=> count = 0
      /\ count # 0 => tail \in used /\ tail = Nth[count] /\ count \in 1 .. count
  BY FirstNode
<1>2. /\ count' = count + 1 /\ head' = (IF tail = Null THEN n ELSE head) /\ tail' = n
      /\ next' = [m \in Nodes |-> IF m = n THEN Null ELSE IF m = tail THEN n ELSE next[m]]
  BY DEF Link
<1>3. /\ head' \in Pointer
      /\ next' \in [Nodes -> Pointer]
      /\ next'[n] = Null
      /\ \A m \in Nodes : m # n /\ m # tail => next'[m] = next[m]
      /\ tail \in Nodes /\ tail # n => next'[tail] = n
  BY <1>1, <1>2 DEF TypeOK, Pointer
<1>4. Chain(Nth', head', next', Capacity)
  BY <1>3, NthFollowsNext
<1>5. Nth'[1] = head'
  BY <1>1, <1>4 DEF Chain
<1>6. CASE count = 0
  BY <1>1, <1>2, <1>3, <1>5, <1>6
<1>7. CASE count # 0
  <2>1. tail \in used /\ tail = Nth[count] /\ tail # Null /\ used \subseteq Nodes
    BY <1>1, <1>7 DEF TypeOK
  <2>2. Nth'[1] = Nth[1]
    BY <1>1, <1>2, <1>5, <2>1
  <2>3. ASSUME NEW k \in 1 .. count - 1 PROVE next'[Nth[k]] = next[Nth[k]]
    <3>1. k \in 1 .. count /\ k # count /\ count \in 1 .. count
      BY <1>1, <1>7
    <3>2. Nth[k] \in used /\ Nth[k] # Nth[count]
      BY <3>1 DEF ListSound
    <3> QED
      BY <1>3, <2>1, <3>2
  <2>4. \A k \in 1 .. count : Nth'[k] = Nth[k]
    <3>1. \A k \in 1 .. count : Nth'[k] = Nth[k + 0]
      <4>1. Nth'[1] = Nth[1 + 0]
        BY <2>2
      <4>2. \A k \in 1 .. count - 1 : Nth[k + 0] \in Nodes => next'[Nth[k + 0]] = next[Nth[k + 0]]
        BY <1>1, <2>3
      <4>3. count \in Nat \ {0} /\ count + 0 <= Capacity /\ Capacity \in Nat /\ 0 \in Nat
        BY <1>1, <1>7
      <4> QED
        BY <1>1, <1>4, <4>1, <4>2, <4>3, ChainsAgree
    <3> QED
      BY <1>1, <3>1
  <2>5. Nth'[count] = tail /\ next'[tail] = n
    BY <1>1, <1>3, <1>7, <2>1, <2>4
  <2>6. count + 1 \in 1 .. Capacity /\ count + 1 # 1 /\ (count + 1) - 1 = count
    BY <1>1, <1>7
  <2>7. Nth'[count + 1] = IF Nth'[count] \in Nodes THEN next'[Nth'[count]] ELSE Null
    BY <1>4, <2>6 DEF Chain
  <2> QED
    BY <1>2, <1>3, <2>1, <2>4, <2>5, <2>7
<1> QED
  BY <1>6, <1>7

\* A pop takes the first node off and moves the others up.
LEMMA TakenList ==
    ASSUME TypeOK, ListSound, PopTake
    PROVE  /\ count \in Nat \ {0} /\ count' = count - 1
           /\ \A k \in 1 .. count - 1 : Nth'[k] = Nth[k + 1]
           /\ head \in used /\ head' \in Pointer
           /\ head' = Null <=> count = 1
           /\ tail' = IF count = 1 THEN Null ELSE tail
<1>1. /\ Capacity \in Nat \ {0} /\ count \in Nat /\ Null \notin Nodes /\ count <= Capacity
      /\ Chain(Nth, head, next, Capacity) /\ Nth[1] = head
      /\ head = Null <=> count = 0
      /\ count # 0 => head \in used /\ tail = Nth[count] /\ count \in 1 .. count
  BY FirstNode
<1>2. /\ count # 0 /\ count' = count - 1 /\ head' = next[head] /\ next' = next
      /\ tail' = IF next[head] = Null THEN Null ELSE tail
  BY <1>1 DEF PopTake, TailLeft
<1>3. head \in used /\ head \in Nodes /\ next[head] \in Pointer /\ next' \in [Nodes -> Pointer]
  BY <1>1, <1>2 DEF TypeOK
<1>4. Chain(Nth', head', next', Capacity)
  BY <1>2, <1>3, NthFollowsNext
<1>5. Nth'[1] = next[head]
  BY <1>1, <1>2, <1>4 DEF Chain
<1>6. CASE count = 1
  <2>1. next[head] = Null
    BY <1>1, <1>6 DEF ListSound
  <2>2. count - 1 = 0 /\ 1 .. 0 = {}
    BY <1>6
  <2> QED
    BY <1>1, <1>2, <1>3, <1>6, <2>1, <2>2 DEF Pointer
<1>7. CASE count # 1
  <2>1. 2 \in 1 .. Capacity /\ 2 \in 1 .. count /\ 2 # 1 /\ 2 - 1 = 1
    BY <1>1, <1>2, <1>7
  <2>2. Nth[2] = next[head]
    BY <1>1, <1>3, <2>1 DEF Chain
  <2>3. next[head] \in used /\ next[head] # Null
    BY <1>1, <2>1, <2>2 DEF ListSound, TypeOK
  <2>4. \A k \in 1 .. count - 1 : Nth'[k] = Nth[k + 1]
    <3>1. Chain(Nth', head', next, Capacity)
      BY <1>2, <1>4
    <3>2. PICK m : m = count - 1
      OBVIOUS
    <3>3. m \in Nat \ {0} /\ m + 1 <= Capacity /\ Capacity \in Nat
      BY <1>1, <1>2, <1>7, <3>2
    <3>4. Nth'[1] = Nth[2]
      BY <1>5, <2>2
    <3>5. Chain(Nth, head, next, Capacity)
      BY <1>1
    <3>6. \A k \in 1 .. m : Nth'[k] = Nth[k + 1]
      BY <3>1, <3>3, <3>4, <3>5, ChainMovesUp
    <3> QED
      BY <3>2, <3>6
  <2> QED
    BY <1>1, <1>2, <1>3, <1>7, <2>3, <2>4
<1> QED
  BY <1>6, <1>7

-----------------------------------------------------------------------------
(* The invariant. *)

\* What IInv needs of the constants.
LEMMA Threads ==
    /\ Consumer # Owner /\ Consumer \notin Producers /\ Owner \notin Producers
    /\ Null \notin Nodes /\ Null \notin Producers /\ Null # Consumer /\ Null # Owner
    /\ Busy # Nothing /\ Busy \notin Event /\ Nothing \notin Event /\ Null \notin Event
    /\ Waits \subseteq {"poll", "timed", "forever"}
    /\ Capacity \in Nat \ {0} /\ Pushes \in Nat /\ Spurious \in Nat
  BY EventQueueAssumption DEF Event

\* An empty queue that nobody uses satisfies the invariant.
LEMMA InitIInv == Init => IInv
<1> SUFFICES ASSUME Init PROVE IInv
  OBVIOUS
<1>1. TypeOK
  <2>1. /\ next \in [Nodes -> Pointer] /\ event \in [Nodes -> Event \cup {Null}]
        /\ producer \in [Producers -> {"idle", "locked"}] /\ sent \in [Producers -> 0 .. Pushes]
    BY Threads DEF Init, Pointer
  <2>2. /\ mutex \in Producers \cup {Consumer, Owner, Null} /\ head \in Pointer /\ tail \in Pointer
        /\ wait \in Waits \cup {Null} /\ got \in Event \cup {Busy, Nothing} /\ used \subseteq Nodes
    BY DEF Init, Pointer
  <2>3. count \in 0 .. Capacity /\ spurious \in 0 .. Spurious
    BY Threads DEF Init
  <2>4. /\ closed \in BOOLEAN
        /\ consumer \in {"idle", "test", "asleep", "woken", "late", "take"}
        /\ owner \in {"away", "locked", "closed", "freeing", "gone"}
    BY DEF Init
  <2> QED
    BY <2>1, <2>2, <2>3, <2>4 DEF TypeOK
<1>2. Turns
  BY Threads DEF Init, Turns
<1>3. ListSound
  BY DEF Init, ListSound
<1>4. Contents
  BY DEF Init, Contents
<1> QED
  BY <1>1, <1>2, <1>3, <1>4 DEF IInv

\* What a push does with the list: nothing if the queue is closed or full.
LEMMA PushCases ==
    ASSUME IInv, NEW p \in Producers, Push(p)
    PROVE  \/ (closed \/ count >= Capacity) /\ UNCHANGED <<list, consumer>>
           \/ \E n \in Nodes \ used : \E e \in Event :
                 /\ Link(n, e) /\ e = <<p, sent[p] + 1>> /\ count < Capacity /\ ~closed
                 /\ consumer' = Signalled
<1>1. sent[p] \in 0 .. Pushes /\ sent[p] < Pushes /\ Pushes \in Nat /\ Capacity \in Nat /\ count \in Nat
  BY Threads DEF IInv, TypeOK, Turns, Push
<1>2. <<p, sent[p] + 1>> \in Event
  BY <1>1 DEF Event
<1>3. CASE closed \/ Full
  BY <1>3 DEF Push, Full
<1>4. CASE ~(closed \/ Full)
  <2>1. PICK n \in Nodes \ used : Link(n, <<p, sent[p] + 1>>)
    BY <1>4 DEF Push
  <2>2. consumer' = Signalled /\ count < Capacity /\ ~closed
    BY <1>1, <1>4 DEF Push, Full
  <2> QED
    BY <1>2, <2>1, <2>2
<1> QED
  BY <1>3, <1>4

\* Every operation leaves the fields of the queue and of the threads in their ranges.
LEMMA NextTypes == ASSUME IInv, Next PROVE TypeOK'
<1>0. TypeOK /\ Turns /\ ListSound /\ Contents
  BY DEF IInv
<1>1. ASSUME NEW p \in Producers, PushLock(p) PROVE TypeOK'
  BY <1>1, <1>0, Threads DEF PushLock, Lock, list, pops, TypeOK, Pointer
<1>2. ASSUME NEW p \in Producers, Push(p) PROVE TypeOK'
  <2>1. /\ mutex' = Null /\ producer' = [producer EXCEPT ![p] = "idle"]
        /\ sent' = [sent EXCEPT ![p] = @ + 1] /\ sent[p] < Pushes /\ p \in Producers
        /\ UNCHANGED <<closed, wait, got, owner, spurious>>
    BY <1>2, <1>0 DEF Push, Unlock, Turns
  <2>2. sent' \in [Producers -> 0 .. Pushes] /\ producer' \in [Producers -> {"idle", "locked"}]
    BY <1>0, <2>1, Threads DEF TypeOK
  <2>3. CASE UNCHANGED <<list, consumer>>
    BY <1>0, <2>1, <2>2, <2>3 DEF TypeOK, list
  <2>4. ASSUME NEW n \in Nodes \ used, NEW e \in Event, Link(n, e), count < Capacity, consumer' = Signalled
        PROVE  TypeOK'
    <3>1. count' = count + 1 /\ head' \in Pointer /\ tail' = n /\ next' \in [Nodes -> Pointer]
      BY <1>0, <2>4, PushedList
    <3>2. count' \in 0 .. Capacity /\ tail' \in Pointer
      BY <1>0, <2>4, <3>1, Threads DEF TypeOK, Pointer
    <3>3. used' \subseteq Nodes /\ event' \in [Nodes -> Event \cup {Null}]
      BY <1>0, <2>4 DEF TypeOK, Link
    <3> QED
      BY <1>0, <2>1, <2>2, <2>4, <3>1, <3>2, <3>3 DEF TypeOK, Signalled
  <2> QED
    BY <1>2, <2>3, <2>4, PushCases
<1>3. ASSUME NEW w \in Waits, PopLock(w) PROVE TypeOK'
  BY <1>3, <1>0, Threads DEF PopLock, Lock, list, pops, TypeOK, Pointer
<1>4. ASSUME PopWait PROVE TypeOK'
  BY <1>4, <1>0, Threads DEF PopWait, Unlock, list, pops, TypeOK, Pointer
<1>5. ASSUME PopTimeout PROVE TypeOK'
  BY <1>5, <1>0, Threads DEF PopTimeout, list, pops, TypeOK, Pointer
<1>6. ASSUME WakeUnasked PROVE TypeOK'
  BY <1>6, <1>0, Threads DEF WakeUnasked, list, pops, TypeOK, Pointer
<1>7. ASSUME PopRelock PROVE TypeOK'
  BY <1>7, <1>0, Threads DEF PopRelock, Lock, Resume, list, pops, TypeOK, Pointer
<1>8. ASSUME PopNothing PROVE TypeOK'
  BY <1>8, <1>0, Threads DEF PopNothing, Unlock, list, pops, TypeOK, Pointer
<1>9. ASSUME PopTake PROVE TypeOK'
  <2>1. /\ count \in Nat \ {0} /\ count' = count - 1 /\ head \in used /\ head' \in Pointer
        /\ tail' = IF count = 1 THEN Null ELSE tail
    BY <1>0, <1>9, TakenList
  <2>2. tail' \in Pointer /\ count' \in 0 .. Capacity
    BY <1>0, <2>1, Threads DEF TypeOK, Pointer
  <2>3. got' \in Event
    BY <1>0, <1>9, <2>1 DEF PopTake, Contents
  <2> QED
    BY <1>0, <1>9, <2>1, <2>2, <2>3 DEF PopTake, Unlock, TypeOK
<1>10. ASSUME CloseLock PROVE TypeOK'
  BY <1>10, <1>0, Threads DEF CloseLock, Lock, list, pops, TypeOK, Pointer
<1>11. ASSUME Close PROVE TypeOK'
  BY <1>11, <1>0, Threads DEF Close, Unlock, Signalled, list, pops, TypeOK, Pointer
<1>12. ASSUME DestroyLock PROVE TypeOK'
  BY <1>12, <1>0, Threads DEF DestroyLock, Lock, list, pops, TypeOK, Pointer
<1>13. ASSUME Destroy PROVE TypeOK'
  BY <1>13, <1>0, Threads DEF Destroy, Unlock, list, pops, TypeOK, Pointer
<1>14. ASSUME UNCHANGED vars PROVE TypeOK'
  BY <1>14, <1>0, Threads DEF vars, list, pops, TypeOK, Pointer
<1> QED
  BY <1>1, <1>2, <1>3, <1>4, <1>5, <1>6, <1>7, <1>8, <1>9, <1>10, <1>11, <1>12, <1>13, <1>14 DEF Next, Producer, Pop

\* Every operation takes and gives the mutex in turn, and a pop knows why it stopped waiting.
LEMMA NextTurns == ASSUME IInv, Next PROVE Turns'
<1>0. TypeOK /\ Turns /\ ListSound /\ Contents
  BY DEF IInv
<1>1. ASSUME NEW p \in Producers, PushLock(p) PROVE Turns'
  BY <1>1, <1>0, Threads DEF PushLock, Lock, list, pops, TypeOK, Turns
<1>2. ASSUME NEW p \in Producers, Push(p) PROVE Turns'
  <2>1. consumer' = consumer \/ consumer' = Signalled
    BY <1>2 DEF Push
  <2> QED
    BY <1>0, <1>2, <2>1, Threads DEF Push, Unlock, Signalled, TypeOK, Turns
<1>3. ASSUME NEW w \in Waits, PopLock(w) PROVE Turns'
  BY <1>3, <1>0, Threads DEF PopLock, Lock, list, pops, TypeOK, Turns
<1>4. ASSUME PopWait PROVE Turns'
  BY <1>4, <1>0, Threads DEF PopWait, Unlock, list, pops, TypeOK, Turns
<1>5. ASSUME PopTimeout PROVE Turns'
  BY <1>5, <1>0, Threads DEF PopTimeout, list, pops, TypeOK, Turns
<1>6. ASSUME WakeUnasked PROVE Turns'
  BY <1>6, <1>0, Threads DEF WakeUnasked, list, pops, TypeOK, Turns
<1>7. ASSUME PopRelock PROVE Turns'
  BY <1>7, <1>0, Threads DEF PopRelock, Lock, Resume, list, pops, TypeOK, Turns
<1>8. ASSUME PopNothing PROVE Turns'
  BY <1>8, <1>0, Threads DEF PopNothing, Unlock, list, pops, TypeOK, Turns
<1>9. ASSUME PopTake PROVE Turns'
  <2>1. head \in used
    BY <1>0, <1>9, TakenList
  <2>2. got' \in Event
    BY <1>0, <1>9, <2>1 DEF PopTake, Contents
  <2> QED
    BY <1>0, <1>9, <2>2, Threads DEF PopTake, Unlock, TypeOK, Turns
<1>10. ASSUME CloseLock PROVE Turns'
  BY <1>10, <1>0, Threads DEF CloseLock, Lock, list, pops, TypeOK, Turns
<1>11. ASSUME Close PROVE Turns'
  BY <1>11, <1>0, Threads DEF Close, Unlock, Signalled, list, pops, TypeOK, Turns
<1>12. ASSUME DestroyLock PROVE Turns'
  BY <1>12, <1>0, Threads DEF DestroyLock, Lock, list, pops, TypeOK, Turns
<1>13. ASSUME Destroy PROVE Turns'
  BY <1>13, <1>0, Threads DEF Destroy, Unlock, list, pops, TypeOK, Turns
<1>14. ASSUME UNCHANGED vars PROVE Turns'
  BY <1>14, <1>0, Threads DEF vars, list, pops, TypeOK, Turns
<1> QED
  BY <1>1, <1>2, <1>3, <1>4, <1>5, <1>6, <1>7, <1>8, <1>9, <1>10, <1>11, <1>12, <1>13, <1>14 DEF Next, Producer, Pop

\* A step that leaves the list alone leaves it sound.
LEMMA ListAlone ==
    ASSUME ListSound, Contents, UNCHANGED list
    PROVE  ListSound' /\ Contents' /\ Nth' = Nth
<1>1. Nth' = Nth
  BY DEF list, Nth
<1>2. ListSound'
  BY <1>1 DEF list, ListSound
<1> QED
  BY <1>1, <1>2 DEF list, Contents

\* A new node behind the last leaves the list sound.
LEMMA PushKeepsList ==
    ASSUME TypeOK, ListSound, Contents, NEW n \in Nodes \ used, NEW e \in Event, Link(n, e), count < Capacity
    PROVE  ListSound' /\ Contents'
<1>1. /\ count' = count + 1
      /\ \A k \in 1 .. count : Nth'[k] = Nth[k]
      /\ Nth'[count + 1] = n
      /\ tail' = n /\ next'[n] = Null
  BY PushedList
<1>2. count \in Nat /\ used \subseteq Nodes /\ used' = used \cup {n} /\ n \notin used
      /\ event \in [Nodes -> Event \cup {Null}] /\ event' = [event EXCEPT ![n] = e]
  BY DEF TypeOK, Link
<1>3. ASSUME NEW k \in 1 .. count'
      PROVE  (k \in 1 .. count /\ Nth'[k] = Nth[k]) \/ (k = count + 1 /\ Nth'[k] = n)
  BY <1>1, <1>2
<1>4. \A k \in 1 .. count : Nth[k] \in used
  BY DEF ListSound
<1>5. \A k \in 1 .. count' : Nth'[k] \in used'
  BY <1>2, <1>3, <1>4
<1>6. ASSUME NEW j \in 1 .. count', NEW k \in 1 .. count', Nth'[j] = Nth'[k] PROVE j = k
  BY <1>2, <1>3, <1>4, <1>6 DEF ListSound
<1>7. used' = {Nth'[k] : k \in 1 .. count'}
  <2>1. ASSUME NEW m \in used' PROVE \E k \in 1 .. count' : m = Nth'[k]
    <3>1. CASE m = n
      BY <1>1, <1>2, <3>1
    <3>2. CASE m # n
      <4>1. PICK k \in 1 .. count : m = Nth[k]
        BY <1>2, <3>2 DEF ListSound
      <4> QED
        BY <1>1, <1>2, <4>1
    <3> QED
      BY <3>1, <3>2
  <2> QED
    BY <1>5, <2>1
<1>8. count' # 0 /\ tail' = Nth'[count'] /\ next'[tail'] = Null
  BY <1>1, <1>2
<1>9. ListSound'
  BY <1>5, <1>6, <1>7, <1>8 DEF ListSound
<1>10. Contents'
  BY <1>2 DEF Contents
<1> QED
  BY <1>9, <1>10

\* The list without its first node is sound.
LEMMA TakeKeepsList ==
    ASSUME TypeOK, ListSound, Contents, PopTake
    PROVE  ListSound' /\ Contents'
<1>1. /\ count \in Nat \ {0} /\ count' = count - 1
      /\ \A k \in 1 .. count - 1 : Nth'[k] = Nth[k + 1]
      /\ head \in used
      /\ head' = Null <=> count = 1
      /\ tail' = IF count = 1 THEN Null ELSE tail
  BY TakenList
<1>2. Nth[1] = head
  BY FirstNode
<1>3. used' = used \ {head} /\ next' = next /\ event' = event
  BY DEF PopTake
<1>4. ASSUME NEW k \in 1 .. count'
      PROVE  k + 1 \in 1 .. count /\ k + 1 # 1 /\ 1 \in 1 .. count /\ Nth'[k] = Nth[k + 1]
  BY <1>1
<1>5. \A k \in 1 .. count' : Nth'[k] \in used'
  BY <1>2, <1>3, <1>4 DEF ListSound
<1>6. ASSUME NEW j \in 1 .. count', NEW k \in 1 .. count', Nth'[j] = Nth'[k] PROVE j = k
  <2>1. j + 1 = k + 1
    BY <1>4, <1>6 DEF ListSound
  <2> QED
    BY <1>1, <2>1
<1>7. used' = {Nth'[k] : k \in 1 .. count'}
  <2>1. ASSUME NEW m \in used' PROVE \E k \in 1 .. count' : m = Nth'[k]
    <3>1. PICK k \in 1 .. count : m = Nth[k]
      BY <1>3 DEF ListSound
    <3>2. k # 1
      BY <1>2, <1>3, <3>1
    <3>3. k - 1 \in 1 .. count' /\ (k - 1) + 1 = k
      BY <1>1, <3>2
    <3> QED
      BY <1>4, <3>1, <3>3
  <2> QED
    BY <1>5, <2>1
<1>8. IF count' = 0 THEN head' = Null /\ tail' = Null ELSE tail' = Nth'[count'] /\ next'[tail'] = Null
  <2>1. CASE count = 1
    BY <1>1, <2>1
  <2>2. CASE count # 1
    <3>1. tail' = tail /\ tail = Nth[count] /\ next[tail] = Null
      BY <1>1, <2>2 DEF ListSound
    <3>2. count' \in 1 .. count' /\ count' + 1 = count /\ count' # 0
      BY <1>1, <2>2
    <3> QED
      BY <1>3, <1>4, <3>1, <3>2
  <2> QED
    BY <2>1, <2>2
<1>9. ListSound'
  BY <1>5, <1>6, <1>7, <1>8 DEF ListSound
<1>10. Contents'
  BY <1>3 DEF Contents
<1> QED
  BY <1>9, <1>10

\* Every operation leaves the list sound.
LEMMA NextList == ASSUME IInv, Next PROVE ListSound' /\ Contents'
<1>0. TypeOK /\ Turns /\ ListSound /\ Contents
  BY DEF IInv
<1>1. ASSUME NEW p \in Producers, PushLock(p) PROVE ListSound' /\ Contents'
  BY <1>0, <1>1, ListAlone DEF PushLock
<1>2. ASSUME NEW p \in Producers, Push(p) PROVE ListSound' /\ Contents'
  <2>1. CASE UNCHANGED <<list, consumer>>
    BY <1>0, <2>1, ListAlone
  <2>2. ASSUME NEW n \in Nodes \ used, NEW e \in Event, Link(n, e), count < Capacity
        PROVE  ListSound' /\ Contents'
    BY <1>0, <2>2, PushKeepsList
  <2> QED
    BY <1>2, <2>1, <2>2, PushCases
<1>3. ASSUME NEW w \in Waits, PopLock(w) PROVE ListSound' /\ Contents'
  BY <1>0, <1>3, ListAlone DEF PopLock
<1>4. ASSUME PopWait PROVE ListSound' /\ Contents'
  BY <1>0, <1>4, ListAlone DEF PopWait
<1>5. ASSUME PopTimeout PROVE ListSound' /\ Contents'
  BY <1>0, <1>5, ListAlone DEF PopTimeout
<1>6. ASSUME WakeUnasked PROVE ListSound' /\ Contents'
  BY <1>0, <1>6, ListAlone DEF WakeUnasked
<1>7. ASSUME PopRelock PROVE ListSound' /\ Contents'
  BY <1>0, <1>7, ListAlone DEF PopRelock
<1>8. ASSUME PopNothing PROVE ListSound' /\ Contents'
  BY <1>0, <1>8, ListAlone DEF PopNothing
<1>9. ASSUME PopTake PROVE ListSound' /\ Contents'
  BY <1>0, <1>9, TakeKeepsList
<1>10. ASSUME CloseLock PROVE ListSound' /\ Contents'
  BY <1>0, <1>10, ListAlone DEF CloseLock
<1>11. ASSUME Close PROVE ListSound' /\ Contents'
  BY <1>0, <1>11, ListAlone DEF Close
<1>12. ASSUME DestroyLock PROVE ListSound' /\ Contents'
  BY <1>0, <1>12, ListAlone DEF DestroyLock
<1>13. ASSUME Destroy PROVE ListSound' /\ Contents'
  <2>1. used' = {} /\ head' = Null /\ tail' = Null /\ count' = 0
    BY <1>13 DEF Destroy
  <2> QED
    BY <2>1 DEF ListSound, Contents
<1>14. ASSUME UNCHANGED vars PROVE ListSound' /\ Contents'
  BY <1>0, <1>14, ListAlone DEF vars
<1> QED
  BY <1>1, <1>2, <1>3, <1>4, <1>5, <1>6, <1>7, <1>8, <1>9, <1>10, <1>11, <1>12, <1>13, <1>14 DEF Next, Producer, Pop

\* The invariant is inductive.
LEMMA NextIInv == ASSUME IInv, [Next]_vars PROVE IInv'
<1>1. CASE Next
  BY <1>1, NextTypes, NextTurns, NextList DEF IInv
<1>2. CASE UNCHANGED vars
  <2>1. TypeOK'
    BY <1>2 DEF IInv, TypeOK, vars, list, pops
  <2>2. Turns'
    BY <1>2 DEF IInv, Turns, vars, list, pops
  <2>3. ListSound' /\ Contents'
    BY <1>2, ListAlone DEF IInv, vars
  <2> QED
    BY <2>1, <2>2, <2>3 DEF IInv
<1> QED
  BY <1>1, <1>2

\* IInv holds at every moment: who has the mutex of the queue, what a pop knows after its
\* wait, and that the list is sound and every node of it carries an event.
THEOREM Invariance == Spec => []IInv
<1>1. IInv /\ [Next]_vars => IInv'
  BY NextIInv
<1> QED
  BY <1>1, InitIInv, PTL DEF Spec

\* The fields of the queue stay in their ranges: event_queue_push never takes more than
\* MAX_EVENT_QUEUE_CAPACITY events.
THEOREM TypeCorrect == Spec => []TypeOK
<1>1. IInv => TypeOK
  BY DEF IInv
<1> QED
  BY <1>1, Invariance, PTL

\* The list event_queue_push and event_queue_pop keep by hand is sound: count nodes from the
\* head on, each of them allocated and met once, the last the tail, and no node lost.
THEOREM ListIsSound == Spec => []ListSound
<1>1. IInv => ListSound
  BY DEF IInv
<1> QED
  BY <1>1, Invariance, PTL

-----------------------------------------------------------------------------
(* The queue is a channel. *)

\* The events in the queue, in their order: what Service calls items.
Items == [k \in 1 .. count |-> event[Nth[k]]]

\* A function of the first c numbers is a sequence of length c, and empty exactly if c is 0.
LEMMA AsSequence ==
    ASSUME NEW S, NEW c \in Nat, NEW s \in [1 .. c -> S]
    PROVE  s \in Seq(S) /\ Len(s) = c /\ (s = <<>> <=> c = 0)
<1>1. s \in Seq(S)
  BY SeqDef
<1>2. DOMAIN s = 1 .. Len(s) /\ Len(s) \in Nat
  BY <1>1, LenProperties
<1>3. Len(s) = c
  BY <1>2
<1>4. s = <<>> <=> Len(s) = 0
  BY <1>1, EmptySeq
<1> QED
  BY <1>1, <1>3, <1>4

\* One more element behind the others is an Append.
LEMMA IsAppend ==
    ASSUME NEW S, NEW c \in Nat, NEW s \in [1 .. c -> S], NEW t \in [1 .. c + 1 -> S],
           \A k \in 1 .. c : t[k] = s[k]
    PROVE  t = Append(s, t[c + 1])
<1>1. s \in Seq(S) /\ Len(s) = c /\ t \in Seq(S) /\ Len(t) = c + 1 /\ t[c + 1] \in S
  BY AsSequence
<1> DEFINE u == Append(s, t[c + 1])
<1>2. u \in Seq(S) /\ Len(u) = c + 1 /\ u[c + 1] = t[c + 1] /\ \A k \in 1 .. c : u[k] = s[k]
  BY <1>1, AppendProperties
<1>3. \A k \in 1 .. c + 1 : u[k] = t[k]
  BY <1>2
<1> HIDE DEF u
<1>4. u = t
  BY <1>1, <1>2, <1>3, SeqEqual
<1> QED
  BY <1>4 DEF u

\* The elements moved up by one are the Tail.
LEMMA IsTail ==
    ASSUME NEW S, NEW c \in Nat \ {0}, NEW s \in [1 .. c -> S], NEW t \in [1 .. c - 1 -> S],
           \A k \in 1 .. c - 1 : t[k] = s[k + 1]
    PROVE  s # <<>> /\ Head(s) = s[1] /\ t = Tail(s)
<1>1. s \in Seq(S) /\ Len(s) = c /\ s # <<>>
  BY AsSequence
<1>2. c - 1 \in Nat
  OBVIOUS
<1>3. t \in Seq(S) /\ Len(t) = c - 1
  BY <1>2, AsSequence
<1>4. /\ Head(s) = s[1] /\ Tail(s) \in Seq(S) /\ Len(Tail(s)) = c - 1
      /\ \A k \in 1 .. c - 1 : Tail(s)[k] = s[k + 1]
  BY <1>1, HeadTailProperties
<1>5. t = Tail(s)
  BY <1>3, <1>4, SeqEqual
<1> QED
  BY <1>1, <1>4, <1>5

\* The queue holds events, before a step and after it.
LEMMA ItemsAreEvents ==
    /\ IInv => count \in Nat /\ Items \in [1 .. count -> Event]
    /\ IInv' => count' \in Nat /\ Items' \in [1 .. count' -> Event]
<1>1. ASSUME IInv PROVE count \in Nat /\ Items \in [1 .. count -> Event]
  <2>1. \A k \in 1 .. count : event[Nth[k]] \in Event
    BY <1>1 DEF IInv, ListSound, Contents
  <2> QED
    BY <1>1, <2>1, Threads DEF IInv, TypeOK, Items
<1>2. ASSUME IInv' PROVE count' \in Nat /\ Items' \in [1 .. count' -> Event]
  <2>1. \A k \in 1 .. count' : event'[Nth'[k]] \in Event
    BY <1>2 DEF IInv, ListSound, Contents
  <2> QED
    BY <1>2, <2>1, Threads DEF IInv, TypeOK, Items
<1> QED
  BY <1>1, <1>2

\* A step that leaves the list alone leaves its events alone.
LEMMA ItemsAlone == ASSUME UNCHANGED list PROVE Items' = Items
<1>1. Nth' = Nth
  BY DEF list, Nth
<1> QED
  BY <1>1 DEF list, Items

\* A push appends its event.
LEMMA PushAppends ==
    ASSUME IInv, IInv', NEW n \in Nodes \ used, NEW e \in Event, Link(n, e), count < Capacity
    PROVE  Items' = Append(Items, e)
<1>1. /\ count' = count + 1
      /\ \A k \in 1 .. count : Nth'[k] = Nth[k]
      /\ Nth'[count + 1] = n
  BY PushedList DEF IInv
<1>2. event' = [event EXCEPT ![n] = e] /\ event \in [Nodes -> Event \cup {Null}] /\ n \notin used
  BY DEF Link, IInv, TypeOK
<1>3. \A k \in 1 .. count : Nth[k] \in used /\ Nth[k] \in Nodes
  BY DEF IInv, ListSound, TypeOK
<1>4. count \in Nat /\ Items \in [1 .. count -> Event] /\ Items' \in [1 .. count + 1 -> Event]
  BY <1>1, ItemsAreEvents
<1>5. \A k \in 1 .. count : Items'[k] = Items[k]
  BY <1>1, <1>2, <1>3, <1>4 DEF Items
<1>6. Items'[count + 1] = e
  BY <1>1, <1>2, <1>4 DEF Items
<1> HIDE DEF Items
<1> QED
  BY <1>4, <1>5, <1>6, IsAppend

\* A pop returns the first event and leaves the rest.
LEMMA TakeIsFirst ==
    ASSUME IInv, IInv', PopTake
    PROVE  Items # <<>> /\ got' = Head(Items) /\ Items' = Tail(Items)
<1>1. /\ count \in Nat \ {0} /\ count' = count - 1
      /\ \A k \in 1 .. count - 1 : Nth'[k] = Nth[k + 1]
  BY TakenList DEF IInv
<1>2. Nth[1] = head
  BY FirstNode DEF IInv
<1>3. got' = event[head] /\ event' = event
  BY DEF PopTake
<1>4. Items \in [1 .. count -> Event] /\ Items' \in [1 .. count - 1 -> Event]
  BY <1>1, ItemsAreEvents
<1>5. \A k \in 1 .. count - 1 : Items'[k] = Items[k + 1]
  BY <1>1, <1>3 DEF Items
<1>6. got' = Items[1]
  BY <1>1, <1>2, <1>3 DEF Items
<1> QED
  BY <1>1, <1>4, <1>5, <1>6, IsTail

\* The queue starts as an empty channel.
LEMMA InitChannel == Init => Service!ChannelInit
<1> SUFFICES ASSUME Init PROVE Service!ChannelInit
  OBVIOUS
<1>1. Items = <<>>
  <2>1. Items \in [1 .. 0 -> Event]
    BY DEF Init, Items
  <2> QED
    BY <2>1, AsSequence
<1>2. wait # "forever"
  BY EventQueueAssumption DEF Init
<1> QED
  BY <1>1, <1>2 DEF Init, Items, Service!ChannelInit

\* Every step of the queue is a step of the channel, or none.
LEMMA NextChannel ==
    ASSUME IInv, IInv', [Next]_vars
    PROVE  [Service!ChannelNext]_(Service!channelVars)
<1>0. TypeOK /\ Turns /\ ListSound /\ Contents
  BY DEF IInv
<1>20. count \in Nat /\ Len(Items) = count /\ (Items = <<>> <=> count = 0)
  BY ItemsAreEvents, AsSequence
<1>21. head = Null <=> count = 0
  BY <1>0, FirstNode
<1>22. ASSUME UNCHANGED <<list, closed, sent, wait, got>>
       PROVE  [Service!ChannelNext]_(Service!channelVars)
  <2>1. Items' = Items
    BY <1>22, ItemsAlone
  <2> QED
    BY <1>22, <2>1 DEF Items, Service!channelVars
<1>1. ASSUME NEW p \in Producers, PushLock(p) PROVE [Service!ChannelNext]_(Service!channelVars)
  BY <1>1, <1>22 DEF PushLock, pops
<1>2. ASSUME NEW p \in Producers, Push(p) PROVE [Service!ChannelNext]_(Service!channelVars)
  <2>1. /\ sent' = [sent EXCEPT ![p] = @ + 1] /\ sent'[p] = sent[p] + 1
        /\ UNCHANGED <<closed, wait, got>>
    BY <1>0, <1>2 DEF Push, TypeOK
  <2>2. Items' = IF closed \/ Len(Items) >= Capacity THEN Items ELSE Append(Items, <<p, sent'[p]>>)
    <3>1. CASE (closed \/ count >= Capacity) /\ UNCHANGED <<list, consumer>>
      <4>1. Items' = Items
        BY <3>1, ItemsAlone
      <4> QED
        BY <1>20, <3>1, <4>1
    <3>2. ASSUME NEW n \in Nodes \ used, NEW e \in Event, Link(n, e), e = <<p, sent[p] + 1>>,
                 count < Capacity, ~closed
          PROVE  ~(closed \/ Len(Items) >= Capacity) /\ Items' = Append(Items, <<p, sent'[p]>>)
      <4>1. Items' = Append(Items, e)
        BY <3>2, PushAppends
      <4>2. ~(closed \/ Len(Items) >= Capacity)
        BY <1>20, <3>2, Threads
      <4> QED
        BY <2>1, <3>2, <4>1, <4>2
    <3> QED
      BY <1>2, <3>1, <3>2, PushCases
  <2>3. Service!Send(p)
    BY <2>1, <2>2 DEF Items, Service!Send
  <2> QED
    BY <2>3 DEF Service!ChannelNext
<1>3. ASSUME NEW w \in Waits, PopLock(w) PROVE [Service!ChannelNext]_(Service!channelVars)
  <2>1. got # Busy /\ got' = Busy /\ wait' = w /\ UNCHANGED <<list, closed, sent>>
    BY <1>0, <1>3 DEF PopLock, Turns
  <2>2. Items' = Items
    BY <2>1, ItemsAlone
  <2>3. Service!Ask
    BY <2>1, <2>2 DEF Items, Service!Ask
  <2> QED
    BY <2>3 DEF Service!ChannelNext
<1>4. ASSUME PopWait PROVE [Service!ChannelNext]_(Service!channelVars)
  BY <1>4, <1>22 DEF PopWait
<1>5. ASSUME PopTimeout PROVE [Service!ChannelNext]_(Service!channelVars)
  BY <1>5, <1>22 DEF PopTimeout
<1>6. ASSUME WakeUnasked PROVE [Service!ChannelNext]_(Service!channelVars)
  BY <1>6, <1>22 DEF WakeUnasked
<1>7. ASSUME PopRelock PROVE [Service!ChannelNext]_(Service!channelVars)
  BY <1>7, <1>22 DEF PopRelock
<1>8. ASSUME PopNothing PROVE [Service!ChannelNext]_(Service!channelVars)
  <2>1. /\ got = Busy /\ got' = Nothing /\ count = 0
        /\ UNCHANGED <<list, closed, sent, wait>>
    BY <1>0, <1>21, <1>8 DEF PopNothing, Turns
  <2>2. wait = "forever" => closed
    BY <1>0, <1>8 DEF PopNothing, Turns
  <2>3. Items = <<>> /\ Items' = Items
    BY <1>20, <2>1, ItemsAlone
  <2>4. Service!GiveUp
    BY <2>1, <2>2, <2>3 DEF Items, Service!GiveUp
  <2> QED
    BY <2>4 DEF Service!ChannelNext
<1>9. ASSUME PopTake PROVE [Service!ChannelNext]_(Service!channelVars)
  <2>1. got = Busy /\ UNCHANGED <<closed, sent, wait>>
    BY <1>0, <1>9 DEF PopTake, Turns
  <2>2. Items # <<>> /\ got' = Head(Items) /\ Items' = Tail(Items)
    BY <1>9, TakeIsFirst
  <2>3. Service!Give
    BY <2>1, <2>2 DEF Items, Service!Give
  <2> QED
    BY <2>3 DEF Service!ChannelNext
<1>10. ASSUME CloseLock PROVE [Service!ChannelNext]_(Service!channelVars)
  BY <1>10, <1>22 DEF CloseLock, pops
<1>11. ASSUME Close PROVE [Service!ChannelNext]_(Service!channelVars)
  <2>1. closed' = TRUE /\ UNCHANGED <<list, sent, got, wait>>
    BY <1>11 DEF Close
  <2>2. Items' = Items
    BY <2>1, ItemsAlone
  <2>3. Service!Shut
    BY <2>1, <2>2 DEF Items, Service!Shut
  <2> QED
    BY <2>3 DEF Service!ChannelNext
<1>12. ASSUME DestroyLock PROVE [Service!ChannelNext]_(Service!channelVars)
  BY <1>12, <1>22 DEF DestroyLock, pops
<1>13. ASSUME Destroy PROVE [Service!ChannelNext]_(Service!channelVars)
  <2>1. got # Busy /\ closed' = TRUE /\ count' = 0 /\ UNCHANGED <<sent, got, wait>>
    BY <1>0, <1>13 DEF Destroy, Turns, pops
  <2>2. Items' = <<>>
    BY <2>1, ItemsAreEvents, AsSequence
  <2>3. Service!Discard
    BY <2>1, <2>2 DEF Items, Service!Discard
  <2> QED
    BY <2>3 DEF Service!ChannelNext
<1>14. ASSUME UNCHANGED vars PROVE [Service!ChannelNext]_(Service!channelVars)
  BY <1>14, <1>22 DEF vars, pops
<1> QED
  BY <1>1, <1>2, <1>3, <1>4, <1>5, <1>6, <1>7, <1>8, <1>9, <1>10, <1>11, <1>12, <1>13, <1>14 DEF Next, Producer, Pop

\* The linked list under its mutex is the channel Race takes the queue for: event_queue_pop
\* returns the events event_queue_push took in the order it took them, a push drops its event
\* only when the queue is closed or full, and a pop that may wait for ever returns without an
\* event only when the queue is closed.
THEOREM ImplementsChannel == Spec => KeepsChannel
<1>1. IInv /\ IInv' /\ [Next]_vars => [Service!ChannelNext]_(Service!channelVars)
  BY NextChannel
<1> QED
  BY <1>1, InitChannel, Invariance, PTL DEF Spec, KeepsChannel, Service!ChannelSpec
=============================================================================
