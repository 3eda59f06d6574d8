----------------------------- MODULE EventQueue -----------------------------
(***************************************************************************)
(* The event queue (eventQueue.c) at the level of its mutex, its condition *)
(* variable and its linked list: many producers (the readers), one         *)
(* consumer (the hub), and a thread that closes and destroys it.  Module   *)
(* Race uses each of these operations as one step; this module shows why   *)
(* it may.                                                                 *)
(*                                                                         *)
(* Taking the mutex is one step and what is done under it another.  A      *)
(* wait may end without a signal.  Allocation of a node does not fail.     *)
(*                                                                         *)
(* A definition whose comment starts with "Fault:" is no part of the       *)
(* specification: it is a plausible mistake in the one that follows.       *)
(***************************************************************************)
EXTENDS Integers, Sequences, FiniteSets

CONSTANTS
    Producers, Consumer, Owner,   \* the threads; Owner is coordinator_destroy_room's
    Nodes,          \* memory for EventNodes
    Capacity,       \* MAX_EVENT_QUEUE_CAPACITY
    Waits,          \* how long pops wait: timeout_ms = 0 "poll", > 0 "timed", < 0 "forever"
    Null,
    Busy, Nothing,  \* a pop that has not returned, and what one without an event returns
    Pushes,         \* bound: pushes of each producer
    Spurious        \* bound: wakeups without a signal

ASSUME EventQueueAssumption ==
    /\ IsFiniteSet(Nodes) /\ IsFiniteSet(Producers)
    /\ Consumer # Owner /\ Producers \cap {Consumer, Owner} = {}
    /\ Null \notin Nodes \cup Producers \cup {Consumer, Owner}
    /\ Busy # Nothing /\ {Busy, Nothing, Null} \cap (Producers \X (1 .. Pushes)) = {}
    /\ Waits \subseteq {"poll", "timed", "forever"} /\ Null \notin {"poll", "timed", "forever"}
    /\ Capacity \in Nat \ {0} /\ Cardinality(Nodes) >= Capacity
    /\ Pushes \in Nat /\ Spurious \in Nat

VARIABLES
    mutex,          \* who holds q->mutex
    \* EventQueue and its EventNodes
    head, tail, count, closed,
    next, event,
    used,           \* nodes allocated and not freed
    \* the threads
    producer,       \* where each push is
    sent,           \* pushes each producer has made
    consumer,       \* where the pop is
    wait,           \* its timeout
    got,            \* what it returned: Busy while it runs
    owner,          \* how far the owner of the queue is
    spurious        \* wakeups without a signal so far

list == <<head, tail, count, next, event, used>>
pops == <<consumer, wait, got>>

vars == <<mutex, list, closed, producer, sent, pops, owner, spurious>>

Pointer == Nodes \cup {Null}
Event == Producers \X (1 .. Pushes)

TypeOK ==
    /\ mutex \in Producers \cup {Consumer, Owner, Null}
    /\ head \in Pointer /\ tail \in Pointer
    /\ count \in 0 .. Capacity
    /\ closed \in BOOLEAN
    /\ next \in [Nodes -> Pointer] /\ event \in [Nodes -> Event \cup {Null}]
    /\ used \subseteq Nodes
    /\ producer \in [Producers -> {"idle", "locked"}]
    /\ sent \in [Producers -> 0 .. Pushes]
    /\ consumer \in {"idle", "test", "asleep", "woken", "late", "take"}
    /\ wait \in Waits \cup {Null}
    /\ got \in Event \cup {Busy, Nothing}
    /\ owner \in {"away", "locked", "closed", "freeing", "gone"}
    /\ spurious \in 0 .. Spurious

Init ==
    /\ mutex = Null
    /\ head = Null /\ tail = Null /\ count = 0 /\ closed = FALSE
    /\ next = [n \in Nodes |-> Null] /\ event = [n \in Nodes |-> Null]
    /\ used = {}
    /\ producer = [p \in Producers |-> "idle"]
    /\ sent = [p \in Producers |-> 0]
    /\ consumer = "idle" /\ wait = Null /\ got = Nothing
    /\ owner = "away"
    /\ spurious = 0

Lock(a) == mutex = Null /\ mutex' = a
Unlock(a) == mutex = a /\ mutex' = Null

-----------------------------------------------------------------------------
(* event_queue_push. *)

PushLock(p) ==
    /\ producer[p] = "idle" /\ sent[p] < Pushes /\ owner # "gone"
    /\ Lock(p)
    /\ producer' = [producer EXCEPT ![p] = "locked"]
    /\ UNCHANGED <<list, closed, sent, pops, owner, spurious>>

\* Fault: one place too many (TypeOK).
AlmostFull == count > Capacity

Full == count >= Capacity

\* A new node goes behind the tail, or becomes the whole list.
Link(n, e) ==
    /\ used' = used \cup {n}
    /\ event' = [event EXCEPT ![n] = e]
    /\ next' = [m \in Nodes |-> IF m = n THEN Null ELSE IF m = tail THEN n ELSE next[m]]
    /\ head' = IF tail = Null THEN n ELSE head
    /\ tail' = n
    /\ count' = count + 1

\* Fault: the waiting consumer is not signalled (PopReturns).
Unsignalled == consumer

\* pthread_cond_signal, or broadcast: there is one waiter at most.
Signalled == IF consumer = "asleep" THEN "woken" ELSE consumer

Push(p) ==
    /\ producer[p] = "locked" /\ Unlock(p)
    /\ producer' = [producer EXCEPT ![p] = "idle"]
    /\ sent' = [sent EXCEPT ![p] = @ + 1]
    /\ IF closed \/ Full
       THEN UNCHANGED <<list, consumer>>
       ELSE /\ \E n \in Nodes \ used : Link(n, <<p, sent[p] + 1>>)
            /\ consumer' = Signalled
    /\ UNCHANGED <<closed, wait, got, owner, spurious>>

-----------------------------------------------------------------------------
(* event_queue_pop. *)

PopLock(w) ==
    /\ consumer = "idle" /\ owner # "gone"
    /\ Lock(Consumer)
    /\ consumer' = "test" /\ wait' = w /\ got' = Busy
    /\ UNCHANGED <<list, closed, producer, sent, owner, spurious>>

\* Nothing to take: the mutex is released for the wait.
PopWait ==
    /\ consumer = "test" /\ head = Null /\ ~closed /\ wait # "poll"
    /\ Unlock(Consumer)
    /\ consumer' = "asleep"
    /\ UNCHANGED <<list, closed, producer, sent, wait, got, owner, spurious>>

PopTimeout ==
    /\ consumer = "asleep" /\ wait = "timed"
    /\ consumer' = "late"
    /\ UNCHANGED <<mutex, list, closed, producer, sent, wait, got, owner, spurious>>

WakeUnasked ==
    /\ consumer = "asleep" /\ spurious < Spurious
    /\ consumer' = "woken"
    /\ spurious' = spurious + 1
    /\ UNCHANGED <<mutex, list, closed, producer, sent, wait, got, owner>>

\* Fault: the condition is not tested again after a wait (KeepsChannel).
TakeAtOnce == "take"

\* Awake, the consumer tests the condition again, unless its time is over.
Resume == IF consumer = "woken" THEN "test" ELSE "take"

PopRelock ==
    /\ consumer \in {"woken", "late"}
    /\ Lock(Consumer)
    /\ consumer' = Resume
    /\ UNCHANGED <<list, closed, producer, sent, wait, got, owner, spurious>>

PopNothing ==
    /\ \/ consumer = "take"
       \/ consumer = "test" /\ (closed \/ wait = "poll")
    /\ head = Null
    /\ Unlock(Consumer)
    /\ consumer' = "idle" /\ got' = Nothing
    /\ UNCHANGED <<list, closed, producer, sent, wait, owner, spurious>>

\* Fault: the tail still points to the freed node (ListSound).
TailKept == tail

\* The tail once the first node is taken off.
TailLeft == IF next[head] = Null THEN Null ELSE tail

PopTake ==
    /\ consumer \in {"test", "take"} /\ head # Null
    /\ Unlock(Consumer)
    /\ consumer' = "idle" /\ got' = event[head]
    /\ head' = next[head] /\ tail' = TailLeft
    /\ count' = count - 1
    /\ used' = used \ {head}
    /\ UNCHANGED <<closed, next, event, producer, sent, wait, owner, spurious>>

-----------------------------------------------------------------------------
(* event_queue_close and event_queue_destroy. *)

CloseLock ==
    /\ owner = "away" /\ Lock(Owner)
    /\ owner' = "locked"
    /\ UNCHANGED <<list, closed, producer, sent, pops, spurious>>

Close ==
    /\ owner = "locked" /\ Unlock(Owner)
    /\ owner' = "closed"
    /\ closed' = TRUE
    /\ consumer' = Signalled
    /\ UNCHANGED <<list, producer, sent, wait, got, spurious>>

\* The threads that use the queue are joined before it is destroyed, closed or not.
DestroyLock ==
    /\ owner \in {"away", "closed"}
    /\ consumer = "idle" /\ \A p \in Producers : sent[p] = Pushes
    /\ Lock(Owner)
    /\ owner' = "freeing"
    /\ UNCHANGED <<list, closed, producer, sent, pops, spurious>>

Destroy ==
    /\ owner = "freeing" /\ Unlock(Owner)
    /\ owner' = "gone"
    /\ closed' = TRUE
    /\ used' = {} /\ head' = Null /\ tail' = Null /\ count' = 0
    /\ UNCHANGED <<next, event, producer, sent, pops, spurious>>

-----------------------------------------------------------------------------
Producer(p) == PushLock(p) \/ Push(p)

\* What the pop does once it is called.
Pop == PopWait \/ PopTimeout \/ PopRelock \/ PopNothing \/ PopTake

Next ==
    \/ \E p \in Producers : Producer(p)
    \/ (\E w \in Waits : PopLock(w)) \/ Pop \/ WakeUnasked
    \/ CloseLock \/ Close \/ DestroyLock \/ Destroy
    \/ owner = "gone" /\ UNCHANGED vars

Spec == Init /\ [][Next]_vars

\* A thread in the middle of an operation is scheduled, and gets the mutex it waits for if it
\* is free again and again; timeouts expire.  Nobody has to push or close.
Fairness ==
    /\ SF_vars(Pop)
    /\ WF_vars(Close) /\ WF_vars(Destroy)
    /\ \A p \in Producers : WF_vars(Push(p))

FairSpec == Spec /\ Fairness

-----------------------------------------------------------------------------
(* Properties. *)

\* The k-th node of the list.
Nth[k \in 1 .. Capacity] ==
    IF k = 1 THEN head
    ELSE IF Nth[k - 1] \in Nodes THEN next[Nth[k - 1]] ELSE Null

\* The list is what its fields say: count nodes from head, each allocated and met once, the
\* last of them the tail, and nothing allocated besides: no node is lost or freed twice.
ListSound ==
    /\ \A k \in 1 .. count : Nth[k] \in used
    /\ \A j, k \in 1 .. count : Nth[j] = Nth[k] => j = k
    /\ used = {Nth[k] : k \in 1 .. count}
    /\ IF count = 0 THEN head = Null /\ tail = Null
       ELSE tail = Nth[count] /\ next[tail] = Null

\* A pop returns when there is an event or the queue is closed, and with a timeout in any
\* case: the signal of a push is not lost between the test of the queue and the wait.
PopReturns ==
    (got = Busy /\ (head # Null \/ closed \/ wait = "timed")) ~> got # Busy

\* The queue as a channel.
Service == INSTANCE Channel WITH
    items <- [k \in 1 .. count |-> event[Nth[k]]],
    shut <- closed,
    patient <- (wait = "forever")

\* Under its mutex the linked list behaves as the channel module Race takes it for: first in
\* first out, dropping only when full or closed, empty-handed only when empty.
KeepsChannel == Service!ChannelSpec

-----------------------------------------------------------------------------
(* The inductive invariant behind the safety properties. *)

\* Who holds the mutex, and what each thread knows at its place: a pop that takes without
\* testing again has waited its time, and the queue is destroyed when nobody uses it.
Turns ==
    /\ \A p \in Producers :
          /\ mutex = p <=> producer[p] = "locked"
          /\ producer[p] = "locked" => sent[p] < Pushes
    /\ mutex = Consumer <=> consumer \in {"test", "take"}
    /\ mutex = Owner <=> owner \in {"locked", "freeing"}
    /\ got = Busy <=> consumer # "idle"
    /\ consumer \in {"late", "take"} => wait = "timed"
    /\ owner \in {"freeing", "gone"} => consumer = "idle"

\* Every node in use carries an event.
Contents == \A n \in used : event[n] \in Event

IInv == TypeOK /\ Turns /\ ListSound /\ Contents
=============================================================================
