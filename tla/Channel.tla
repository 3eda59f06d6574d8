------------------------------ MODULE Channel ------------------------------
(***************************************************************************)
(* What the event queue promises: a channel from many senders to one       *)
(* receiver that holds a bounded number of events, delivers what it took   *)
(* in the order it took it, drops what arrives when it is full or shut,    *)
(* and says that it has nothing only when it has nothing.                  *)
(***************************************************************************)
EXTENDS Naturals, Sequences

CONSTANTS Producers, Capacity, Busy, Nothing

VARIABLES
    items,      \* events taken and not delivered: <<sender, number>>
    shut,       \* no more events are taken
    sent,       \* how many events each sender has offered
    got,        \* the answer to the last request, Busy until there is one
    patient     \* the receiver will wait for an event as long as it takes

channelVars == <<items, shut, sent, got, patient>>

ChannelInit ==
    /\ items = <<>> /\ shut = FALSE
    /\ sent = [p \in Producers |-> 0]
    /\ got = Nothing /\ patient = FALSE

Send(p) ==
    /\ sent' = [sent EXCEPT ![p] = @ + 1]
    /\ items' = IF shut \/ Len(items) >= Capacity THEN items ELSE Append(items, <<p, sent'[p]>>)
    /\ UNCHANGED <<shut, got, patient>>

Ask ==
    /\ got # Busy /\ got' = Busy
    /\ patient' \in BOOLEAN
    /\ UNCHANGED <<items, shut, sent>>

Give ==
    /\ got = Busy /\ items # <<>>
    /\ got' = Head(items) /\ items' = Tail(items)
    /\ UNCHANGED <<shut, sent, patient>>

GiveUp ==
    /\ got = Busy /\ items = <<>> /\ (patient => shut)
    /\ got' = Nothing
    /\ UNCHANGED <<items, shut, sent, patient>>

Shut ==
    /\ shut' = TRUE
    /\ UNCHANGED <<items, sent, got, patient>>

\* The channel is dropped with what is in it.
Discard ==
    /\ got # Busy
    /\ items' = <<>> /\ shut' = TRUE
    /\ UNCHANGED <<sent, got, patient>>

ChannelNext ==
    \/ \E p \in Producers : Send(p)
    \/ Ask \/ Give \/ GiveUp \/ Shut \/ Discard

ChannelSpec == ChannelInit /\ [][ChannelNext]_channelVars
=============================================================================
