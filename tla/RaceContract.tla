--------------------------- MODULE RaceContract ---------------------------
(***************************************************************************)
(* What a race promises its players, without threads, sockets, queues or   *)
(* clocks: each player's progress climbs word by word, each player gets    *)
(* one verdict and keeps it, a time is given only to a player who typed    *)
(* the sentence, and results go out once everybody has a verdict.          *)
(***************************************************************************)
EXTENDS Naturals

CONSTANTS
    Players, TotalWords,
    Times,      \* what a result can be, next to DNF: did not finish
    DNF,
    Pending     \* no verdict yet: neither DNF nor a time

VARIABLES
    phase,      \* "lobby", "racing", "settled" (all verdicts are in) or "announced"
    verdict,    \* Pending, DNF or the player's time
    progress,   \* words the server has credited
    informed    \* players who were sent the results

contractVars == <<phase, verdict, progress, informed>>

ContractInit ==
    /\ phase = "lobby"
    /\ verdict = [i \in Players |-> Pending]
    /\ progress = [i \in Players |-> 0]
    /\ informed = {}

\* Players who left before the start are out at once.
Begin(absent) ==
    /\ phase = "lobby"
    /\ phase' = "racing"
    /\ verdict' = [i \in Players |-> IF i \in absent THEN DNF ELSE Pending]
    /\ UNCHANGED <<progress, informed>>

Advance(i) ==
    /\ phase = "racing" /\ verdict[i] = Pending
    /\ progress[i] < TotalWords
    /\ progress' = [progress EXCEPT ![i] = @ + 1]
    /\ UNCHANGED <<phase, verdict, informed>>

Finish(i, time) ==
    /\ phase = "racing" /\ verdict[i] = Pending
    /\ progress[i] >= TotalWords - 1
    /\ progress' = [progress EXCEPT ![i] = TotalWords]
    /\ verdict' = [verdict EXCEPT ![i] = time]
    /\ UNCHANGED <<phase, informed>>

Drop(i) ==
    /\ phase = "racing" /\ verdict[i] = Pending
    /\ verdict' = [verdict EXCEPT ![i] = DNF]
    /\ UNCHANGED <<phase, progress, informed>>

\* The race closes: whoever is still pending did not finish.
Settle ==
    /\ phase = "racing"
    /\ phase' = "settled"
    /\ verdict' = [i \in Players |-> IF verdict[i] = Pending THEN DNF ELSE verdict[i]]
    /\ UNCHANGED <<progress, informed>>

Announce(to) ==
    /\ phase = "settled"
    /\ phase' = "announced"
    /\ informed' = to
    /\ UNCHANGED <<verdict, progress>>

ContractNext ==
    \/ \E absent \in SUBSET Players : Begin(absent)
    \/ \E i \in Players : Advance(i) \/ Drop(i) \/ \E time \in Times : Finish(i, time)
    \/ Settle
    \/ \E to \in SUBSET Players : Announce(to)

Contract == ContractInit /\ [][ContractNext]_contractVars
===========================================================================
