------------------------------- MODULE Lobby -------------------------------
(***************************************************************************)
(* What the coordinator promises about its rooms, without locks, threads   *)
(* or memory: a room takes players one by one while it is open and has a   *)
(* free place, its race starts when it is full and with exactly those      *)
(* players, and it disappears when its race is over, when nobody is left   *)
(* waiting in it, or when the whole service shuts down.                    *)
(***************************************************************************)
EXTENDS Naturals, FiniteSets

CONSTANTS Rooms, Conns, Codes, Capacity, NoCode

VARIABLES
    status,     \* of each room: "none", "open", "racing" or "over"
    name,       \* the code of each room
    members,    \* the players of each room
    serving     \* the service was not shut down

lobbyVars == <<status, name, members, serving>>

LobbyInit ==
    /\ status = [r \in Rooms |-> "none"]
    /\ name = [r \in Rooms |-> NoCode]
    /\ members = [r \in Rooms |-> {}]
    /\ serving = TRUE

Removable(r) == status[r] = "over" \/ (status[r] = "open" /\ members[r] = {})

Remove(r) ==
    /\ Removable(r)
    /\ status' = [status EXCEPT ![r] = "none"]
    /\ name' = [name EXCEPT ![r] = NoCode]
    /\ members' = [members EXCEPT ![r] = {}]
    /\ UNCHANGED serving

\* A code names one room at a time.
Open(r, c) ==
    /\ status[r] = "none"
    /\ \A q \in Rooms : status[q] # "none" => name[q] # c
    /\ status' = [status EXCEPT ![r] = "open"]
    /\ name' = [name EXCEPT ![r] = c]
    /\ UNCHANGED <<members, serving>>

\* A room whose race is over gives its code to a new one.
Reopen(old, r, c) ==
    /\ status[old] = "over" /\ name[old] = c
    /\ status[r] = "none"
    /\ status' = [status EXCEPT ![old] = "none", ![r] = "open"]
    /\ name' = [name EXCEPT ![old] = NoCode, ![r] = c]
    /\ members' = [members EXCEPT ![old] = {}]
    /\ UNCHANGED serving

Enter(r, p) ==
    /\ status[r] = "open"
    /\ Cardinality(members[r]) < Capacity
    /\ \A q \in Rooms : p \notin members[q]
    /\ members' = [members EXCEPT ![r] = @ \cup {p}]
    /\ UNCHANGED <<status, name, serving>>

Leave(r, p) ==
    /\ status[r] = "open" /\ p \in members[r]
    /\ members' = [members EXCEPT ![r] = @ \ {p}]
    /\ UNCHANGED <<status, name, serving>>

Start(r) ==
    /\ status[r] = "open" /\ Cardinality(members[r]) = Capacity
    /\ status' = [status EXCEPT ![r] = "racing"]
    /\ UNCHANGED <<name, members, serving>>

Finish(r) ==
    /\ status[r] = "racing"
    /\ status' = [status EXCEPT ![r] = "over"]
    /\ UNCHANGED <<name, members, serving>>

Shutdown ==
    /\ serving
    /\ status' = [r \in Rooms |-> "none"]
    /\ name' = [r \in Rooms |-> NoCode]
    /\ members' = [r \in Rooms |-> {}]
    /\ serving' = FALSE

LobbyNext ==
    \/ Shutdown
    \/ \E r \in Rooms :
         \/ Remove(r) \/ Start(r) \/ Finish(r)
         \/ \E c \in Codes : Open(r, c) \/ (\E old \in Rooms : Reopen(old, r, c))
         \/ \E p \in Conns : Enter(r, p) \/ Leave(r, p)

LobbySpec == LobbyInit /\ [][LobbyNext]_lobbyVars
=============================================================================
