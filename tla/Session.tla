------------------------------ MODULE Session ------------------------------
(***************************************************************************)
(* One WebSocket session of the gateway: the handlers that gateway.js      *)
(* registers on a browser's socket (ws) and on the TCP connection to the   *)
(* engine it opens for it (tcpClient).  Node runs a handler to its end     *)
(* before the next one, so each is a step; what arrives when is the        *)
(* environment's choice.                                                   *)
(*                                                                         *)
(* What the engine sends is a stream of tokens that the handler of 'data'  *)
(* gets in pieces of any length: "LEN" is the ten bytes in front of the    *)
(* first object, an object starts and ends with a brace and has a key, and *)
(* the sentence in it is a JSON string, which may hold braces, quotes and  *)
(* backslashes.  The engine's seat is what its first line of input says.   *)
(*                                                                         *)
(* LOBBY_TIMEOUT_MS and WS_HEARTBEAT_INTERVAL_MS are positive, as in       *)
(* config.js.  The trimming of a buffer over 64 KB, the time sent behind a *)
(* '2' and what is logged are left out.                                    *)
(*                                                                         *)
(* A definition whose comment starts with "Fault:" is no part of the       *)
(* specification: it is a plausible mistake in the one that follows.       *)
(***************************************************************************)
EXTENDS Integers, Sequences, FiniteSets, SequencesExt

CONSTANTS
    Contents,       \* sentences as they stand between the quotes of their JSON string
    Messages,       \* how many messages of the browser are recorded (bound)
    Updates,        \* progress messages the engine sends at most (bound)
    ChunkMax        \* most tokens of one piece (bound)

\* In a JSON string a quote stands behind a backslash that does not itself stand behind
\* one, and the last character is no such backslash.
JsonString(c) ==
    \E escape \in [0 .. Len(c) -> BOOLEAN] :
        /\ ~escape[0] /\ ~escape[Len(c)]
        /\ \A k \in 1 .. Len(c) :
              IF escape[k - 1] THEN ~escape[k]
              ELSE c[k] # "quote" /\ (escape[k] <=> c[k] = "backslash")

ASSUME SessionAssumption ==
    /\ Messages \in Nat /\ Updates \in Nat /\ ChunkMax \in Nat \ {0}
    /\ Contents # {} /\ Contents \subseteq Seq(STRING) /\ \A c \in Contents : JsonString(c)

VARIABLES
    ws,             \* ws.readyState
    toBrowser,      \* the messages sent to the browser, by type
    tcp,            \* the state of tcpClient
    pending,        \* what was written to it before it was connected
    toEngine,       \* the bytes the engine has got
    stream,         \* tokens on their way from the engine
    rawBuffer, hasStarted,
    timer,          \* the lobby timeout of tcpClient: "off", "set", or "due" after LOBBY_TIMEOUT_MS idle
    heartbeat,      \* does heartbeatTimer run
    engine, seat,   \* the engine's side of the connection, the room it has put the player in
    engineSent,     \* history: the types of the objects it has sent
    messages        \* messages the browser has sent, up to the bound

browser == <<ws, toBrowser>>
link == <<tcp, pending>>
reader == <<rawBuffer, hasStarted>>
timers == <<timer, heartbeat>>
far == <<engine, seat, engineSent>>

vars == <<browser, link, toEngine, stream, reader, timers, far, messages>>

-----------------------------------------------------------------------------
(* What travels. *)

Rejections == {"ERROR:", "ROOM_FULL_OR_ACTIVE", "SERVER_ERROR"}
RaceTypes == {"LOBBY_STATE", "PROGRESS_UPDATE", "RACE_RESULTS"}
Errors == {"rejected", "timeout", "unreachable"}    \* all of type ERROR
BrowserTypes == RaceTypes \cup Errors \cup {"LOBBY_WAITING", "PLAYER_FINISHED_ACK"}

StateObject(c) == <<"lbrace", "sentence", "quote">> \o c \o <<"quote", "rbrace">>
StateObjects == {StateObject(c) : c \in Contents}
Progress == <<"lbrace", "progress", "rbrace">>
Times == <<"lbrace", "times", "rbrace">>
Objects == StateObjects \cup {Progress, Times}
Tokens == (UNION {Range(o) : o \in Objects}) \cup Rejections \cup {"LEN", "LF"}

\* What JSON.parse and the chain of tests on the object's members make of it.
TypeOf(object) ==
    CASE object = Progress -> "PROGRESS_UPDATE"
      [] object = Times -> "RACE_RESULTS"
      [] object \in StateObjects -> "LOBBY_STATE"
      [] OTHER -> "unparsable"

TypeOK ==
    /\ ws \in {"open", "closing", "closed"} /\ toBrowser \in Seq(BrowserTypes)
    /\ tcp \in {"connecting", "open", "destroyed"}
    /\ pending \in Seq({"3", "2"}) /\ toEngine \in Seq({"3", "2", "JOIN"})
    /\ Len(pending) + Len(toEngine) <= messages + (IF tcp = "connecting" THEN 0 ELSE 1)
    /\ stream \in Seq(Tokens) /\ rawBuffer \in Seq(Tokens)
    /\ hasStarted \in BOOLEAN /\ timer \in {"off", "set", "due"} /\ heartbeat \in BOOLEAN
    /\ engine \in {"listening", "lobby", "racing", "finished", "gone"}
    /\ seat \in {"none", "own", "DEFAULT"} /\ engineSent \in Seq(RaceTypes)
    /\ messages \in 0 .. Messages

\* wss.on('connection').
Init ==
    /\ ws = "open" /\ toBrowser = <<>>
    /\ tcp = "connecting" /\ pending = <<>> /\ toEngine = <<>>
    /\ stream = <<>> /\ rawBuffer = <<>> /\ hasStarted = FALSE
    /\ timer = "set" /\ heartbeat = TRUE
    /\ engine = "listening" /\ seat = "none" /\ engineSent = <<>> /\ messages = 0

\* Each send() to the browser is guarded by readyState.
SentTo(types) == IF ws = "open" THEN toBrowser \o types ELSE toBrowser
Send(types) == toBrowser' = SentTo(types)

\* Fault: the browser gets an error, but its socket stays open.
StayOpen == UNCHANGED ws

\* ws.close() starts the closing handshake.
Close == ws' = IF ws = "open" THEN "closing" ELSE ws

\* destroy() also ends the timeout of the socket and drops what it has not read.
Destroy == tcp' = "destroyed" /\ timer' = "off" /\ stream' = <<>> /\ pending' = <<>>

-----------------------------------------------------------------------------
(* The handlers of the connection to the engine. *)

\* Node starts the timeout of a socket anew whenever the socket is read or written.
Restarted == IF timer = "off" THEN "off" ELSE "set"

\* The callback writes the JOIN, but what was written while connecting is already the
\* socket's current write, so Node sends it in front of the JOIN.
Connected ==
    /\ tcp = "connecting" /\ tcp' = "open" /\ pending' = <<>>
    /\ toEngine' = Append(pending, "JOIN") /\ timer' = Restarted
    /\ Send(<<"LOBBY_WAITING">>)
    /\ UNCHANGED <<ws, stream, reader, heartbeat, far, messages>>

\* setTimeout(0) with every object that parses.
TimeoutEnds(types) == timer' = IF types = <<>> THEN Restarted ELSE "off"

\* The socket has been idle for LOBBY_TIMEOUT_MS.
Idle ==
    /\ timer = "set" /\ timer' = "due"
    /\ UNCHANGED <<browser, link, toEngine, stream, reader, heartbeat, far, messages>>

Timeout ==
    /\ tcp # "destroyed" /\ timer = "due"
    /\ IF hasStarted
       THEN timer' = "off" /\ UNCHANGED <<browser, link, stream, heartbeat>>
       ELSE Send(<<"timeout">>) /\ Close /\ Destroy /\ heartbeat' = FALSE
    /\ UNCHANGED <<toEngine, reader, far, messages>>

\* Fault: braces count wherever they stand.
BracesEverywhere(at) == TRUE

BracesCount(at) == ~at.inString

\* JSON.parse has the object that ends at k; one that does not parse is forgotten.
Take(buffer, at, k) ==
    LET type == TypeOf(SubSeq(buffer, at.start, k))
    IN  [at EXCEPT !.depth = 0, !.end = k,
                   !.types = IF type = "unparsable" THEN @ ELSE Append(@, type)]

\* One character of the loop that counts braces; outside of an object it looks for the next.
Step(buffer, at, k) ==
    LET c == buffer[k] IN
    IF at.depth = 0 THEN IF c = "lbrace" THEN [at EXCEPT !.depth = 1, !.start = k] ELSE at
    ELSE IF at.escape THEN [at EXCEPT !.escape = FALSE]
    ELSE CASE c = "backslash" -> [at EXCEPT !.escape = TRUE]
           [] c = "quote" -> [at EXCEPT !.inString = ~@]
           [] c = "lbrace" /\ BracesCount(at) -> [at EXCEPT !.depth = @ + 1]
           [] c = "rbrace" /\ BracesCount(at) ->
                  IF at.depth = 1 THEN Take(buffer, at, k) ELSE [at EXCEPT !.depth = @ - 1]
           [] OTHER -> at

\* What the loops know after a character: where the last object that is complete ends, and of
\* what types the complete ones are.
Knowledge == [depth : Nat, inString : BOOLEAN, escape : BOOLEAN, start : Nat, end : Nat,
              types : Seq(RaceTypes)]
Nothing == [depth |-> 0, inString |-> FALSE, escape |-> FALSE, start |-> 0, end |-> 0, types |-> <<>>]

\* The loops over the buffer.
Scan(buffer) ==
    LET step == [p \in Knowledge \X (1 .. Len(buffer)) |-> Step(buffer, p[1], p[2])]
        at[k \in 0 .. Len(buffer)] == IF k = 0 THEN Nothing ELSE step[<<at[k - 1], k>>]
    IN  at

\* Fault: what follows an object in the same piece is dropped.
DropRest(buffer, end) == IF end = 0 THEN buffer ELSE <<>>

\* What is left behind the last complete object.
Rest(buffer, end) == SubSeq(buffer, end + 1, Len(buffer))

\* Fault: a rejection is looked for in the text of an object too.
RejectedAnywhere(buffer) == ~hasStarted /\ Rejections \cap Range(buffer) # {}

\* Before the first object a rejection ends the session.
Rejected(buffer) ==
    ~hasStarted /\ "lbrace" \notin Range(buffer) /\ Rejections \cap Range(buffer) # {}

Data ==
    /\ tcp = "open" /\ stream # <<>>
    /\ UNCHANGED <<toEngine, heartbeat, far, messages>>
    /\ \E n \in 1 .. Min({ChunkMax, Len(stream)}) :
          LET buffer == rawBuffer \o SubSeq(stream, 1, n)
              found == Scan(buffer)[Len(buffer)]
          IN  \/ /\ Rejected(buffer)
                 /\ Send(<<"rejected">>) /\ Close /\ Destroy
                 /\ rawBuffer' = buffer /\ UNCHANGED hasStarted
              \/ /\ ~Rejected(buffer)
                 /\ stream' = SubSeq(stream, n + 1, Len(stream))
                 /\ rawBuffer' = Rest(buffer, found.end)
                 /\ Send(found.types)
                 /\ hasStarted' = (hasStarted \/ found.types # <<>>)
                 /\ TimeoutEnds(found.types)
                 /\ UNCHANGED <<ws, link>>

\* 'error': the engine cannot be reached, or has reset the connection.
TcpError ==
    /\ tcp # "destroyed" /\ (tcp = "connecting" \/ engine = "gone")
    /\ Destroy /\ heartbeat' = FALSE
    /\ Send(<<"unreachable">>) /\ Close
    /\ UNCHANGED <<toEngine, reader, far, messages>>

\* 'end': the engine has closed its side and everything has been read.  Node then ends the
\* other side and destroys the socket.
TcpEnd ==
    /\ tcp = "open" /\ engine = "gone" /\ stream = <<>>
    /\ Destroy /\ heartbeat' = FALSE /\ Close
    /\ UNCHANGED <<toBrowser, toEngine, reader, far, messages>>

-----------------------------------------------------------------------------
(* The handlers of the browser's socket. *)

\* tcpClient.write(): kept until there is a connection, dropped when there is none any more.
Write(bytes) ==
    /\ pending' = IF tcp = "connecting" THEN pending \o bytes ELSE pending
    /\ toEngine' = IF tcp = "open" THEN toEngine \o bytes ELSE toEngine
    /\ timer' = IF tcp = "open" THEN Restarted ELSE timer

\* Fault: SENTENCE_FINISHED goes through the branch of WORD_DONE too (TypeOK).
WordAndFinish == <<"3", "2">>

FinishByte == <<"2">>

\* A browser may send at any time; messages may still come while the socket closes.
Message ==
    /\ ws # "closed" /\ messages < Messages /\ messages' = messages + 1
    /\ \/ Write(<<"3">>) /\ UNCHANGED toBrowser
       \/ Write(FinishByte) /\ Send(<<"PLAYER_FINISHED_ACK">>)
       \/ UNCHANGED <<pending, toEngine, timer, toBrowser>>    \* any other type
    /\ UNCHANGED <<ws, tcp, stream, reader, heartbeat, far>>

\* It may go on for ever.  What it writes behind the first messages is not recorded: the
\* engine's first line is complete by then, and the rest is not told apart.
MessageAgain ==
    /\ ws # "closed" /\ tcp = "open" /\ messages = Messages
    /\ timer' = Restarted
    /\ UNCHANGED <<browser, link, toEngine, stream, reader, heartbeat, far, messages>>

\* Fault: the connection to the engine outlives the browser's.
KeepConnection == UNCHANGED <<tcp, timer, stream, pending>>

Hangup == Destroy

\* 'close' (or 'error', which does the same): the browser has left, or the closing
\* handshake is over.
WsClose ==
    /\ ws # "closed" /\ ws' = "closed" /\ heartbeat' = FALSE /\ Hangup
    /\ UNCHANGED <<toBrowser, toEngine, reader, far, messages>>

\* The interval's callback stops itself when it finds the socket no longer open.
Heartbeat ==
    /\ heartbeat /\ ws # "open" /\ heartbeat' = FALSE
    /\ UNCHANGED <<browser, link, toEngine, stream, reader, timer, far, messages>>

-----------------------------------------------------------------------------
(* The engine, as far as the session sees it. *)

Emits(tokens) == stream' = IF tcp = "open" THEN stream \o tokens ELSE stream
engineFrame == <<browser, link, toEngine, reader, timers, messages>>

\* The first line of the connection: JOIN gives the room, any other text is taken for the
\* name of a player of the room DEFAULT (parseClientHandshake).
parseClientHandshake(line) == IF Head(line) = "JOIN" THEN "own" ELSE "DEFAULT"

EngineSeats ==
    /\ engine = "listening" /\ "JOIN" \in Range(toEngine)
    /\ engine' = "lobby" /\ seat' = parseClientHandshake(toEngine)
    /\ UNCHANGED <<engineFrame, stream, engineSent>>

EngineRejects ==
    /\ engine = "listening" /\ tcp = "open" /\ engine' = "gone"
    /\ \E r \in Rejections : Emits(<<r, "LF">>)
    /\ UNCHANGED <<engineFrame, seat, engineSent>>

\* The hub sends the state of the race and the first progress.
EngineStarts ==
    /\ engine = "lobby" /\ tcp = "open" /\ engine' = "racing"
    /\ \E o \in StateObjects : Emits(<<"LEN">> \o o \o Progress)
    /\ engineSent' = <<"LOBBY_STATE", "PROGRESS_UPDATE">>
    /\ UNCHANGED <<engineFrame, seat>>

EngineUpdates ==
    /\ engine = "racing" /\ tcp = "open" /\ Len(engineSent) < 2 + Updates
    /\ Emits(Progress) /\ engineSent' = Append(engineSent, "PROGRESS_UPDATE")
    /\ UNCHANGED <<engineFrame, engine, seat>>

EngineResults ==
    /\ engine = "racing" /\ tcp = "open" /\ engine' = "finished"
    /\ Emits(Times) /\ engineSent' = Append(engineSent, "RACE_RESULTS")
    /\ UNCHANGED <<engineFrame, seat>>

\* The engine closes the connection: at the end of the room, or because it found the
\* connection closed.
EngineLeaves ==
    /\ engine \in {"lobby", "racing", "finished"} /\ engine' = "gone"
    /\ UNCHANGED <<engineFrame, stream, seat, engineSent>>

Over == ws = "closed" /\ tcp = "destroyed" /\ engine \in {"gone", "listening"} /\ UNCHANGED vars

Handlers == Connected \/ Idle \/ Timeout \/ Data \/ TcpError \/ TcpEnd \/ Message \/ MessageAgain
            \/ WsClose \/ Heartbeat
Engine == EngineSeats \/ EngineRejects \/ EngineStarts \/ EngineUpdates \/ EngineResults
          \/ EngineLeaves

Next == Handlers \/ Engine \/ Over

Spec == Init /\ [][Next]_vars

\* Node delivers what has arrived; a socket that is closing closes, if need be by the
\* library's own timer; a socket nobody uses becomes idle and its timeout fires; a connection
\* attempt ends.  The browser owes nothing, and may put the timeout off again and again.
FairSpec ==
    /\ Spec
    /\ WF_vars(Data) /\ WF_vars(TcpEnd \/ TcpError) /\ WF_vars(Idle) /\ WF_vars(Timeout)
    /\ WF_vars(ws = "closing" /\ WsClose)

-----------------------------------------------------------------------------
(* Properties. *)

\* The messages of the race among the first k sent to the browser.
RelayedUpTo(s) ==
    LET relayed[k \in 0 .. Len(s)] ==
            IF k = 0 THEN <<>>
            ELSE IF s[k] \in RaceTypes THEN Append(relayed[k - 1], s[k]) ELSE relayed[k - 1]
    IN  relayed
Relayed == RelayedUpTo(toBrowser)[Len(toBrowser)]

\* Whatever the sentence holds and however TCP cuts the stream, the browser gets the
\* engine's messages in the order it sent them, each once (the brace counter of 'data');
\* and when all has been read from an open session, it has got every one.
RelaysInOrder ==
    /\ IsPrefix(Relayed, engineSent)
    /\ ws = "open" /\ tcp = "open" /\ stream = <<>> => Relayed = engineSent

\* A browser is told of at most one error, it is the last thing it is told, and its session
\* is being closed: four handlers report errors, and any of them may be followed by another.
OneError ==
    \A i \in DOMAIN toBrowser : toBrowser[i] \in Errors => i = Len(toBrowser) /\ ws # "open"

\* Lobby and race are told apart: who was told that the lobby has timed out got nothing of
\* a race, although its start may be on its way; and only who was turned away by the engine
\* is told so, whatever words the sentence holds.
LobbyOrRace ==
    \A i \in DOMAIN toBrowser :
        /\ toBrowser[i] = "timeout" => Relayed = <<>>
        /\ toBrowser[i] = "rejected" => engineSent = <<>>

\* From some time on the browser sends nothing.
BrowserSilent == <>[][~(Message \/ MessageAgain)]_vars

\* No session is left half open: when one of the two connections is gone, the other is
\* closed and the heartbeat stopped, whatever the browser sends; and a browser that sends
\* nothing does not wait in a lobby for ever.  One that keeps sending may: the timeout of
\* gateway.js:306 is one of an idle socket, and each write at 490-495 starts it anew.
SessionEnds ==
    /\ (ws # "open" \/ tcp = "destroyed") ~> (ws = "closed" /\ tcp = "destroyed" /\ ~heartbeat)
    /\ BrowserSilent => (ws = "open" ~> (hasStarted \/ ws = "closed"))

\* src/gateway/gateway.js:273 "Send JOIN handshake", which LOBBY_WAITING reports with the
\* code of the room: the player is in that room.
SeatedWhereTold == seat # "DEFAULT"

-----------------------------------------------------------------------------
(* The inductive invariant. *)

\* The two sides keep step: a session with a connection has a browser; the engine speaks
\* to a connection it has, and to one that is gone no more.
InStep ==
    /\ tcp # "destroyed" => ws = "open"
    /\ tcp = "connecting" =>
          /\ rawBuffer = <<>> /\ stream = <<>> /\ toEngine = <<>>
          /\ ~hasStarted /\ engine = "listening"
    /\ engine \in {"listening", "lobby"} => engineSent = <<>>
    /\ engine \in {"racing", "finished"} => engineSent # <<>>

\* A race is its state, its first progress, and what follows.
Race ==
    engineSent # <<>> =>
        /\ Len(engineSent) >= 2 /\ engineSent[1] = "LOBBY_STATE"
        /\ \A i \in 2 .. Len(engineSent) : engineSent[i] \in {"PROGRESS_UPDATE", "RACE_RESULTS"}

KeyOf(type) == IF type = "PROGRESS_UPDATE" THEN "progress" ELSE "times"

\* Behind place e, s is the objects of a list of messages after its first m, none of them
\* cut off.
Follows(s, e, m, list) ==
    /\ Len(s) = e + 3 * (Len(list) - m)
    /\ \A i \in 1 .. Len(list) - m :
          /\ s[e + 3 * i - 2] = "lbrace" /\ s[e + 3 * i] = "rbrace"
          /\ s[e + 3 * i - 1] = KeyOf(list[m + i])

\* What the session has read and not yet relayed, with what is on its way, is what the
\* engine has sent and the browser has not got: nothing or a rejection without a race, all
\* of a race before its first object is complete, or whole objects, the first of them cut.
Underway ==
    tcp = "open" =>
        \/ /\ engineSent = <<>> /\ ~hasStarted /\ rawBuffer = <<>>
           /\ stream = <<>> \/ (engine = "gone" /\ \E r \in Rejections : stream = <<r, "LF">>)
        \/ /\ engineSent # <<>> /\ ~hasStarted
           /\ \E c \in Contents :
                 LET whole == rawBuffer \o stream
                     first == <<"LEN">> \o StateObject(c)
                 IN  /\ Follows(whole, Len(first), 1, engineSent)
                     /\ \A k \in 1 .. Len(first) : whole[k] = first[k]
                     /\ Len(rawBuffer) < Len(first)
        \/ /\ engineSent # <<>> /\ hasStarted /\ Relayed # <<>>
           /\ Follows(rawBuffer \o stream, 0, Len(Relayed), engineSent) /\ Len(rawBuffer) < 3

Told ==
    /\ IsPrefix(Relayed, engineSent)
    /\ tcp # "destroyed" /\ ~hasStarted => Relayed = <<>>
    /\ "rejected" \in Range(toBrowser) => engineSent = <<>>
    /\ "timeout" \in Range(toBrowser) => Relayed = <<>>

IInv == TypeOK /\ InStep /\ Race /\ Underway /\ Told /\ OneError
=============================================================================
