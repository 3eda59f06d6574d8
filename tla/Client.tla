------------------------------- MODULE Client -------------------------------
(***************************************************************************)
(* The native client: main() from its menu to the last close, the typing   *)
(* loop (gameLoop) and the refresh thread (refreshScreen) that share one   *)
(* socket, one mutex and the flags hasFinalTimes and serverDisconnected.   *)
(* The engine at the far end of the connection and the player at the       *)
(* keyboard are the environment.                                           *)
(*                                                                         *)
(* Bytes of the engine are tokens: "LEN" is the ten-byte length in front   *)
(* of the first message, "STATE" that message; a later message is an       *)
(* object of three tokens, so that a recv() may end inside of it.  A key   *)
(* is the bytes the terminal sends for it, an arrow key three of them.     *)
(* The kernel's input queue (tty) and the C library's buffer for stdin     *)
(* (stdio) are separate, because select() looks at the first and getchar() *)
(* at the second.                                                          *)
(*                                                                         *)
(* A step of a thread is what it does between two points where the other   *)
(* thread may interfere.  What is drawn, the prompts for host, lobby and   *)
(* name, and allocation failures are left out.                             *)
(*                                                                         *)
(* A definition whose comment starts with "Fault:" is no part of the       *)
(* specification: it is a plausible mistake in the one that follows.       *)
(***************************************************************************)
EXTENDS Words

CONSTANTS
    Lines,            \* lines of the input file the engine takes a sentence from
    Keys,             \* keys the player presses, each the sequence of its bytes
    Presses,          \* how many keys he presses at most (bound)
    Ahead,            \* he presses a key only if fewer bytes than that are unread (bound)
    PlayerWordMax,    \* characters playerWord has room for
    ChunkMax,         \* most tokens one recv() returns
    AccumMax,         \* tokens accum[] has room for
    Updates,          \* progress messages the engine sends at most (bound)
    PlayerCount,
    Times             \* race times, not positive for a player who did not finish

ASSUME ClientAssumption ==
    /\ Lines \cup Keys \subseteq Seq(STRING) /\ SentencesOf(Lines) # {}
    /\ {Presses, Ahead, Updates, AccumMax} \subseteq Nat
    /\ {PlayerWordMax, ChunkMax, PlayerCount} \subseteq Nat \ {0}
    /\ AccumMax > ChunkMax + 3     \* sizeof(accum) leaves room for a message and a recv()
    /\ Times \subseteq Int

VARIABLES
    stage,                 \* where main() is
    selected, esc,         \* menu(): selected item; bytes of an escape sequence it has read
    sock,                  \* the connection's descriptor
    activeSocket,          \* is client->activeSocket >= 0
    closes,                \* history: times the descriptor was closed
    misdirected,           \* history: shutdown() was called on a closed descriptor
    engine, stream,        \* the engine's end; tokens on their way to the client
    updates, resultsSent,  \* progress messages sent; have the results been sent and not been lost
    sent,                  \* bytes sent to the engine after the handshake
    sentence,              \* the sentence of the race, in the engine's first message
    words, currentWordIndex, playerWord, charsDone, localFinished,
    typist, key,           \* where gameLoop is, the byte it handles
    mutex,
    refresh, accum,        \* where refreshScreen is, and its buffer
    hasFinalTimes, serverDisconnected,
    tty, stdio, eof, presses

menuVars == <<selected, esc>>
link == <<sock, activeSocket, closes, misdirected>>
far == <<engine, stream, updates, resultsSent>>
typed == <<words, currentWordIndex, playerWord, charsDone, localFinished>>
loop == <<typist, key>>
flags == <<hasFinalTimes, serverDisconnected>>
screen == <<refresh, accum>>
input == <<tty, stdio>>
keyboard == <<input, eof, presses>>

vars == <<stage, menuVars, link, far, sent, sentence, typed, loop, mutex, screen, flags,
          keyboard>>

Refusals == {"ROOM_FULL", "ERROR:", "SERVER_ERR"}
Tokens == Refusals \cup {"LEN", "STATE", "lbrace", "progress", "times", "rbrace"}
Bytes == {"LF"} \cup UNION {Range(k) : k \in Keys}
Stages == {"menu", "create", "connect", "lobby", "body", "race", "after", "prompt", "over"}

\* What the client makes of each sentence it may be sent.
WordsOf == [s \in SentencesOf(Lines) |-> parseSentence(s)]

wordCount == Len(words)

ControlTypes ==
    /\ stage \in Stages /\ selected \in 0 .. 2 /\ esc \in 0 .. 2
    /\ sock \in {"none", "open", "shut", "closed"}
    /\ activeSocket \in BOOLEAN /\ closes \in 0 .. 1 /\ misdirected \in BOOLEAN
    /\ typist \in {"none", "top", "handle", "drain", "left", "shutdown", "join"}
    /\ mutex \in {"free", "typist", "refresh"}
    /\ refresh \in {"none", "recv", "show", "final", "lost", "closing", "last", "ended"}
    /\ hasFinalTimes \in BOOLEAN /\ serverDisconnected \in BOOLEAN

StreamTypes ==
    /\ engine \in {"absent", "waiting", "racing", "finished", "gone"}
    /\ stream \in Seq(Tokens) /\ updates \in 0 .. Updates /\ resultsSent \in BOOLEAN
    /\ accum \in Seq(Tokens) /\ Len(accum) < AccumMax

TextTypes ==
    /\ sent \in Seq({"3", "2"}) /\ sentence \in SentencesOf(Lines)
    /\ words \in {<<>>, WordsOf[sentence]}
    /\ currentWordIndex \in 0 .. wordCount /\ charsDone \in Nat /\ localFinished \in BOOLEAN
    /\ playerWord \in Seq(Bytes) /\ Len(playerWord) <= PlayerWordMax
    /\ key \in Bytes \cup {"none"}
    /\ tty \in Seq(Bytes) /\ stdio \in Seq(Bytes) /\ eof \in BOOLEAN /\ presses \in 0 .. Presses

TypeOK == ControlTypes /\ StreamTypes /\ TextTypes

\* With --host, --port or --lobby the client joins without showing its menu.
Init ==
    /\ stage \in {"menu", "connect"} /\ selected = 0 /\ esc = 0
    /\ sock = "none" /\ activeSocket = FALSE /\ closes = 0 /\ misdirected = FALSE
    /\ engine = "absent" /\ stream = <<>> /\ updates = 0 /\ resultsSent = FALSE
    /\ sent = <<>> /\ sentence \in SentencesOf(Lines)
    /\ words = <<>> /\ currentWordIndex = 0 /\ playerWord = <<>> /\ charsDone = 0 /\ localFinished = FALSE
    /\ typist = "none" /\ key = "none" /\ mutex = "free"
    /\ refresh = "none" /\ accum = <<>>
    /\ hasFinalTimes = FALSE /\ serverDisconnected = FALSE
    /\ tty = <<>> /\ stdio = <<>> /\ eof = FALSE /\ presses = 0

-----------------------------------------------------------------------------
(* The keyboard and stdin. *)

\* A key's bytes reach the kernel's queue together.
Press ==
    /\ stage \in {"menu", "race"} /\ ~eof /\ presses < Presses /\ Len(tty) < Ahead
    /\ \E k \in Keys : tty' = tty \o k
    /\ presses' = presses + 1
    /\ UNCHANGED <<stage, menuVars, link, far, sent, sentence, typed, loop, mutex, screen, flags,
                   stdio, eof>>

\* "Press Enter to exit...": in line mode nothing reaches the program before Enter.
Enter ==
    /\ stage = "prompt" /\ ~eof /\ tty = <<>> /\ tty' = <<"LF">>
    /\ UNCHANGED <<stage, menuVars, link, far, sent, sentence, typed, loop, mutex, screen, flags,
                   stdio, eof, presses>>

StdinEnds ==
    /\ stage \in {"menu", "race", "prompt"} /\ ~eof /\ eof' = TRUE
    /\ UNCHANGED <<stage, menuVars, link, far, sent, sentence, typed, loop, mutex, screen, flags,
                   input, presses>>

\* select() on the descriptor does not see what the C library has buffered.
Readable == tty # <<>> \/ eof

\* getchar() takes a byte from the buffer, or fills the buffer with all the kernel has.
NextByte == IF stdio # <<>> THEN Head(stdio) ELSE Head(tty)
HasByte == stdio # <<>> \/ tty # <<>>
GetChar ==
    /\ HasByte
    /\ IF stdio # <<>> THEN stdio' = Tail(stdio) /\ UNCHANGED tty
       ELSE stdio' = Tail(tty) /\ tty' = <<>>

\* tcflush before and after the race drops what the kernel has, not what the C library has read.
FlushInput == tty' = <<>> /\ UNCHANGED stdio

-----------------------------------------------------------------------------
(* The menu. *)

ItemAbove == IF selected > 0 THEN selected - 1 ELSE selected
ItemBelow == IF selected < 2 THEN selected + 1 ELSE selected

\* A letter or Enter.  The prompts that follow a choice read whole lines.
MenuKey ==
    /\ stage = "menu" /\ esc = 0 /\ HasByte
    /\ \/ /\ NextByte = "LF" /\ stage' = <<"create", "connect", "over">>[selected + 1]
          /\ tty' = <<>> /\ stdio' = <<>> /\ selected' = 0 /\ UNCHANGED esc
       \/ /\ NextByte # "LF" /\ GetChar /\ UNCHANGED stage
          /\ selected' = CASE NextByte = "s" -> ItemBelow [] NextByte = "w" -> ItemAbove
                           [] OTHER -> selected
          /\ esc' = IF NextByte = "ESC" THEN 1 ELSE 0
    /\ UNCHANGED <<link, far, sent, sentence, typed, loop, mutex, screen, flags, eof, presses>>

\* After ESC the menu takes '[' and the arrow's letter if select() reports them in time.
MenuEscape ==
    /\ stage = "menu" /\ esc > 0
    /\ \/ ~Readable /\ esc' = 0 /\ UNCHANGED <<selected, input>>
       \/ Readable /\ ~HasByte /\ esc' = 0 /\ UNCHANGED <<selected, input>>
       \/ /\ Readable /\ GetChar
          /\ esc' = IF esc = 1 /\ NextByte = "[" THEN 2 ELSE 0
          /\ selected' = CASE esc = 2 /\ NextByte = "A" -> ItemAbove
                           [] esc = 2 /\ NextByte = "B" -> ItemBelow
                           [] OTHER -> selected
    /\ UNCHANGED <<stage, link, far, sent, sentence, typed, loop, mutex, screen, flags, eof,
                   presses>>

MenuEnds ==
    /\ stage = "menu" /\ esc = 0 /\ ~HasByte /\ eof /\ stage' = "over"
    /\ UNCHANGED <<menuVars, link, far, sent, sentence, typed, loop, mutex, screen, flags,
                   keyboard>>

-----------------------------------------------------------------------------
(* main() before the race. *)

\* CREATE goes over a connection of its own, closed before its answer is looked at.
CreateRoom ==
    /\ stage = "create"
    /\ \E answer \in {"ok", "error", "nothing", "unreachable"} :
          stage' = IF answer = "ok" THEN "connect" ELSE "over"
    /\ UNCHANGED <<menuVars, link, far, sent, sentence, typed, loop, mutex, screen, flags,
                   keyboard>>

\* connect_to_server and the JOIN line; a send_all that fails closes the socket.
Connect ==
    /\ stage = "connect"
    /\ \/ /\ stage' = "over" /\ UNCHANGED <<sock, closes, engine>>
       \/ /\ sock' = "open" /\ engine' = "waiting" /\ stage' = "lobby" /\ UNCHANGED closes
       \/ /\ sock' = "closed" /\ closes' = closes + 1 /\ stage' = "over" /\ UNCHANGED engine
    /\ UNCHANGED <<menuVars, activeSocket, misdirected, stream, updates, resultsSent, sent,
                   sentence, typed, loop, mutex, screen, flags, keyboard>>

Broken == stream = <<>> /\ engine = "gone"

\* Fault: the client leaves without closing its connection.
AbandonSocket == UNCHANGED <<sock, closes>>

\* main() gives up before the race.
CloseSocket == sock' = "closed" /\ closes' = closes + 1

\* recv_all of the ten bytes: a refusal, the length of the first message, or the end.
ReadHeader ==
    /\ stage = "lobby"
    /\ \/ /\ Broken \/ (stream # <<>> /\ Head(stream) \in Refusals)
          /\ CloseSocket /\ stage' = "over" /\ UNCHANGED stream
       \/ /\ stream # <<>> /\ Head(stream) = "LEN"
          /\ stream' = Tail(stream) /\ stage' = "body" /\ UNCHANGED <<sock, closes>>
    /\ UNCHANGED <<menuVars, activeSocket, misdirected, engine, updates, resultsSent, sent,
                   sentence, typed, loop, mutex, screen, flags, keyboard>>

BodyFails ==
    /\ stage = "body"
    /\ \/ Broken
       \/ stream # <<>> /\ WordsOf[sentence] = <<>>    \* "Empty or invalid race sentence"
    /\ CloseSocket /\ stage' = "over"
    /\ UNCHANGED <<menuVars, activeSocket, misdirected, far, sent, sentence, typed, loop, mutex,
                   screen, flags, keyboard>>

\* The first message is complete: Client is filled in and, after the countdown, gameLoop
\* starts the refresh thread.  What the engine sends meanwhile waits in the socket.
StartRace ==
    /\ stage = "body" /\ stream # <<>>
    /\ words' = WordsOf[sentence] /\ words' # <<>>
    /\ stream' = Tail(stream) /\ activeSocket' = TRUE /\ stage' = "race"
    /\ FlushInput
    /\ typist' = "top" /\ refresh' = "recv"
    /\ UNCHANGED <<menuVars, sock, closes, misdirected, engine, updates, resultsSent, sent,
                   sentence, currentWordIndex, playerWord, charsDone, localFinished, key, mutex, accum, flags,
                   eof, presses>>

-----------------------------------------------------------------------------
(* The engine. *)

Sends(tokens) == stream' = stream \o tokens

EngineRefuses ==
    /\ stage = "lobby" /\ engine = "waiting" /\ engine' = "gone"
    /\ \E r \in Refusals : Sends(<<r>>)
    /\ UNCHANGED <<stage, menuVars, link, updates, resultsSent, sent, sentence, typed, loop,
                   mutex, screen, flags, keyboard>>

EngineStarts ==
    /\ stage = "lobby" /\ engine = "waiting" /\ engine' = "racing" /\ Sends(<<"LEN", "STATE">>)
    /\ UNCHANGED <<stage, menuVars, link, updates, resultsSent, sent, sentence, typed, loop,
                   mutex, screen, flags, keyboard>>

EngineUpdates ==
    /\ engine = "racing" /\ sock = "open" /\ updates < Updates
    /\ Sends(<<"lbrace", "progress", "rbrace">>) /\ updates' = updates + 1
    /\ UNCHANGED <<stage, menuVars, link, engine, resultsSent, sent, sentence, typed, loop,
                   mutex, screen, flags, keyboard>>

EngineResults ==
    /\ engine = "racing" /\ sock = "open" /\ engine' = "finished"
    /\ Sends(<<"lbrace", "times", "rbrace">>) /\ resultsSent' = TRUE
    /\ UNCHANGED <<stage, menuVars, link, updates, sent, sentence, typed, loop, mutex, screen,
                   flags, keyboard>>

\* An orderly end lets the client read what is on its way, a broken connection does not.
EngineGoes ==
    /\ stage # "over" /\ engine \notin {"absent", "gone"} /\ engine' = "gone"
    /\ \/ UNCHANGED <<stream, resultsSent>>
       \/ stream # <<>> /\ stream' = <<>> /\ resultsSent' = FALSE
    /\ UNCHANGED <<stage, menuVars, link, updates, sent, sentence, typed, loop, mutex, screen,
                   flags, keyboard>>

-----------------------------------------------------------------------------
(* gameLoop, the typing thread. *)

typistFrame == <<stage, menuVars, sock, activeSocket, closes, far, sentence, refresh, accum,
                 flags, eof, presses>>

Told == serverDisconnected \/ hasFinalTimes

\* playerInput is a variable of the loop's body.
Proceed(where) == typist' = where /\ key' = "none"

\* The head of the loop, or the second look at the flags when a key has come.
LeaveLoop ==
    /\ typist \in {"top", "handle"} /\ mutex = "free" /\ Told /\ Proceed("left")
    /\ UNCHANGED <<typistFrame, misdirected, sent, typed, mutex, input>>

\* select() reports a byte or the end of stdin, getchar() gets it.  A player who has
\* finished waits here for the others and no longer reads.
ReadKey ==
    /\ typist = "top" /\ mutex = "free" /\ ~Told /\ ~localFinished /\ Readable
    /\ \/ GetChar /\ key' = NextByte /\ typist' = "handle"
       \/ ~HasByte /\ typist' = "left" /\ UNCHANGED <<key, input>>
    /\ UNCHANGED <<typistFrame, misdirected, sent, typed, mutex>>

Handling == typist = "handle" /\ mutex = "free" /\ ~Told

\* ESC: getchar() for as long as select() reports something, with the mutex held.
KeyEscape ==
    /\ Handling /\ key = "ESC" /\ mutex' = "typist" /\ Proceed("drain")
    /\ UNCHANGED <<typistFrame, misdirected, sent, typed, input>>

Drain ==
    /\ typist = "drain"
    /\ \/ /\ Readable /\ UNCHANGED <<mutex, typist>>
          /\ GetChar \/ (~HasByte /\ UNCHANGED input)
       \/ ~Readable /\ mutex' = "free" /\ typist' = "top" /\ UNCHANGED input
    /\ UNCHANGED <<typistFrame, misdirected, sent, typed, key>>

Printable(c) == c \notin {"BS", "LF", "ESC"}

\* Fault: a backspace in an empty word moves the cursor all the same.
EraseAlways ==
    /\ playerWord' = IF playerWord = <<>> THEN <<>> ELSE Front(playerWord)
    /\ charsDone' = IF charsDone > 0 THEN charsDone - 1 ELSE 0

Erase ==
    IF playerWord = <<>> THEN UNCHANGED <<playerWord, charsDone>>
    ELSE playerWord' = Front(playerWord) /\ charsDone' = charsDone - 1

KeyErase ==
    /\ Handling /\ key = "BS" /\ Erase /\ Proceed("top")
    /\ UNCHANGED <<typistFrame, misdirected, sent, words, currentWordIndex, localFinished, mutex,
                   input>>

\* What does not print, and anything after the last word, is ignored.
KeyIgnored ==
    /\ Handling /\ key \notin {"ESC", "BS"}
    /\ ~Printable(key) \/ currentWordIndex >= wordCount
    /\ Proceed("top")
    /\ UNCHANGED <<typistFrame, misdirected, sent, typed, mutex, input>>

CurrentWord == words[currentWordIndex + 1]
Typing == Handling /\ Printable(key) /\ currentWordIndex < wordCount
WordTyped == key = "SP" /\ playerWord = CurrentWord

\* A space after the right word: the next word, and '3' to the engine.
KeyWordDone ==
    /\ Typing /\ WordTyped
    /\ currentWordIndex' = currentWordIndex + 1
    /\ playerWord' = <<>> /\ charsDone' = charsDone + 1
    /\ sent' = Append(sent, "3") /\ Proceed("top")
    /\ UNCHANGED <<typistFrame, misdirected, words, localFinished, mutex, input>>

\* The characters from the current word to the end of the sentence, one between words.
getRemainingChars ==
    CharsUpTo(words)[wordCount] - CharsUpTo(words)[currentWordIndex] + (wordCount - 1 - currentWordIndex)

\* Fault: playerWord grows past its array.
appendAlways(c) == Append(playerWord, c)

appendChar(c) == IF Len(playerWord) < PlayerWordMax THEN Append(playerWord, c) ELSE playerWord

\* Fault: the whole sentence counts as typed when any word is.
FinishesAnyWord == playerWord' = CurrentWord

\* The last word is complete.
Finishes == currentWordIndex = wordCount - 1 /\ playerWord' = CurrentWord

KeyTyped ==
    /\ Typing /\ ~WordTyped /\ Proceed("top")
    /\ IF Len(playerWord) >= getRemainingChars
       THEN UNCHANGED <<playerWord, charsDone, localFinished, sent>>
       ELSE /\ playerWord' = appendChar(key)
            /\ charsDone' = charsDone + (Len(playerWord') - Len(playerWord))
            /\ localFinished' = Finishes
            /\ sent' = IF Finishes THEN Append(sent, "2") ELSE sent
    /\ UNCHANGED <<typistFrame, misdirected, words, currentWordIndex, mutex, input>>

\* After the loop, without the mutex: is there a socket ...
CheckSocket ==
    /\ typist = "left" /\ typist' = IF activeSocket THEN "shutdown" ELSE "join"
    /\ UNCHANGED <<typistFrame, misdirected, sent, typed, key, mutex, input>>

shutFrame == <<stage, menuVars, activeSocket, closes, far, sent, sentence, typed, key, mutex,
               screen, flags, keyboard>>

\* Fault: the typing thread waits for the refresh thread without waking it.
LeaveOpen == UNCHANGED sock

ShutDown == sock' = IF activeSocket /\ sock = "open" THEN "shut" ELSE sock

\* ... then shut it down.  activeSocket is read again: it may be -1 by now, or closed.
Shutdown ==
    /\ typist = "shutdown" /\ typist' = "join" /\ ShutDown
    /\ misdirected' = (misdirected \/ (activeSocket /\ sock = "closed"))
    /\ UNCHANGED shutFrame

Join ==
    /\ typist = "join" /\ refresh = "ended" /\ typist' = "none" /\ stage' = "after"
    /\ UNCHANGED <<menuVars, link, far, sent, sentence, typed, key, mutex, screen, flags,
                   keyboard>>

-----------------------------------------------------------------------------
(* refreshScreen, the refresh thread. *)

refreshFrame == <<stage, menuVars, misdirected, engine, updates, resultsSent, sent, sentence,
                  typed, loop, keyboard>>
noLink == <<sock, activeSocket, closes>>

\* The buffer's part from the last opening brace on, if that is not the whole of it.
FromLastBrace(buffer) ==
    LET opens == {i \in DOMAIN buffer : buffer[i] = "lbrace"}
        last == CHOOSE i \in opens : \A j \in opens : j <= i
    IN  IF opens = {} \/ last = 1 THEN <<>> ELSE SubSeq(buffer, last, Len(buffer))

\* What a recv() returned goes behind what is there; if there is no room, old text makes
\* place, and if that is not enough the new text is dropped.
Accumulate(buffer, chunk) ==
    LET rest == IF Len(buffer) + Len(chunk) < AccumMax - 1 THEN buffer ELSE FromLastBrace(buffer)
    IN  IF Len(rest) + Len(chunk) < AccumMax - 1 THEN rest \o chunk ELSE rest

Opening(buffer) == {i \in DOMAIN buffer : buffer[i] = "lbrace"}

\* The closing braces at which the depth, counted from the object's start, is back at none.
Closing(buffer, start) ==
    LET Count(c, j) == Cardinality({i \in start .. j : buffer[i] = c})
    IN  {j \in start .. Len(buffer) :
            buffer[j] = "rbrace" /\ Count("lbrace", j) = Count("rbrace", j)}

\* Fault: the rest of a recv() is forgotten with the object in front of it.
ForgetRest(buffer, end) == <<>>

AfterObject(buffer, end) == SubSeq(buffer, end + 1, Len(buffer))

\* The first object of the buffer: none (text before an incomplete one is dropped), the
\* final times, or a progress message, which is cut from the buffer.
Parse(buffer) ==
    LET start == Min(Opening(buffer))
        ends == Closing(buffer, start)
    IN  IF Opening(buffer) = {} THEN refresh' = "recv" /\ accum' = <<>>
        ELSE IF ends = {} THEN refresh' = "recv" /\ accum' = SubSeq(buffer, start, Len(buffer))
        ELSE IF "times" \in Range(SubSeq(buffer, start, Min(ends)))
        THEN refresh' = "final" /\ accum' = buffer
        ELSE refresh' = "show" /\ accum' = AfterObject(buffer, Min(ends))

\* The buffer is the thread's own: no step of another thread falls between a recv() and
\* the next point where the mutex is needed.
Receive ==
    /\ refresh = "recv"
    /\ \/ \E n \in 1 .. Min({ChunkMax, Len(stream)}) :
             /\ Parse(Accumulate(accum, SubSeq(stream, 1, n)))
             /\ stream' = SubSeq(stream, n + 1, Len(stream))
       \/ /\ stream = <<>> /\ (engine = "gone" \/ sock # "open")
          /\ refresh' = "lost" /\ UNCHANGED <<accum, stream>>
    /\ UNCHANGED <<refreshFrame, noLink, mutex, flags>>

\* d->progress is replaced and drawn under the mutex; then the next object.
ShowProgress ==
    /\ refresh = "show" /\ mutex = "free" /\ Parse(accum)
    /\ UNCHANGED <<refreshFrame, noLink, stream, mutex, flags>>

FinalTimes ==
    /\ refresh = "final" /\ mutex = "free" /\ refresh' = "last"
    /\ hasFinalTimes' = TRUE /\ serverDisconnected' = TRUE
    /\ UNCHANGED <<refreshFrame, noLink, stream, accum, mutex>>

\* Fault: the typing thread is told before the descriptor is closed.
TellsFirst == serverDisconnected' = TRUE /\ UNCHANGED <<mutex, hasFinalTimes>>

TakesMutex == mutex' = "refresh" /\ UNCHANGED flags

\* The connection has ended: close it ...
LosesConnection ==
    /\ refresh = "lost" /\ mutex = "free" /\ TakesMutex /\ refresh' = "closing"
    /\ IF activeSocket THEN CloseSocket ELSE UNCHANGED <<sock, closes>>
    /\ UNCHANGED <<refreshFrame, activeSocket, stream, accum>>

\* Fault: activeSocket keeps the number of the closed descriptor.
KeepsNumber == UNCHANGED activeSocket

ForgetsNumber == activeSocket' = FALSE

\* ... and only then overwrite activeSocket and tell the typing thread.
TellsDisconnected ==
    /\ refresh = "closing" /\ mutex' = "free" /\ refresh' = "last"
    /\ ForgetsNumber
    /\ serverDisconnected' = TRUE
    /\ UNCHANGED <<refreshFrame, sock, closes, stream, accum, hasFinalTimes>>

RefreshEnds ==
    /\ refresh = "last" /\ mutex = "free" /\ refresh' = "ended" /\ serverDisconnected' = TRUE
    /\ accum' = <<>>
    /\ UNCHANGED <<refreshFrame, noLink, stream, mutex, hasFinalTimes>>

-----------------------------------------------------------------------------
(* The results and the end of main(). *)

\* Fault: players are ordered by time alone.
SwapsByTime(a, b) == a > b

\* Of two places, must the players change: positive times ascending, the others last.
Swaps(a, b) == (a <= 0 /\ b > 0) \/ (a > 0 /\ b > 0 /\ a > b)

\* Two places of the order change their players.
Exchanged(times, order, i, j) ==
    IF i < j /\ Swaps(times[order[i]], times[order[j]])
    THEN [order EXCEPT ![i] = order[j], ![j] = order[i]]
    ELSE order

\* The inner loop of the exchange sort: place i against each place behind it.
PassUpTo(times, order, i) ==
    LET after[j \in 0 .. PlayerCount] ==
            IF j = 0 THEN order ELSE Exchanged(times, after[j - 1], i, j)
    IN  after

\* Its outer loop: every place in turn.
SortUpTo(times) ==
    LET after[i \in 0 .. PlayerCount] ==
            IF i = 0 THEN [k \in 1 .. PlayerCount |-> k]
            ELSE PassUpTo(times, after[i - 1], i)[PlayerCount]
    IN  after
sortedIndexes(times) == SortUpTo(times)[PlayerCount]

\* The leaderboard, or that there are no results; leftover keystrokes are dropped.
Prompt ==
    /\ stage = "after" /\ stage' = "prompt" /\ FlushInput
    /\ UNCHANGED <<menuVars, link, far, sent, sentence, typed, loop, mutex, screen, flags, eof,
                   presses>>

\* getchar() returns; gameDestroy closes the socket unless the refresh thread has.
Finish ==
    /\ stage = "prompt" /\ stage' = "over"
    /\ GetChar \/ (~HasByte /\ eof /\ UNCHANGED input)
    /\ IF activeSocket THEN CloseSocket ELSE UNCHANGED <<sock, closes>>
    /\ activeSocket' = FALSE
    /\ UNCHANGED <<menuVars, misdirected, far, sent, sentence, typed, loop, mutex, screen, flags,
                   eof, presses>>

Over == stage = "over" /\ UNCHANGED vars

Main == CreateRoom \/ Connect \/ ReadHeader \/ BodyFails \/ StartRace \/ Prompt \/ Finish
Menu == MenuKey \/ MenuEscape \/ MenuEnds
TypingThread == LeaveLoop \/ ReadKey \/ KeyEscape \/ Drain \/ KeyErase \/ KeyIgnored \/ KeyWordDone
                \/ KeyTyped \/ CheckSocket \/ Shutdown \/ Join
RefreshThread == Receive \/ ShowProgress \/ FinalTimes \/ LosesConnection
                 \/ TellsDisconnected \/ RefreshEnds
Engine == EngineRefuses \/ EngineStarts \/ EngineUpdates \/ EngineResults \/ EngineGoes
Player == Press \/ Enter \/ StdinEnds

Next == Main \/ Menu \/ TypingThread \/ RefreshThread \/ Engine \/ Player \/ Over

Spec == Init /\ [][Next]_vars

\* Threads are scheduled and system calls return; the engine and the player owe nothing.
FairSpec == Spec /\ WF_vars(Main) /\ WF_vars(TypingThread) /\ WF_vars(RefreshThread)

-----------------------------------------------------------------------------
(* Properties. *)

\* A race as the engine counts the words of its sentence.
HonestRace ==
    [s \in SentencesOf(Lines) |-> [i \in 1 .. countWords(s) - 1 |-> "3"] \o <<"2">>]

\* The engine accepts a finish at one word less than it counts (HubFinish of module Race).
\* Whatever the player presses, what the client sends is the beginning of what the engine
\* takes for an honest race: a '3' for each word but the last by the engine's own count,
\* then one '2'; and every word the client has passed has been reported.
SendsWhatEngineCounts ==
    LET honest == HonestRace[sentence]
    IN  /\ IsPrefix(sent, honest)
        /\ localFinished <=> sent = honest
        /\ ~localFinished => Len(sent) = currentWordIndex

\* charsDone, from which the cursor is placed, is what the player has typed: the passed
\* words, a blank after each, and the characters of playerWord, also after erasing, after
\* junk and when playerWord is full.
CursorFollowsText ==
    charsDone = CharsUpTo(words)[currentWordIndex] + currentWordIndex + Len(playerWord)

\* Both threads and main() close the connection on some path: by the end it was closed
\* once if it was opened, whoever was first (server gone, results, stdin ended).
ClosedOnce == stage = "over" => closes = (IF sock = "none" THEN 0 ELSE 1) /\ sock \in {"none", "closed"}

\* shutdown() after the typing loop is called without the mutex that protects closing.
\* Leaving the loop by the flags makes it safe, because they are set after the close under
\* the same mutex; only a loop left because stdin ended can hit a closed descriptor.
ShutdownOfOpenSocket == misdirected => eof

\* Once the engine's results have been sent and not been lost on the way, they are in the
\* stream, in the buffer or recorded, however the bytes were cut into pieces and whatever
\* ended the typing loop; so a client that ends without them did not get them.
ResultsNotLost == resultsSent => "times" \in Range(stream) \cup Range(accum) \/ hasFinalTimes

SortedFor(times) ==
    LET board == sortedIndexes(times) IN
    /\ Range(board) = 1 .. PlayerCount
    /\ \A i, j \in 1 .. PlayerCount : i < j /\ times[board[j]] > 0 =>
          times[board[i]] > 0 /\ times[board[i]] <= times[board[j]]
SortsAllTimes == \A times \in [1 .. PlayerCount -> Times] : SortedFor(times)

\* Whatever times the results bring, the leaderboard names every player once, those who
\* finished in front and the faster before the slower (showResults).
LeaderboardSorted == stage = "prompt" /\ hasFinalTimes => SortsAllTimes

\* The client comes to its end: a typing loop that is left gets its refresh thread back, and when
\* the engine is gone the race ends, unless stdin ended too (an escape sequence cut off by the end
\* of stdin is drained for ever, with the mutex held).  The program then waits for Enter, and it
\* is over once Enter is pressed or stdin ends; a player who does neither keeps it there.
ClientEnds ==
    /\ typist = "left" ~> stage \in {"prompt", "over"}
    /\ engine = "gone" ~> (stage \in {"prompt", "over"} \/ eof)
    /\ (stage = "prompt" /\ (HasByte \/ eof)) ~> stage = "over"

\* src/client/client.c:77 "Escape sequence (e.g. arrow keys) - consume trailing bytes": the
\* bytes behind an ESC do not become part of the word.
EscapesConsumed == "[" \notin Range(playerWord)

-----------------------------------------------------------------------------
(* The inductive invariant behind the safety properties of the connection. *)

\* Who has the mutex, and where each thread is in which part of main().
Threads ==
    /\ mutex = "typist" <=> typist = "drain"
    /\ mutex = "refresh" <=> refresh = "closing"
    /\ stage \in {"menu", "create", "connect", "lobby", "body"} => typist = "none" /\ refresh = "none"
    /\ stage = "race" => typist # "none" /\ refresh # "none"
    /\ stage \in {"after", "prompt"} => typist = "none" /\ refresh = "ended"
    /\ stage = "over" => typist = "none" /\ refresh \in {"none", "ended"}

\* What has become of the descriptor.
Descriptor ==
    /\ closes = IF sock = "closed" THEN 1 ELSE 0
    /\ stage \in {"menu", "create", "connect"} => sock = "none"
    /\ stage \in {"lobby", "body"} => sock = "open"
    /\ stage \in {"race", "after", "prompt"} => sock # "none" /\ (~activeSocket => sock = "closed")
    /\ stage \notin {"race", "after", "prompt"} => ~activeSocket
    /\ stage = "over" => sock \in {"none", "closed"}
    /\ refresh \in {"recv", "show", "final", "lost"} => activeSocket /\ sock # "closed"
    /\ activeSocket /\ sock = "closed" <=> refresh = "closing"

\* The typing thread leaves its loop when it is told to, or when stdin has ended; it is told
\* only when the refresh thread has done with the socket.
Leaving ==
    /\ Told => refresh \in {"last", "ended"}
    /\ typist \in {"left", "shutdown", "join"} => Told \/ eof
    /\ misdirected => eof

IInv == ControlTypes /\ Threads /\ Descriptor /\ Leaving

-----------------------------------------------------------------------------
(* The inductive invariant behind ResultsNotLost. *)

\* From place d + 1 on, s is objects one behind the other, the last one perhaps cut off.
ObjectsFrom(s, d) ==
    \A k \in d + 1 .. Len(s) :
        /\ (k - d) % 3 = 1 => s[k] = "lbrace"
        /\ (k - d) % 3 = 2 => s[k] \in {"progress", "times"}
        /\ (k - d) % 3 = 0 => s[k] = "rbrace"

\* Before the race the stream is a refusal, or the first message and whole objects behind it.
FirstMessage ==
    /\ stage \in {"menu", "create", "connect"} => engine = "absent"
    /\ engine \in {"absent", "waiting"} => stream = <<>> /\ ~resultsSent
    /\ refresh = "none" => accum = <<>>
    /\ stage = "lobby" =>
          \/ stream = <<>> /\ engine \in {"waiting", "gone"}
          \/ engine = "gone" /\ \E r \in Refusals : stream = <<r>>
          \/ /\ Len(stream) >= 2 /\ stream[1] = "LEN" /\ stream[2] = "STATE"
             /\ ObjectsFrom(stream, 2) /\ (Len(stream) - 2) % 3 = 0
    /\ stage = "body" =>
          \/ stream = <<>> /\ engine = "gone"
          \/ /\ Len(stream) >= 1 /\ stream[1] = "STATE"
             /\ ObjectsFrom(stream, 1) /\ (Len(stream) - 1) % 3 = 0

\* The buffer of the refresh thread and the stream behind it are objects, the last of them
\* whole unless the connection broke with the results not sent or lost; before it waits for
\* bytes the thread has taken every whole object out of its buffer.
Objects ==
    /\ refresh \in {"recv", "show"} =>
          /\ ObjectsFrom(accum \o stream, 0)
          /\ engine # "gone" \/ resultsSent => Len(accum \o stream) % 3 = 0
    /\ refresh = "recv" => Len(accum) <= 2
    /\ refresh \in {"lost", "closing", "last", "ended"} =>
          hasFinalTimes \/ (~resultsSent /\ (engine = "gone" \/ sock # "open"))

StreamInv == StreamTypes /\ FirstMessage /\ Objects /\ ResultsNotLost

-----------------------------------------------------------------------------
(* The inductive invariant behind what is typed and sent. *)

\* The race has words while there is a typing thread; before it nothing is typed.  Until he
\* has finished the player has sent a '3' for each word he has passed, is never behind the
\* last word, and what he has typed of the last one is no longer than that and not yet it.
Text ==
    /\ stage \in {"menu", "create", "connect", "lobby", "body"} => words = <<>>
    /\ typist # "none" => words # <<>>
    /\ typist = "handle" => key \in Bytes /\ ~localFinished
    /\ words = <<>> => currentWordIndex = 0 /\ playerWord = <<>> /\ ~localFinished
    /\ words # <<>> => currentWordIndex < wordCount
    /\ ~localFinished => sent = [i \in 1 .. currentWordIndex |-> "3"]
    /\ localFinished => currentWordIndex = wordCount - 1 /\ sent = HonestRace[sentence]
    /\ words # <<>> /\ ~localFinished /\ currentWordIndex = wordCount - 1 =>
          Len(playerWord) <= Len(CurrentWord) /\ playerWord # CurrentWord

TextInv == TextTypes /\ Text /\ CursorFollowsText
=============================================================================
