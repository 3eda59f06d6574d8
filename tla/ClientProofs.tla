---------------------------- MODULE ClientProofs ----------------------------
(***************************************************************************)
(* Proofs about Client for every file of sentences, every keyboard, every  *)
(* size of the buffers and every number of messages: the descriptor is     *)
(* closed once and never shut down after that unless stdin has ended, and  *)
(* results the engine has sent are not lost on the way to the player.      *)
(***************************************************************************)
EXTENDS Client, WordsProofs, FiniteSetTheorems

-----------------------------------------------------------------------------
(* The threads and the descriptor. *)

\* Parsing sends the refresh thread to one of three places and touches nothing but the
\* thread's own variables.
LEMMA ParseGoesOn ==
    ASSUME NEW b, Parse(b)
    PROVE  refresh' \in {"recv", "show", "final"}
  BY DEF Parse

\* The client starts without a connection and without threads.
LEMMA InitIInv == Init => IInv
<1> SUFFICES ASSUME Init PROVE IInv
  OBVIOUS
<1>1. ControlTypes
  <2>1. stage \in Stages /\ selected \in 0 .. 2 /\ esc \in 0 .. 2
    BY DEF Init, Stages
  <2>2. sock \in {"none", "open", "shut", "closed"} /\ closes \in 0 .. 1
    BY DEF Init
  <2>5. activeSocket \in BOOLEAN /\ misdirected \in BOOLEAN
    BY DEF Init
  <2>3. /\ typist \in {"none", "top", "handle", "drain", "left", "shutdown", "join"}
        /\ mutex \in {"free", "typist", "refresh"}
    BY DEF Init
  <2>4. /\ refresh \in {"none", "recv", "show", "final", "lost", "closing", "last", "ended"}
        /\ hasFinalTimes \in BOOLEAN /\ serverDisconnected \in BOOLEAN
    BY DEF Init
  <2> QED
    BY <2>1, <2>2, <2>3, <2>4, <2>5 DEF ControlTypes
<1>2. Threads
  BY DEF Init, Threads
<1>3. Descriptor
  BY DEF Init, Descriptor
<1>4. Leaving
  BY DEF Init, Leaving, Told
<1> QED
  BY <1>1, <1>2, <1>3, <1>4 DEF IInv

\* A step that changes none of the variables of the connection and the threads keeps IInv.
LEMMA FrameIInv ==
    ASSUME IInv, UNCHANGED <<stage, menuVars, link, typist, mutex, refresh, flags>>,
           eof => eof'
    PROVE  IInv'
  BY DEF IInv, ControlTypes, Threads, Descriptor, Leaving, Stages, Told, menuVars, link, flags

\* The steps of main() and of its menu keep IInv.
LEMMA MainIInv == ASSUME IInv, Main \/ Menu PROVE IInv'
<1> USE DEF IInv, ControlTypes, Threads, Descriptor, Leaving, Stages, Told
<1>1. CASE CreateRoom
  BY <1>1 DEF CreateRoom, menuVars, link, loop, screen, flags, keyboard
<1>2. CASE Connect
  BY <1>2 DEF Connect, menuVars, loop, screen, flags, keyboard
<1>3. CASE ReadHeader
  BY <1>3 DEF ReadHeader, CloseSocket, menuVars, loop, screen, flags, keyboard
<1>4. CASE BodyFails
  BY <1>4 DEF BodyFails, CloseSocket, menuVars, loop, screen, flags, keyboard
<1>5. CASE StartRace
  BY <1>5 DEF StartRace, menuVars, flags
<1>6. CASE Finish
  <2> USE DEF Finish, menuVars, loop, screen, flags
  <2>1. sock' = "closed" /\ closes' = 1
    <3>1. refresh = "ended" /\ stage = "prompt"
      BY <1>6
    <3>2. CASE activeSocket
      <4>1. sock # "closed" /\ closes = 0
        BY <3>1, <3>2
      <4> QED
        BY <1>6, <3>2, <4>1 DEF CloseSocket
    <3>3. CASE ~activeSocket
      <4>1. sock = "closed" /\ closes = 1
        BY <3>1, <3>3
      <4> QED
        BY <1>6, <3>3, <4>1
    <3> QED
      BY <3>2, <3>3
  <2>2. ControlTypes'
    <3>1. activeSocket' \in BOOLEAN /\ misdirected' \in BOOLEAN
      BY <1>6
    <3>2. stage' \in Stages /\ sock' \in {"none", "open", "shut", "closed"} /\ closes' \in 0 .. 1
      BY <1>6, <2>1
    <3> QED
      BY <1>6, <3>1, <3>2
  <2>5. Threads'
    BY <1>6
  <2>3. Descriptor'
    BY <1>6, <2>1
  <2>4. Leaving'
    BY <1>6
  <2> QED
    BY <2>2, <2>3, <2>4, <2>5
<1>7. CASE MenuKey
  BY <1>7 DEF MenuKey, ItemAbove, ItemBelow, link, loop, screen, flags
<1>8. CASE MenuEscape
  BY <1>8 DEF MenuEscape, ItemAbove, ItemBelow, link, loop, screen, flags
<1>9. CASE MenuEnds
  BY <1>9 DEF MenuEnds, menuVars, link, loop, screen, flags, keyboard
<1>10. CASE Prompt
  BY <1>10 DEF Prompt, menuVars, link, loop, screen, flags
<1> QED
  BY <1>1, <1>2, <1>3, <1>4, <1>5, <1>6, <1>7, <1>8, <1>9, <1>10 DEF Main, Menu

\* The steps of the typing thread keep IInv: only Drain holds the mutex between steps, and
\* the loop is left only when the flags say so or stdin has ended.
LEMMA TypingIInv == ASSUME IInv, TypingThread PROVE IInv'
<1> USE DEF IInv, ControlTypes, Threads, Descriptor, Leaving, Stages, Told, menuVars, far, flags
<1>1. CASE LeaveLoop
  BY <1>1 DEF LeaveLoop, Proceed, typistFrame
<1>2. CASE ReadKey
  BY <1>2 DEF ReadKey, Readable, HasByte, typistFrame
<1>3. CASE KeyEscape
  BY <1>3 DEF KeyEscape, Handling, Proceed, typistFrame
<1>4. CASE Drain
  BY <1>4 DEF Drain, typistFrame
<1>5. CASE KeyErase
  BY <1>5 DEF KeyErase, Handling, Proceed, typistFrame
<1>6. CASE KeyIgnored
  BY <1>6 DEF KeyIgnored, Handling, Proceed, typistFrame
<1>7. CASE KeyWordDone
  BY <1>7 DEF KeyWordDone, Typing, Handling, Proceed, typistFrame
<1>8. CASE KeyTyped
  BY <1>8 DEF KeyTyped, Typing, Handling, Proceed, typistFrame
<1>9. CASE CheckSocket
  BY <1>9 DEF CheckSocket, typistFrame
<1>10. CASE Shutdown
  BY <1>10 DEF Shutdown, ShutDown, shutFrame, screen, keyboard
<1>11. CASE Join
  BY <1>11 DEF Join, link, screen, keyboard
<1> QED
  BY <1>1, <1>2, <1>3, <1>4, <1>5, <1>6, <1>7, <1>8, <1>9, <1>10, <1>11 DEF TypingThread

\* The steps of the refresh thread keep IInv: it closes the descriptor with the mutex held,
\* and gives the mutex back together with the flag.
LEMMA RefreshIInv == ASSUME IInv, RefreshThread PROVE IInv'
<1> USE DEF IInv, ControlTypes, Threads, Descriptor, Leaving, Stages, Told, refreshFrame, menuVars,
            loop, keyboard
<1>1. CASE Receive
  BY <1>1, ParseGoesOn DEF Receive, noLink, flags
<1>2. CASE ShowProgress
  BY <1>2, ParseGoesOn DEF ShowProgress, noLink, flags
<1>3. CASE FinalTimes
  BY <1>3 DEF FinalTimes, noLink
<1>4. CASE LosesConnection
  BY <1>4 DEF LosesConnection, TakesMutex, CloseSocket, flags
<1>5. CASE TellsDisconnected
  BY <1>5 DEF TellsDisconnected, ForgetsNumber
<1>6. CASE RefreshEnds
  BY <1>6 DEF RefreshEnds, noLink
<1> QED
  BY <1>1, <1>2, <1>3, <1>4, <1>5, <1>6 DEF RefreshThread

\* The engine and the player touch nothing IInv is about, but the end of stdin.
LEMMA OthersIInv == ASSUME IInv, Engine \/ Player PROVE IInv'
<1>1. CASE Engine
  <2> USE DEF menuVars, link, loop, screen, flags, keyboard
  <2>1. CASE EngineRefuses
    BY <2>1, FrameIInv DEF EngineRefuses
  <2>2. CASE EngineStarts
    BY <2>2, FrameIInv DEF EngineStarts
  <2>3. CASE EngineUpdates
    BY <2>3, FrameIInv DEF EngineUpdates
  <2>4. CASE EngineResults
    BY <2>4, FrameIInv DEF EngineResults
  <2>5. CASE EngineGoes
    BY <2>5, FrameIInv DEF EngineGoes
  <2> QED
    BY <1>1, <2>1, <2>2, <2>3, <2>4, <2>5 DEF Engine
<1>2. CASE Player
  BY <1>2, FrameIInv DEF Player, Press, Enter, StdinEnds, menuVars, link, loop, screen, flags
<1> QED
  BY <1>1, <1>2

\* IInv: who holds the mutex in each place of the two threads, in which part of main() which
\* thread exists, what has become of the descriptor, and why the typing loop was left.
THEOREM Invariance == Spec => []IInv
<1>1. IInv /\ [Next]_vars => IInv'
  <2> SUFFICES ASSUME IInv, [Next]_vars PROVE IInv'
    OBVIOUS
  <2>1. CASE Over \/ UNCHANGED vars
    BY <2>1, FrameIInv DEF Over, vars, menuVars, link, loop, screen, flags, keyboard
  <2> QED
    BY <2>1, MainIInv, TypingIInv, RefreshIInv, OthersIInv DEF Next
<1> QED
  BY <1>1, InitIInv, PTL DEF Spec

\* Whoever was first to close the connection (the refresh thread that lost it, main() when
\* it gave up, gameDestroy), at the end it was closed exactly once if it was ever opened.
THEOREM ClosesOnce == Spec => []ClosedOnce
<1>1. IInv => ClosedOnce
  BY DEF IInv, Descriptor, ControlTypes, ClosedOnce
<1> QED
  BY <1>1, Invariance, PTL

\* The unlocked shutdown() after the typing loop never hits a closed descriptor when the
\* loop was left by the flags: they are set only after the close, under the same mutex.
THEOREM ShutsOpenSocket == Spec => []ShutdownOfOpenSocket
<1>1. IInv => ShutdownOfOpenSocket
  BY DEF IInv, Leaving, ShutdownOfOpenSocket
<1> QED
  BY <1>1, Invariance, PTL

-----------------------------------------------------------------------------
(* Objects in a sequence of tokens. *)

\* A token is in a sequence if it is at one of its places.
LEMMA InRange ==
    ASSUME NEW s \in Seq(Tokens), NEW x
    PROVE  x \in Range(s) <=> \E i \in 1 .. Len(s) : s[i] = x
  BY DEF Range

\* The engine puts a whole object behind whole objects.
LEMMA SendObject ==
    ASSUME NEW s \in Seq(Tokens), NEW d \in 0 .. 2, Len(s) >= d, ObjectsFrom(s, d),
           (Len(s) - d) % 3 = 0, NEW x \in {"progress", "times"}
    PROVE  LET t == s \o <<"lbrace", x, "rbrace">>
           IN  /\ t \in Seq(Tokens) /\ Len(t) = Len(s) + 3 /\ t[Len(s) + 2] = x
               /\ \A i \in 1 .. Len(s) : t[i] = s[i]
               /\ ObjectsFrom(t, d) /\ (Len(t) - d) % 3 = 0
<1> DEFINE o == <<"lbrace", x, "rbrace">>
           t == s \o o
<1>1. o \in Seq(Tokens) /\ Len(o) = 3 /\ o[1] = "lbrace" /\ o[2] = x /\ o[3] = "rbrace"
  <2>1. "lbrace" \in Tokens /\ x \in Tokens /\ "rbrace" \in Tokens
    BY DEF Tokens
  <2>2. o \in Seq(Tokens)
    <3> HIDE DEF Tokens
    <3> QED
      BY <2>1
  <2>3. Len(o) = 3 /\ o[1] = "lbrace" /\ o[2] = x /\ o[3] = "rbrace"
    OBVIOUS
  <2> QED
    BY <2>2, <2>3
<1> HIDE DEF o
<1>7. /\ t \in Seq(Tokens) /\ Len(t) = Len(s) + Len(o)
      /\ \A i \in 1 .. Len(s) + Len(o) : t[i] = IF i <= Len(s) THEN s[i] ELSE o[i - Len(s)]
  BY <1>1, ConcatProperties
<1> HIDE DEF t
<1>2. t \in Seq(Tokens) /\ Len(t) = Len(s) + 3
  BY <1>1, <1>7
<1>3. ASSUME NEW i \in 1 .. Len(s) PROVE t[i] = s[i]
  <2>1. i \in 1 .. Len(s) + Len(o) /\ i <= Len(s)
    BY <1>1
  <2> QED
    BY <1>7, <2>1
<1>4. t[Len(s) + 1] = "lbrace" /\ t[Len(s) + 2] = x /\ t[Len(s) + 3] = "rbrace"
  <2>1. ASSUME NEW i \in 1 .. 3 PROVE t[Len(s) + i] = o[i]
    <3>1. PICK k : k = Len(s) + i
      OBVIOUS
    <3>2. k \in 1 .. Len(s) + Len(o) /\ ~(k <= Len(s)) /\ k - Len(s) = i
      BY <1>1, <3>1
    <3> QED
      BY <1>7, <3>1, <3>2
  <2> QED
    BY <1>1, <2>1
<1>5. ObjectsFrom(t, d)
  <2> SUFFICES ASSUME NEW k \in d + 1 .. Len(t)
               PROVE  /\ (k - d) % 3 = 1 => t[k] = "lbrace"
                      /\ (k - d) % 3 = 2 => t[k] \in {"progress", "times"}
                      /\ (k - d) % 3 = 0 => t[k] = "rbrace"
    BY DEF ObjectsFrom
  <2>1. CASE k \in d + 1 .. Len(s)
    <3>1. t[k] = s[k]
      BY <1>3, <2>1
    <3> QED
      BY <2>1, <3>1 DEF ObjectsFrom
  <2>2. CASE k = Len(s) + 1
    <3>1. (k - d) % 3 = 1
      BY <2>2
    <3> QED
      BY <2>2, <3>1, <1>4
  <2>3. CASE k = Len(s) + 2
    <3>1. (k - d) % 3 = 2
      BY <2>3
    <3> QED
      BY <2>3, <3>1, <1>4
  <2>4. CASE k = Len(s) + 3
    <3>1. (k - d) % 3 = 0
      BY <2>4
    <3> QED
      BY <2>4, <3>1, <1>4
  <2>5. k \in d + 1 .. Len(s) \/ k = Len(s) + 1 \/ k = Len(s) + 2 \/ k = Len(s) + 3
    BY <1>2
  <2> HIDE DEF t
  <2> QED
    BY <2>1, <2>2, <2>3, <2>4, <2>5
<1>6. (Len(t) - d) % 3 = 0
  BY <1>2
<1> QED
  BY <1>2, <1>3, <1>4, <1>5, <1>6 DEF t, o

\* The first token in front of the objects is read.
LEMMA ReadToken ==
    ASSUME NEW s \in Seq(Tokens), NEW d \in 1 .. 2, Len(s) >= d, ObjectsFrom(s, d)
    PROVE  ObjectsFrom(Tail(s), d - 1)
<1>1. s # <<>> /\ Len(Tail(s)) = Len(s) - 1 /\ \A i \in 1 .. Len(s) - 1 : Tail(s)[i] = s[i + 1]
  OBVIOUS
<1> SUFFICES ASSUME NEW k \in (d - 1) + 1 .. Len(Tail(s))
             PROVE  /\ (k - (d - 1)) % 3 = 1 => Tail(s)[k] = "lbrace"
                    /\ (k - (d - 1)) % 3 = 2 => Tail(s)[k] \in {"progress", "times"}
                    /\ (k - (d - 1)) % 3 = 0 => Tail(s)[k] = "rbrace"
  BY DEF ObjectsFrom
<1>2. PICK m : m = k + 1
  OBVIOUS
<1>3. m \in d + 1 .. Len(s) /\ m - d = k - (d - 1) /\ Tail(s)[k] = s[m]
  BY <1>1, <1>2
<1> QED
  BY <1>3 DEF ObjectsFrom

\* What a recv() moves from the stream to the buffer stays in its place.
LEMMA ReadPart ==
    ASSUME NEW a \in Seq(Tokens), NEW s \in Seq(Tokens), NEW n \in 1 .. Len(s)
    PROVE  (a \o SubSeq(s, 1, n)) \o SubSeq(s, n + 1, Len(s)) = a \o s
<1>1. PICK u, v : u = SubSeq(s, 1, n) /\ v = SubSeq(s, n + 1, Len(s))
  OBVIOUS
<1>2. /\ u \in Seq(Tokens) /\ Len(u) = n /\ \A i \in 1 .. n : u[i] = s[i]
      /\ v \in Seq(Tokens) /\ Len(v) = Len(s) - n /\ \A i \in 1 .. Len(s) - n : v[i] = s[n + i]
  BY <1>1
<1>6. PICK w : w = a \o u
  OBVIOUS
<1>7. /\ w \in Seq(Tokens) /\ Len(w) = Len(a) + n
      /\ \A i \in 1 .. Len(a) + n : w[i] = IF i <= Len(a) THEN a[i] ELSE u[i - Len(a)]
  BY <1>2, <1>6, ConcatProperties, ZenonT(60)
<1>8. PICK t : t = w \o v
  OBVIOUS
<1>9. /\ t \in Seq(Tokens) /\ Len(t) = Len(w) + Len(v)
      /\ \A i \in 1 .. Len(w) + Len(v) : t[i] = IF i <= Len(w) THEN w[i] ELSE v[i - Len(w)]
  <2>1. w \in Seq(Tokens) /\ v \in Seq(Tokens)
    BY <1>2, <1>7
  <2> QED
    BY <2>1, <1>8, ConcatProperties
<1>10. /\ a \o s \in Seq(Tokens) /\ Len(a \o s) = Len(a) + Len(s)
       /\ \A i \in 1 .. Len(a) + Len(s) : (a \o s)[i] = IF i <= Len(a) THEN a[i] ELSE s[i - Len(a)]
  BY ConcatProperties
<1>3. Len(t) = Len(a \o s)
  BY <1>2, <1>7, <1>9, <1>10
<1>4. ASSUME NEW i \in 1 .. Len(t) PROVE t[i] = (a \o s)[i]
  <2>1. CASE i <= Len(a)
    BY <2>1, <1>2, <1>7, <1>9, <1>10
  <2>2. CASE i > Len(a) /\ i <= Len(w)
    <3>1. PICK m : m = i - Len(a)
      OBVIOUS
    <3>2. m \in 1 .. n /\ t[i] = u[m] /\ (a \o s)[i] = s[m]
      BY <2>2, <3>1, <1>2, <1>7, <1>9, <1>10
    <3> QED
      BY <3>2, <1>2
  <2>3. CASE i > Len(w)
    <3>1. PICK m : m = i - Len(w)
      OBVIOUS
    <3>2. m \in 1 .. Len(s) - n /\ t[i] = v[m] /\ (a \o s)[i] = s[n + m]
      BY <2>3, <3>1, <1>2, <1>7, <1>9, <1>10, SMTT(30)
    <3> QED
      BY <3>2, <1>2
  <2>4. i <= Len(a) \/ (i > Len(a) /\ i <= Len(w)) \/ i > Len(w)
    BY <1>7, <1>9
  <2> QED
    BY <2>1, <2>2, <2>3, <2>4
<1>5. t = a \o s
  BY <1>3, <1>4, <1>9, <1>10, SeqEqual
<1> QED
  BY <1>1, <1>5, <1>6, <1>8

\* The object in front of the buffer is cut off.
LEMMA CutObject ==
    ASSUME NEW b \in Seq(Tokens), NEW r \in Seq(Tokens), Len(b) >= 3, ObjectsFrom(b \o r, 0)
    PROVE  LET c == SubSeq(b, 4, Len(b))
           IN  /\ c \in Seq(Tokens) /\ Len(c) = Len(b) - 3
               /\ \A i \in 1 .. Len(b) - 3 : c[i] = b[i + 3]
               /\ ObjectsFrom(c \o r, 0) /\ Len(c \o r) = Len(b \o r) - 3
<1>1. PICK c : c = SubSeq(b, 4, Len(b))
  OBVIOUS
<1>2. /\ c \in Seq(Tokens) /\ Len(c) = Len(b) - 3
      /\ \A i \in 1 .. Len(b) - 3 : c[i] = b[i + 3]
  <2>1. /\ SubSeq(b, 4, Len(b)) \in Seq(Tokens)
        /\ Len(SubSeq(b, 4, Len(b))) = IF 4 <= Len(b) THEN Len(b) - 4 + 1 ELSE 0
        /\ \A i \in 1 .. Len(b) - 4 + 1 : SubSeq(b, 4, Len(b))[i] = b[4 + i - 1]
    <3>1. \A i \in 4 .. Len(b) : b[i] \in Tokens
      OBVIOUS
    <3> QED
      BY <3>1, SubSeqProperties
  <2>2. c \in Seq(Tokens) /\ Len(c) = Len(b) - 3
    <3>1. Len(b) - 4 + 1 = Len(b) - 3
      OBVIOUS
    <3> QED
      BY <1>1, <2>1, <3>1
  <2>3. ASSUME NEW i \in 1 .. Len(b) - 3 PROVE c[i] = b[i + 3]
    <3>1. i \in 1 .. Len(b) - 4 + 1 /\ 4 + i - 1 = i + 3
      OBVIOUS
    <3> QED
      BY <1>1, <2>1, <3>1
  <2> QED
    BY <2>2, <2>3
<1>5. /\ b \o r \in Seq(Tokens) /\ Len(b \o r) = Len(b) + Len(r)
      /\ \A i \in 1 .. Len(b) + Len(r) : (b \o r)[i] = IF i <= Len(b) THEN b[i] ELSE r[i - Len(b)]
  BY ConcatProperties
<1>6. /\ c \o r \in Seq(Tokens) /\ Len(c \o r) = Len(c) + Len(r)
      /\ \A i \in 1 .. Len(c) + Len(r) : (c \o r)[i] = IF i <= Len(c) THEN c[i] ELSE r[i - Len(c)]
  BY <1>2, ConcatProperties
<1>3. Len(c \o r) = Len(b \o r) - 3
  BY <1>2, <1>5, <1>6
<1>4. ObjectsFrom(c \o r, 0)
  <2> SUFFICES ASSUME NEW k \in 0 + 1 .. Len(c \o r)
               PROVE  /\ (k - 0) % 3 = 1 => (c \o r)[k] = "lbrace"
                      /\ (k - 0) % 3 = 2 => (c \o r)[k] \in {"progress", "times"}
                      /\ (k - 0) % 3 = 0 => (c \o r)[k] = "rbrace"
    BY DEF ObjectsFrom
  <2>1. PICK m : m = k + 3
    OBVIOUS
  <2>2. m \in 0 + 1 .. Len(b \o r) /\ (m - 0) % 3 = (k - 0) % 3
    BY <1>3, <1>6, <2>1
  <2>3. (c \o r)[k] = (b \o r)[m]
    <3>1. k \in 1 .. Len(c) + Len(r) /\ m \in 1 .. Len(b) + Len(r)
      BY <1>3, <1>5, <1>6, <2>1
    <3>2. CASE k <= Len(c)
      BY <1>2, <1>5, <1>6, <2>1, <3>1, <3>2
    <3>3. CASE k > Len(c)
      <4>1. k - Len(c) = m - Len(b)
        BY <1>2, <2>1
      <4> QED
        BY <1>2, <1>5, <1>6, <2>1, <3>1, <3>3, <4>1
    <3>4. k <= Len(c) \/ k > Len(c)
      BY <1>2
    <3> QED
      BY <3>2, <3>3, <3>4
  <2>4. PICK t : t = b \o r
    OBVIOUS
  <2>5. /\ (m - 0) % 3 = 1 => t[m] = "lbrace"
        /\ (m - 0) % 3 = 2 => t[m] \in {"progress", "times"}
        /\ (m - 0) % 3 = 0 => t[m] = "rbrace"
    BY <2>2, <2>4 DEF ObjectsFrom
  <2> QED
    BY <2>2, <2>3, <2>4, <2>5
<1> QED
  BY <1>1, <1>2, <1>3, <1>4

\* The least element of a set of numbers.
LEMMA LeastIs ==
    ASSUME NEW S \in SUBSET Int, NEW x \in S, \A y \in S : x <= y
    PROVE  Min(S) = x
<1> DEFINE P(z) == \A y \in S : z <= y
<1>1. P(x) /\ \A z \in S : P(z) => z = x
  OBVIOUS
<1>2. Min(S) = CHOOSE z \in S : P(z)
  BY DEF Min
<1> HIDE DEF P
<1> QED
  BY <1>1, <1>2

\* Over objects the parser takes what it should: nothing, an incomplete object, the results,
\* or one progress message, behind which it cuts.
LEMMA ParseObjects ==
    ASSUME NEW b \in Seq(Tokens), NEW r \in Seq(Tokens), ObjectsFrom(b \o r, 0), Parse(b)
    PROVE  \/ b = <<>> /\ refresh' = "recv" /\ accum' = <<>>
           \/ Len(b) \in 1 .. 2 /\ refresh' = "recv" /\ accum' = b
           \/ Len(b) >= 3 /\ b[2] = "times" /\ refresh' = "final" /\ accum' = b
           \/ Len(b) >= 3 /\ b[2] # "times" /\ refresh' = "show" /\ accum' = SubSeq(b, 4, Len(b))
<1>1. ASSUME NEW k \in 1 .. Len(b)
      PROVE  /\ k % 3 = 1 => b[k] = "lbrace"
             /\ k % 3 = 2 => b[k] \in {"progress", "times"}
             /\ k % 3 = 0 => b[k] = "rbrace"
  <2>1. k \in 0 + 1 .. Len(b \o r) /\ (b \o r)[k] = b[k] /\ k - 0 = k
    BY ConcatProperties
  <2> QED
    BY <2>1 DEF ObjectsFrom
<1>2. CASE b = <<>>
  <2>1. Opening(b) = {}
    BY <1>2 DEF Opening
  <2> QED
    BY <1>2, <2>1 DEF Parse
<1>3. CASE b # <<>>
  <2>1. Len(b) >= 1 /\ b[1] = "lbrace"
    <3>1. Len(b) >= 1 /\ 1 \in 1 .. Len(b) /\ 1 % 3 = 1
      BY <1>3
    <3> QED
      BY <3>1, <1>1
  <2>2. Min(Opening(b)) = 1 /\ Opening(b) # {}
    <3>1. 1 \in Opening(b) /\ Opening(b) \in SUBSET Int /\ \A y \in Opening(b) : 1 <= y
      BY <2>1 DEF Opening
    <3> QED
      BY <3>1, LeastIs
  <2>3. ASSUME NEW j \in Closing(b, 1) PROVE j \in 1 .. Len(b) /\ j >= 3
    <3>1. j \in 1 .. Len(b) /\ b[j] = "rbrace"
      BY DEF Closing
    <3>2. j # 1
      BY <3>1, <2>1
    <3>3. j # 2
      <4>1. 2 % 3 = 2
        OBVIOUS
      <4> QED
        BY <3>1, <4>1, <1>1
    <3> QED
      BY <3>1, <3>2, <3>3
  <2>4. CASE Len(b) <= 2
    <3>1. Closing(b, 1) = {}
      BY <2>3, <2>4
    <3>2. SubSeq(b, 1, Len(b)) = b
      BY SubSeqFull
    <3> QED
      BY <2>1, <2>2, <2>4, <3>1, <3>2 DEF Parse
  <2>5. CASE Len(b) >= 3
    <3>1. 1 \in 1 .. Len(b) /\ 2 \in 1 .. Len(b) /\ 3 \in 1 .. Len(b)
      BY <2>5
    <3>2. b[2] \in {"progress", "times"} /\ b[3] = "rbrace"
      <4>1. 2 % 3 = 2 /\ 3 % 3 = 0
        OBVIOUS
      <4> QED
        BY <3>1, <4>1, <1>1
    <3>3. {i \in 1 .. 3 : b[i] = "lbrace"} = {1} /\ {i \in 1 .. 3 : b[i] = "rbrace"} = {3}
      <4>1. \A i \in 1 .. 3 : i = 1 \/ i = 2 \/ i = 3
        OBVIOUS
      <4> QED
        BY <2>1, <3>2, <4>1
    <3>4. 3 \in Closing(b, 1)
      <4>1. Cardinality({1}) = Cardinality({3})
        BY FS_Singleton
      <4> QED
        BY <3>1, <3>2, <3>3, <4>1 DEF Closing
    <3>5. Min(Closing(b, 1)) = 3 /\ Closing(b, 1) # {}
      <4>1. Closing(b, 1) \in SUBSET Int /\ \A y \in Closing(b, 1) : 3 <= y
        BY <2>3
      <4> QED
        BY <3>4, <4>1, LeastIs
    <3>6. "times" \in Range(SubSeq(b, 1, 3)) <=> b[2] = "times"
      <4>1. PICK t : t = SubSeq(b, 1, 3)
        OBVIOUS
      <4>2. t \in Seq(Tokens) /\ Len(t) = 3 /\ t[1] = b[1] /\ t[2] = b[2] /\ t[3] = b[3]
        BY <2>5, <4>1
      <4>3. "times" \in Range(t) <=> \E i \in 1 .. 3 : t[i] = "times"
        BY <4>2, InRange, SMTT(30)
      <4> QED
        BY <2>1, <3>2, <4>1, <4>2, <4>3
    <3>7. CASE b[2] = "times"
      BY <2>2, <2>5, <3>5, <3>6, <3>7 DEF Parse
    <3>8. CASE b[2] # "times"
      <4>1. AfterObject(b, 3) = SubSeq(b, 4, Len(b))
        BY DEF AfterObject
      <4> QED
        BY <2>2, <2>5, <3>5, <3>6, <3>8, <4>1 DEF Parse
    <3> QED
      BY <3>7, <3>8
  <2> QED
    BY <2>4, <2>5
<1> QED
  BY <1>2, <1>3

-----------------------------------------------------------------------------
(* No results are lost. *)

\* Nothing is on its way before there is a connection.
LEMMA InitStream == Init => StreamInv
<1> SUFFICES ASSUME Init PROVE StreamInv
  OBVIOUS
<1>1. stream = <<>> /\ accum = <<>> /\ ~resultsSent /\ engine = "absent" /\ refresh = "none"
      /\ updates = 0 /\ stage \in {"menu", "connect"} /\ resultsSent \in BOOLEAN
  BY DEF Init
<1>2. StreamTypes
  <2>1. Len(accum) < AccumMax /\ updates \in 0 .. Updates
    BY <1>1, ClientAssumption
  <2>2. stream \in Seq(Tokens) /\ accum \in Seq(Tokens)
    BY <1>1
  <2> QED
    BY <1>1, <2>1, <2>2 DEF StreamTypes
<1>3. FirstMessage
  BY <1>1 DEF FirstMessage
<1>4. Objects /\ ResultsNotLost
  BY <1>1 DEF Objects, ResultsNotLost
<1> QED
  BY <1>2, <1>3, <1>4 DEF StreamInv

\* Nothing is lost by a step that leaves the engine, the stream and the refresh thread alone
\* and at most gives the connection up.
LEMMA FrameStream ==
    ASSUME StreamInv, UNCHANGED <<far, screen, hasFinalTimes>>,
           sock' = sock \/ sock' # "open",
           \/ stage' = stage
           \/ stage' \in {"race", "after", "prompt", "over"}
           \/ stage \in {"menu", "create"} /\ stage' \in {"menu", "create", "connect"}
    PROVE  StreamInv'
<1> USE DEF far, screen, StreamInv
<1>1. StreamTypes'
  BY DEF StreamTypes
<1>2. FirstMessage'
  BY DEF FirstMessage
<1>3. Objects'
  BY DEF Objects
<1>4. ResultsNotLost'
  BY DEF ResultsNotLost
<1> QED
  BY <1>1, <1>2, <1>3, <1>4

\* The keyboard, the menu, the typing thread and the ends of main() are such steps.
LEMMA QuietSteps ==
    ASSUME IInv, StreamInv,
           \/ Player \/ Menu \/ TypingThread
           \/ CreateRoom \/ BodyFails \/ Prompt \/ Finish \/ Over \/ UNCHANGED vars
    PROVE  StreamInv'
<1> USE FrameStream DEF far, screen, flags
<1>1. CASE Player
  BY <1>1 DEF Player, Press, Enter, StdinEnds, link
<1>2. CASE MenuKey
  BY <1>2 DEF MenuKey, link, IInv, ControlTypes
<1>3. CASE MenuEscape
  BY <1>3 DEF MenuEscape, link
<1>4. CASE MenuEnds
  BY <1>4 DEF MenuEnds, link
<1>5. CASE TypingThread
  <2>1. CASE LeaveLoop \/ ReadKey \/ KeyEscape \/ Drain \/ KeyErase \/ KeyIgnored
    BY <2>1 DEF LeaveLoop, ReadKey, KeyEscape, Drain, KeyErase, KeyIgnored, typistFrame
  <2>2. CASE KeyWordDone \/ KeyTyped \/ CheckSocket
    BY <2>2 DEF KeyWordDone, KeyTyped, CheckSocket, typistFrame
  <2>3. CASE Shutdown
    BY <2>3 DEF Shutdown, ShutDown, shutFrame
  <2>4. CASE Join
    BY <2>4 DEF Join, link
  <2> QED
    BY <1>5, <2>1, <2>2, <2>3, <2>4 DEF TypingThread
<1>6. CASE CreateRoom
  BY <1>6 DEF CreateRoom, link
<1>7. CASE BodyFails
  BY <1>7 DEF BodyFails, CloseSocket
<1>8. CASE Finish
  BY <1>8 DEF Finish, CloseSocket
<1>9. CASE Over \/ UNCHANGED vars
  BY <1>9 DEF Over, vars, link
<1>10. CASE Prompt
  BY <1>10 DEF Prompt, link
<1> QED
  BY <1>1, <1>2, <1>3, <1>4, <1>5, <1>6, <1>7, <1>8, <1>9, <1>10 DEF Menu

\* The connection is made: nothing has been sent on it.
LEMMA ConnectStream == ASSUME IInv, StreamInv, Connect PROVE StreamInv'
<1>1. stream = <<>> /\ ~resultsSent /\ refresh = "none"
  BY DEF Connect, StreamInv, FirstMessage, IInv, Threads
<1>2. UNCHANGED <<stream, updates, resultsSent, refresh, accum, hasFinalTimes>>
  BY DEF Connect, screen, flags
<1>3. stage' \in {"lobby", "over"} /\ engine' \in {engine, "waiting"} /\ (stage' = "lobby" => engine' = "waiting")
  BY DEF Connect
<1>4. StreamTypes'
  BY <1>2, <1>3 DEF StreamInv, StreamTypes
<1>5. FirstMessage'
  BY <1>1, <1>2, <1>3 DEF StreamInv, FirstMessage
<1>6. Objects'
  BY <1>1, <1>2 DEF Objects
<1>7. ResultsNotLost'
  BY <1>1, <1>2 DEF ResultsNotLost
<1> QED
  BY <1>4, <1>5, <1>6, <1>7 DEF StreamInv

\* Reading the first token of a sequence that is not the results loses none of them.
LEMMA ReadOther ==
    ASSUME NEW s \in Seq(Tokens), s # <<>>, s[1] # "times", "times" \in Range(s)
    PROVE  "times" \in Range(Tail(s))
<1>1. PICK i \in 1 .. Len(s) : s[i] = "times"
  BY InRange
<1>2. PICK k : k = i - 1
  OBVIOUS
<1>3. Tail(s) \in Seq(Tokens) /\ Len(Tail(s)) = Len(s) - 1 /\ k \in 1 .. Len(s) - 1 /\ Tail(s)[k] = s[i]
  BY <1>1, <1>2
<1> QED
  BY <1>1, <1>3, InRange

\* The header is read: a refusal carries no results, the first message follows its length.
LEMMA HeaderStream == ASSUME IInv, StreamInv, ReadHeader PROVE StreamInv'
<1>1. UNCHANGED <<engine, updates, resultsSent, refresh, accum, hasFinalTimes>> /\ stage = "lobby"
      /\ refresh = "none"
  BY DEF ReadHeader, screen, flags, IInv, Threads
<1>2. CASE stage' = "over" /\ UNCHANGED stream /\ CloseSocket
  <2>1. sock' # "open"
    BY <1>2 DEF CloseSocket
  <2> QED
    BY <1>1, <1>2, <2>1, FrameStream DEF far, screen
<1>3. CASE stage' = "body" /\ stream # <<>> /\ Head(stream) = "LEN" /\ stream' = Tail(stream)
  <2>1. stream \in Seq(Tokens) /\ stream[1] = "LEN"
    BY <1>3 DEF StreamInv, StreamTypes
  <2>2. Len(stream) >= 2 /\ stream[2] = "STATE" /\ ObjectsFrom(stream, 2) /\ (Len(stream) - 2) % 3 = 0
    BY <1>1, <1>3, <2>1 DEF StreamInv, FirstMessage, Refusals
  <2>3. stream' \in Seq(Tokens) /\ Len(stream') = Len(stream) - 1 /\ stream'[1] = "STATE"
    BY <1>3, <2>1, <2>2
  <2>4. ObjectsFrom(stream', 1)
    <3>1. ObjectsFrom(Tail(stream), 2 - 1)
      BY <2>1, <2>2, ReadToken
    <3> QED
      BY <1>3, <3>1
  <2>5. engine \notin {"absent", "waiting"}
    BY <1>3 DEF StreamInv, FirstMessage
  <2>6. (Len(stream') - 1) % 3 = 0
    BY <2>2, <2>3
  <2>7. FirstMessage'
    BY <1>1, <1>3, <2>2, <2>3, <2>4, <2>5, <2>6 DEF FirstMessage, StreamInv
  <2>8. StreamTypes'
    BY <1>1, <2>3 DEF StreamTypes, StreamInv
  <2>9. Objects'
    BY <1>1 DEF Objects
  <2>10. ResultsNotLost'
    <3>1. "times" \in Range(stream) => "times" \in Range(stream')
      BY <1>3, <2>1, ReadOther
    <3> QED
      BY <1>1, <3>1 DEF StreamInv, ResultsNotLost
  <2> QED
    BY <2>7, <2>8, <2>9, <2>10 DEF StreamInv
<1> QED
  BY <1>2, <1>3 DEF ReadHeader

\* The first message is read, and the refresh thread starts with whole objects before it.
LEMMA StartStream == ASSUME IInv, StreamInv, StartRace PROVE StreamInv'
<1>1. UNCHANGED <<engine, updates, resultsSent, accum, hasFinalTimes>> /\ stage = "body" /\ stage' = "race"
      /\ refresh = "none" /\ refresh' = "recv" /\ stream # <<>> /\ stream' = Tail(stream)
  BY DEF StartRace, flags, IInv, Threads
<1>2. stream \in Seq(Tokens) /\ accum = <<>>
  BY <1>1 DEF StreamInv, StreamTypes, FirstMessage
<1>3. Len(stream) >= 1 /\ stream[1] = "STATE" /\ ObjectsFrom(stream, 1) /\ (Len(stream) - 1) % 3 = 0
  BY <1>1, <1>2 DEF StreamInv, FirstMessage
<1>4. stream' \in Seq(Tokens) /\ Len(stream') = Len(stream) - 1
  BY <1>1, <1>2
<1>5. ObjectsFrom(stream', 0)
  <2>1. ObjectsFrom(Tail(stream), 1 - 1)
    BY <1>2, <1>3, ReadToken
  <2> QED
    BY <1>1, <2>1
<1>6. accum' \o stream' = stream'
  BY <1>1, <1>2, <1>4, ConcatEmptySeq
<1>7. engine \notin {"absent", "waiting"}
  BY <1>1 DEF StreamInv, FirstMessage
<1>8. StreamTypes'
  BY <1>1, <1>4 DEF StreamTypes, StreamInv
<1>9. FirstMessage'
  BY <1>1, <1>7 DEF FirstMessage
<1>10. Objects'
  <2>1. Len(stream') % 3 = 0 /\ Len(accum') = 0
    BY <1>1, <1>2, <1>3, <1>4
  <2> QED
    BY <1>1, <1>5, <1>6, <2>1 DEF Objects
<1>11. ResultsNotLost'
  <2>1. "times" \in Range(stream) => "times" \in Range(stream')
    BY <1>1, <1>2, <1>3, ReadOther
  <2> QED
    BY <1>1, <2>1 DEF StreamInv, ResultsNotLost
<1> QED
  BY <1>8, <1>9, <1>10, <1>11 DEF StreamInv

\* The engine sends an object: wherever the first message is, the object goes behind it.
LEMMA ObjectSent ==
    ASSUME StreamInv, engine = "racing", sock = "open",
           NEW x \in {"progress", "times"}, Sends(<<"lbrace", x, "rbrace">>),
           UNCHANGED <<stage, sock, refresh, accum, hasFinalTimes>>,
           engine' \in {"racing", "finished"}, updates' \in 0 .. Updates, resultsSent' \in BOOLEAN,
           resultsSent' => resultsSent \/ x = "times"
    PROVE  StreamInv'
<1>1. PICK t : t = stream \o <<"lbrace", x, "rbrace">>
  OBVIOUS
<1>2. stream' = t /\ stream \in Seq(Tokens) /\ accum \in Seq(Tokens)
  BY <1>1 DEF Sends, StreamInv, StreamTypes
<1>3. t \in Seq(Tokens) /\ Len(t) = Len(stream) + 3 /\ t[Len(stream) + 2] = x
      /\ \A i \in 1 .. Len(stream) : t[i] = stream[i]
  <2>1. PICK o : o = <<"lbrace", x, "rbrace">>
    OBVIOUS
  <2>2. o \in Seq(Tokens)
    <3>1. "lbrace" \in Tokens /\ x \in Tokens /\ "rbrace" \in Tokens
      BY DEF Tokens
    <3> QED
      BY <2>1, <3>1
  <2>3. Len(o) = 3 /\ o[2] = x
    BY <2>1
  <2>4. /\ stream \o o \in Seq(Tokens) /\ Len(stream \o o) = Len(stream) + Len(o)
        /\ \A i \in 1 .. Len(stream) + Len(o) :
              (stream \o o)[i] = IF i <= Len(stream) THEN stream[i] ELSE o[i - Len(stream)]
    BY <1>2, <2>2, ConcatProperties
  <2>5. t \in Seq(Tokens) /\ Len(t) = Len(stream) + 3
    BY <1>1, <2>1, <2>3, <2>4
  <2>6. ASSUME NEW i \in 1 .. Len(stream) PROVE t[i] = stream[i]
    <3>1. i \in 1 .. Len(stream) + Len(o) /\ i <= Len(stream)
      BY <1>2, <2>3
    <3> QED
      BY <1>1, <2>1, <2>4, <3>1
  <2>7. t[Len(stream) + 2] = x
    <3>1. PICK k : k = Len(stream) + 2
      OBVIOUS
    <3>2. k \in 1 .. Len(stream) + Len(o) /\ ~(k <= Len(stream)) /\ k - Len(stream) = 2
      BY <1>2, <2>3, <3>1
    <3> QED
      BY <1>1, <2>1, <2>3, <2>4, <3>1, <3>2
  <2> QED
    BY <2>5, <2>6, <2>7
<1>4. StreamTypes'
  BY <1>2, <1>3 DEF StreamInv, StreamTypes
<1>5. ASSUME stage = "lobby" PROVE FirstMessage'
  <2>1. Len(stream) >= 2 /\ stream[1] = "LEN" /\ stream[2] = "STATE" /\ ObjectsFrom(stream, 2)
        /\ (Len(stream) - 2) % 3 = 0
    BY <1>5 DEF StreamInv, FirstMessage
  <2>2. ObjectsFrom(t, 2) /\ (Len(t) - 2) % 3 = 0
    <3>1. 2 \in 0 .. 2
      OBVIOUS
    <3> QED
      BY <1>1, <1>2, <2>1, <3>1, SendObject
  <2>3. t[1] = stream[1] /\ t[2] = stream[2] /\ Len(t) >= 2
    <3>1. 1 \in 1 .. Len(stream) /\ 2 \in 1 .. Len(stream)
      BY <1>2, <2>1
    <3> QED
      BY <1>2, <1>3, <2>1, <3>1
  <2> QED
    BY <1>2, <1>5, <2>1, <2>2, <2>3 DEF FirstMessage, StreamInv
<1>6. ASSUME stage = "body" PROVE FirstMessage'
  <2>1. Len(stream) >= 1 /\ stream[1] = "STATE" /\ ObjectsFrom(stream, 1)
        /\ (Len(stream) - 1) % 3 = 0
    BY <1>6 DEF StreamInv, FirstMessage
  <2>2. ObjectsFrom(t, 1) /\ (Len(t) - 1) % 3 = 0
    <3>1. 1 \in 0 .. 2
      OBVIOUS
    <3> QED
      BY <1>1, <1>2, <2>1, <3>1, SendObject
  <2>3. t[1] = stream[1] /\ Len(t) >= 1
    BY <1>2, <1>3, <2>1
  <2> QED
    BY <1>2, <1>6, <2>1, <2>2, <2>3 DEF FirstMessage, StreamInv
<1>7. FirstMessage'
  <2>1. CASE stage \notin {"lobby", "body"}
    BY <2>1 DEF FirstMessage, StreamInv
  <2> QED
    BY <2>1, <1>5, <1>6
<1>8. Objects'
  <2>1. CASE refresh \in {"recv", "show"}
    <3>1. PICK s : s = accum \o stream
      OBVIOUS
    <3>2. s \in Seq(Tokens) /\ ObjectsFrom(s, 0) /\ Len(s) % 3 = 0 /\ Len(s) >= 0 /\ (Len(s) - 0) % 3 = 0
      <4>1. s \in Seq(Tokens) /\ ObjectsFrom(s, 0) /\ Len(s) % 3 = 0
        BY <1>2, <2>1, <3>1 DEF StreamInv, Objects
      <4>2. Len(s) \in Nat
        BY <4>1
      <4> QED
        BY <4>1, <4>2
    <3>3. PICK o : o = <<"lbrace", x, "rbrace">>
      OBVIOUS
    <3>4. o \in Seq(Tokens)
      <4>1. "lbrace" \in Tokens /\ x \in Tokens /\ "rbrace" \in Tokens
        BY DEF Tokens
      <4> QED
        BY <3>3, <4>1
    <3>5. accum \o t = s \o o
      BY <1>1, <1>2, <3>1, <3>3, <3>4, ConcatAssociative, SMTT(30)
    <3>6. ObjectsFrom(s \o o, 0) /\ (Len(s \o o) - 0) % 3 = 0 /\ Len(s \o o) = Len(s) + 3
      <4>1. 0 \in 0 .. 2
        OBVIOUS
      <4> QED
        BY <3>2, <3>3, <4>1, SendObject
    <3>7. Len(s \o o) % 3 = 0
      BY <3>2, <3>6
    <3> QED
      BY <1>2, <2>1, <3>5, <3>6, <3>7 DEF Objects, StreamInv
  <2>2. CASE refresh \notin {"recv", "show"}
    BY <2>2 DEF Objects, StreamInv
  <2> QED
    BY <2>1, <2>2
<1>9. ResultsNotLost'
  <2>1. "times" \in Range(stream) => "times" \in Range(t)
    <3>1. \A i \in 1 .. Len(stream) : i \in 1 .. Len(t)
      BY <1>2, <1>3
    <3> QED
      BY <1>2, <1>3, <3>1, InRange
  <2>2. x = "times" => "times" \in Range(t)
    <3>1. Len(stream) + 2 \in 1 .. Len(t)
      BY <1>2, <1>3
    <3> QED
      BY <1>3, <3>1, InRange
  <2> QED
    BY <1>2, <2>1, <2>2 DEF ResultsNotLost, StreamInv
<1> QED
  BY <1>4, <1>7, <1>8, <1>9 DEF StreamInv

\* The steps of the engine lose nothing but what they say is lost.
LEMMA EngineStream == ASSUME IInv, StreamInv, Engine PROVE StreamInv'
<1> USE DEF menuVars, link, loop, screen, flags, keyboard
<1>1. CASE EngineRefuses
  <2>1. PICK r \in Refusals : Sends(<<r>>)
    BY <1>1 DEF EngineRefuses
  <2>2. stage = "lobby" /\ refresh = "none" /\ stream = <<>> /\ ~resultsSent /\ engine' = "gone"
        /\ UNCHANGED <<stage, refresh, accum, updates, resultsSent, hasFinalTimes>>
    BY <1>1 DEF EngineRefuses, StreamInv, FirstMessage, IInv, Threads
  <2>3. stream' = <<r>>
    BY <2>1, <2>2 DEF Sends
  <2>4. <<r>> \in Seq(Tokens)
    <3>1. r \in Tokens
      BY DEF Tokens
    <3> QED
      BY <3>1
  <2>5. StreamTypes'
    BY <2>2, <2>3, <2>4 DEF StreamInv, StreamTypes
  <2>6. FirstMessage'
    BY <2>2, <2>3 DEF StreamInv, FirstMessage
  <2>7. Objects' /\ ResultsNotLost'
    BY <2>2 DEF Objects, ResultsNotLost
  <2> QED
    BY <2>5, <2>6, <2>7 DEF StreamInv
<1>2. CASE EngineStarts
  <2>1. stage = "lobby" /\ refresh = "none" /\ stream = <<>> /\ ~resultsSent /\ engine' = "racing"
        /\ UNCHANGED <<stage, refresh, accum, updates, resultsSent, hasFinalTimes>>
    BY <1>2 DEF EngineStarts, StreamInv, FirstMessage, IInv, Threads
  <2>2. stream' = <<"LEN", "STATE">>
    BY <1>2, <2>1 DEF EngineStarts, Sends
  <2>3. stream' \in Seq(Tokens) /\ Len(stream') = 2 /\ stream'[1] = "LEN" /\ stream'[2] = "STATE"
    <3>1. "LEN" \in Tokens /\ "STATE" \in Tokens
      BY DEF Tokens
    <3> QED
      BY <2>2, <3>1
  <2>4. ObjectsFrom(stream', 2) /\ (Len(stream') - 2) % 3 = 0
    BY <2>3 DEF ObjectsFrom
  <2>5. StreamTypes'
    BY <2>1, <2>3 DEF StreamInv, StreamTypes
  <2>6. FirstMessage'
    BY <2>1, <2>3, <2>4 DEF StreamInv, FirstMessage
  <2>7. Objects' /\ ResultsNotLost'
    BY <2>1 DEF Objects, ResultsNotLost
  <2> QED
    BY <2>5, <2>6, <2>7 DEF StreamInv
<1>3. CASE EngineUpdates
  <2>1. updates' \in 0 .. Updates
    BY <1>3, ClientAssumption DEF EngineUpdates, StreamInv, StreamTypes
  <2>2. resultsSent \in BOOLEAN
    BY DEF StreamInv, StreamTypes
  <2>3. "progress" \in {"progress", "times"} /\ Sends(<<"lbrace", "progress", "rbrace">>)
        /\ engine = "racing" /\ sock = "open" /\ engine' \in {"racing", "finished"}
        /\ UNCHANGED <<stage, sock, refresh, accum, hasFinalTimes, resultsSent>>
    BY <1>3 DEF EngineUpdates
  <2> QED
    BY <2>1, <2>2, <2>3, ObjectSent
<1>4. CASE EngineResults
  <2>1. updates' \in 0 .. Updates
    BY <1>4 DEF EngineResults, StreamInv, StreamTypes
  <2>2. "times" \in {"progress", "times"} /\ Sends(<<"lbrace", "times", "rbrace">>)
        /\ engine = "racing" /\ sock = "open" /\ engine' \in {"racing", "finished"}
        /\ resultsSent' \in BOOLEAN /\ UNCHANGED <<stage, sock, refresh, accum, hasFinalTimes>>
    BY <1>4 DEF EngineResults
  <2> QED
    BY <2>1, <2>2, ObjectSent
<1>5. CASE EngineGoes
  <2>1. engine \notin {"absent", "gone"} /\ engine' = "gone"
        /\ UNCHANGED <<stage, sock, refresh, accum, updates, hasFinalTimes>>
    BY <1>5 DEF EngineGoes
  <2>2. CASE UNCHANGED <<stream, resultsSent>>
    <3>1. StreamTypes'
      BY <2>1, <2>2 DEF StreamInv, StreamTypes
    <3>2. FirstMessage'
      BY <2>1, <2>2 DEF StreamInv, FirstMessage
    <3>3. Objects'
      BY <2>1, <2>2 DEF StreamInv, Objects
    <3>4. ResultsNotLost'
      BY <2>1, <2>2 DEF StreamInv, ResultsNotLost
    <3> QED
      BY <3>1, <3>2, <3>3, <3>4 DEF StreamInv
  <2>3. CASE stream' = <<>> /\ resultsSent' = FALSE
    <3>1. StreamTypes'
      <4>1. <<>> \in Seq(Tokens)
        OBVIOUS
      <4> QED
        BY <2>1, <2>3, <4>1 DEF StreamInv, StreamTypes
    <3>2. FirstMessage'
      BY <2>1, <2>3 DEF StreamInv, FirstMessage
    <3>3. Objects'
      <4>1. ASSUME refresh \in {"recv", "show"} PROVE ObjectsFrom(accum \o <<>>, 0)
        <5>1. accum \in Seq(Tokens) /\ stream \in Seq(Tokens) /\ ObjectsFrom(accum \o stream, 0)
          BY <4>1 DEF StreamInv, StreamTypes, Objects
        <5>2. accum \o <<>> = accum
          BY <5>1, ConcatEmptySeq
        <5>3. ASSUME NEW k \in 0 + 1 .. Len(accum)
              PROVE  k \in 0 + 1 .. Len(accum \o stream) /\ (accum \o stream)[k] = accum[k]
          BY <5>1, ConcatProperties
        <5>4. ObjectsFrom(accum, 0)
          BY <5>1, <5>3 DEF ObjectsFrom
        <5> QED
          BY <5>2, <5>4
      <4> QED
        BY <2>1, <2>3, <4>1 DEF StreamInv, Objects
    <3>4. ResultsNotLost'
      BY <2>3 DEF ResultsNotLost
    <3> QED
      BY <3>1, <3>2, <3>3, <3>4 DEF StreamInv
  <2> QED
    BY <1>5, <2>2, <2>3 DEF EngineGoes
<1> QED
  BY <1>1, <1>2, <1>3, <1>4, <1>5 DEF Engine

\* A token is in one sequence behind another if it is in one of the two.
LEMMA InEither ==
    ASSUME NEW a \in Seq(Tokens), NEW s \in Seq(Tokens), NEW x
    PROVE  x \in Range(a \o s) <=> x \in Range(a) \/ x \in Range(s)
<1>1. PICK t : t = a \o s
  OBVIOUS
<1>2. /\ t \in Seq(Tokens) /\ Len(t) = Len(a) + Len(s)
      /\ \A i \in 1 .. Len(a) + Len(s) : t[i] = IF i <= Len(a) THEN a[i] ELSE s[i - Len(a)]
  BY <1>1, ConcatProperties
<1>3. ASSUME x \in Range(t) PROVE x \in Range(a) \/ x \in Range(s)
  <2>1. PICK i \in 1 .. Len(t) : t[i] = x
    BY <1>2, <1>3, InRange
  <2>2. CASE i <= Len(a)
    <3>1. i \in 1 .. Len(a) /\ a[i] = x
      BY <1>2, <2>1, <2>2
    <3> QED
      BY <3>1, InRange
  <2>3. CASE i > Len(a)
    <3>1. PICK k : k = i - Len(a)
      OBVIOUS
    <3>2. k \in 1 .. Len(s) /\ s[k] = x
      BY <1>2, <2>1, <2>3, <3>1
    <3> QED
      BY <3>2, InRange
  <2>4. i <= Len(a) \/ i > Len(a)
    BY <1>2
  <2> QED
    BY <2>2, <2>3, <2>4
<1>4. ASSUME x \in Range(a) PROVE x \in Range(t)
  <2>1. PICK i \in 1 .. Len(a) : a[i] = x
    BY <1>4, InRange
  <2>2. i \in 1 .. Len(t) /\ t[i] = x
    BY <1>2, <2>1
  <2> QED
    BY <1>2, <2>2, InRange
<1>5. ASSUME x \in Range(s) PROVE x \in Range(t)
  <2>1. PICK i \in 1 .. Len(s) : s[i] = x
    BY <1>5, InRange
  <2>2. PICK k : k = Len(a) + i
    OBVIOUS
  <2>3. k \in 1 .. Len(t) /\ k \in 1 .. Len(a) + Len(s) /\ ~(k <= Len(a)) /\ k - Len(a) = i
    BY <1>2, <2>2
  <2>4. t[k] = x
    BY <1>2, <2>1, <2>3
  <2> QED
    BY <1>2, <2>3, <2>4, InRange
<1> QED
  BY <1>1, <1>3, <1>4, <1>5

\* The parser loses no results, wherever the bytes were cut.
LEMMA ParsedStream ==
    ASSUME StreamInv, stage = "race", refresh \in {"recv", "show"},
           NEW b \in Seq(Tokens), NEW r \in Seq(Tokens), b \o r = accum \o stream,
           Len(b) < AccumMax, Parse(b), stream' = r, engine \in {"absent", "waiting"} => r = stream,
           UNCHANGED <<stage, sock, engine, updates, resultsSent, hasFinalTimes>>
    PROVE  StreamInv'
<1>1. ObjectsFrom(b \o r, 0) /\ (engine # "gone" \/ resultsSent => Len(b \o r) % 3 = 0)
  BY DEF StreamInv, Objects
<1>2. stream \in Seq(Tokens) /\ accum \in Seq(Tokens)
  BY DEF StreamInv, StreamTypes
<1>3. resultsSent => "times" \in Range(b) \/ "times" \in Range(r) \/ hasFinalTimes
  <2>1. resultsSent => "times" \in Range(accum \o stream) \/ hasFinalTimes
    BY <1>2, InEither DEF StreamInv, ResultsNotLost
  <2>2. "times" \in Range(b \o r) => "times" \in Range(b) \/ "times" \in Range(r)
    BY InEither
  <2> QED
    BY <2>1, <2>2
<1>4. FirstMessage'
  <2>1. refresh' # "none"
    BY ParseGoesOn
  <2> QED
    BY <2>1 DEF FirstMessage, StreamInv
<1>5. CASE accum' = b /\ refresh' \in {"recv", "final"} /\ (refresh' = "recv" => Len(b) <= 2)
  <2>1. StreamTypes'
    BY <1>5 DEF StreamInv, StreamTypes
  <2>2. Objects'
    BY <1>1, <1>5 DEF Objects
  <2>3. ResultsNotLost'
    BY <1>3, <1>5 DEF ResultsNotLost
  <2> QED
    BY <1>4, <2>1, <2>2, <2>3 DEF StreamInv
<1>6. CASE Len(b) >= 3 /\ b[2] # "times" /\ refresh' = "show" /\ accum' = SubSeq(b, 4, Len(b))
  <2>1. PICK c : c = SubSeq(b, 4, Len(b))
    OBVIOUS
  <2>2. /\ c \in Seq(Tokens) /\ Len(c) = Len(b) - 3 /\ \A i \in 1 .. Len(b) - 3 : c[i] = b[i + 3]
        /\ ObjectsFrom(c \o r, 0) /\ Len(c \o r) = Len(b \o r) - 3
    BY <1>1, <1>6, <2>1, CutObject
  <2>3. StreamTypes'
    <3>1. Len(c) < AccumMax
      BY <2>2, ClientAssumption
    <3> QED
      BY <1>6, <2>1, <2>2, <3>1 DEF StreamInv, StreamTypes
  <2>4. Objects'
    <3>1. Len(b \o r) % 3 = 0 => Len(c \o r) % 3 = 0
      <4>1. Len(b \o r) \in Nat
        BY ConcatProperties
      <4> QED
        BY <2>2, <4>1
    <3> QED
      BY <1>1, <1>6, <2>1, <2>2, <3>1 DEF Objects
  <2>5. ResultsNotLost'
    <3>1. ASSUME "times" \in Range(b) PROVE "times" \in Range(c)
      <4>1. PICK i \in 1 .. Len(b) : b[i] = "times"
        BY <3>1, InRange
      <4>2. i # 1 /\ i # 3
        <5>1. \A k \in 1 .. Len(b) : k \in 0 + 1 .. Len(b \o r) /\ (b \o r)[k] = b[k]
          BY ConcatProperties
        <5>2. 1 \in 1 .. Len(b) /\ 3 \in 1 .. Len(b) /\ (1 - 0) % 3 = 1 /\ (3 - 0) % 3 = 0
          BY <1>6
        <5>3. b[1] = "lbrace" /\ b[3] = "rbrace"
          BY <1>1, <5>1, <5>2 DEF ObjectsFrom
        <5> QED
          BY <4>1, <5>3
      <4>3. i # 2
        BY <1>6, <4>1
      <4>4. PICK k : k = i - 3
        OBVIOUS
      <4>5. k \in 1 .. Len(b) - 3 /\ k + 3 = i
        BY <4>2, <4>3, <4>4
      <4>6. k \in 1 .. Len(c) /\ c[k] = "times"
        BY <2>2, <4>1, <4>5
      <4> QED
        BY <2>2, <4>6, InRange
    <3> QED
      BY <1>3, <1>6, <2>1, <3>1 DEF ResultsNotLost
  <2> QED
    BY <1>4, <2>3, <2>4, <2>5 DEF StreamInv
<1>7. \/ b = <<>> /\ refresh' = "recv" /\ accum' = <<>>
      \/ Len(b) \in 1 .. 2 /\ refresh' = "recv" /\ accum' = b
      \/ Len(b) >= 3 /\ b[2] = "times" /\ refresh' = "final" /\ accum' = b
      \/ Len(b) >= 3 /\ b[2] # "times" /\ refresh' = "show" /\ accum' = SubSeq(b, 4, Len(b))
  BY <1>1, ParseObjects
<1>8. b = <<>> => Len(b) <= 2
  OBVIOUS
<1>9. Len(b) \in 1 .. 2 => Len(b) <= 2
  BY SMTT(30)
<1> HIDE DEF StreamInv
<1> QED
  BY <1>5, <1>6, <1>7, <1>8, <1>9

\* The steps of the refresh thread lose no results.
LEMMA RefreshStream == ASSUME IInv, StreamInv, RefreshThread PROVE StreamInv'
<1> USE DEF refreshFrame, noLink, flags
<1>0. stream \in Seq(Tokens) /\ accum \in Seq(Tokens) /\ Len(accum) < AccumMax /\ stage \in Stages
  BY DEF StreamInv, StreamTypes, IInv, ControlTypes
<1>1. ASSUME Receive PROVE StreamInv'
  <2>1. refresh = "recv" /\ stage = "race" /\ Len(accum) <= 2 /\ ~hasFinalTimes
        /\ UNCHANGED <<stage, sock, engine, updates, resultsSent, hasFinalTimes>>
    BY <1>0, <1>1 DEF Receive, IInv, Threads, Leaving, Told, Stages, StreamInv, Objects
  <2>2. ASSUME NEW n \in 1 .. Min({ChunkMax, Len(stream)}),
               Parse(Accumulate(accum, SubSeq(stream, 1, n))),
               stream' = SubSeq(stream, n + 1, Len(stream))
        PROVE  StreamInv'
    <3>1. n \in 1 .. Len(stream) /\ n <= ChunkMax
      <4>1. PICK l : l = Len(stream)
        OBVIOUS
      <4>2. l \in Nat /\ ChunkMax \in Nat
        BY <1>0, <4>1, ClientAssumption
      <4>3. CASE l <= ChunkMax
        <5>1. Min({ChunkMax, l}) = l
          <6>1. {ChunkMax, l} \in SUBSET Int /\ \A y \in {ChunkMax, l} : l <= y
            BY <4>2, <4>3
          <6> QED
            BY <6>1, LeastIs
        <5> QED
          BY <4>1, <4>2, <4>3, <5>1
      <4>4. CASE l > ChunkMax
        <5>1. Min({ChunkMax, l}) = ChunkMax
          <6>1. {ChunkMax, l} \in SUBSET Int /\ \A y \in {ChunkMax, l} : ChunkMax <= y
            BY <4>2, <4>4
          <6> QED
            BY <6>1, LeastIs
        <5> QED
          BY <4>1, <4>2, <4>4, <5>1
      <4> QED
        BY <4>2, <4>3, <4>4
    <3>2. PICK u : u = SubSeq(stream, 1, n)
      OBVIOUS
    <3>3. u \in Seq(Tokens) /\ Len(u) = n
      BY <1>0, <3>1, <3>2
    <3>4. PICK b : b = accum \o u
      OBVIOUS
    <3>5. b \in Seq(Tokens) /\ Len(b) = Len(accum) + n
      BY <1>0, <3>3, <3>4, ConcatProperties
    <3>6. Len(accum) + n < AccumMax - 1 /\ Len(b) < AccumMax
      BY <1>0, <2>1, <3>1, <3>5, ClientAssumption, SMTT(30)
    <3>7. Accumulate(accum, u) = b
      BY <3>3, <3>4, <3>6 DEF Accumulate
    <3>8. Parse(b)
      BY <2>2, <3>2, <3>7
    <3>9. PICK r : r = SubSeq(stream, n + 1, Len(stream))
      OBVIOUS
    <3>10. r \in Seq(Tokens) /\ b \o r = accum \o stream
      <4>1. r \in Seq(Tokens)
        BY <1>0, <3>1, <3>9
      <4> QED
        BY <1>0, <3>1, <3>2, <3>4, <3>9, <4>1, ReadPart
    <3>11. engine \in {"absent", "waiting"} => r = stream
      <4>1. stream # <<>>
        BY <1>0, <3>1
      <4> QED
        BY <4>1 DEF StreamInv, FirstMessage
    <3> QED
      BY <2>1, <2>2, <3>5, <3>6, <3>8, <3>9, <3>10, <3>11, ParsedStream
  <2>3. ASSUME stream = <<>>, engine = "gone" \/ sock # "open", refresh' = "lost",
               UNCHANGED <<accum, stream>>
        PROVE  StreamInv'
    <3>1. ~resultsSent
      <4> SUFFICES ASSUME resultsSent PROVE FALSE
        OBVIOUS
      <4>1. Len(accum \o stream) % 3 = 0
        BY <2>1 DEF StreamInv, Objects
      <4>2. accum \o stream = accum
        BY <1>0, <2>3, ConcatEmptySeq
      <4>3. Len(accum) = 0
        BY <1>0, <2>1, <4>1, <4>2
      <4>4. "times" \notin Range(accum) /\ "times" \notin Range(stream)
        <5>1. accum = <<>>
          BY <1>0, <4>3
        <5> QED
          BY <2>3, <5>1 DEF Range
      <4> QED
        BY <2>1, <4>4 DEF StreamInv, ResultsNotLost
    <3>2. StreamTypes'
      BY <2>1, <2>3 DEF StreamInv, StreamTypes
    <3>3. FirstMessage'
      BY <2>1, <2>3 DEF StreamInv, FirstMessage
    <3>4. Objects' /\ ResultsNotLost'
      BY <2>1, <2>3, <3>1 DEF Objects, ResultsNotLost
    <3> QED
      BY <3>2, <3>3, <3>4 DEF StreamInv
  <2> QED
    BY <1>1, <2>2, <2>3 DEF Receive
<1>2. ASSUME ShowProgress PROVE StreamInv'
  <2>1. refresh = "show" /\ stage = "race" /\ Parse(accum) /\ stream' = stream
        /\ UNCHANGED <<stage, sock, engine, updates, resultsSent, hasFinalTimes>>
    BY <1>0, <1>2 DEF ShowProgress, IInv, Threads, Stages
  <2>2. PICK b, r : b = accum /\ r = stream
    OBVIOUS
  <2>3. Parse(b) /\ b \o r = accum \o stream /\ b \in Seq(Tokens) /\ r \in Seq(Tokens) /\ Len(b) < AccumMax
        /\ stream' = r
    BY <1>0, <2>1, <2>2
  <2> QED
    BY <2>1, <2>2, <2>3, ParsedStream
<1>3. ASSUME FinalTimes PROVE StreamInv'
  <2>1. refresh' = "last" /\ hasFinalTimes' /\ refresh = "final"
        /\ UNCHANGED <<stage, sock, engine, updates, resultsSent, stream, accum>>
    BY <1>3 DEF FinalTimes
  <2>2. StreamTypes' /\ FirstMessage'
    BY <2>1 DEF StreamInv, StreamTypes, FirstMessage
  <2>3. Objects' /\ ResultsNotLost'
    BY <2>1 DEF Objects, ResultsNotLost
  <2> QED
    BY <2>2, <2>3 DEF StreamInv
<1>4. ASSUME LosesConnection \/ TellsDisconnected PROVE StreamInv'
  <2>1. refresh' \in {"closing", "last"} /\ refresh \in {"lost", "closing"} /\ (sock' = sock \/ sock' # "open")
        /\ UNCHANGED <<stage, engine, updates, resultsSent, stream, accum, hasFinalTimes>>
    BY <1>4 DEF LosesConnection, TellsDisconnected, TakesMutex, CloseSocket
  <2>2. StreamTypes'
    BY <2>1 DEF StreamInv, StreamTypes
  <2>3. FirstMessage'
    BY <2>1 DEF StreamInv, FirstMessage
  <2>4. Objects'
    BY <2>1 DEF StreamInv, Objects
  <2>5. ResultsNotLost'
    BY <2>1 DEF StreamInv, ResultsNotLost
  <2> QED
    BY <2>2, <2>3, <2>4, <2>5 DEF StreamInv
<1>5. ASSUME RefreshEnds PROVE StreamInv'
  <2>1. refresh' = "ended" /\ refresh = "last" /\ accum' = <<>>
        /\ UNCHANGED <<stage, sock, engine, updates, resultsSent, stream, hasFinalTimes>>
    BY <1>5 DEF RefreshEnds
  <2>2. hasFinalTimes \/ (~resultsSent /\ (engine = "gone" \/ sock # "open"))
    BY <2>1 DEF StreamInv, Objects
  <2>3. StreamTypes'
    <3>1. <<>> \in Seq(Tokens) /\ Len(<<>>) < AccumMax
      BY ClientAssumption
    <3> QED
      BY <2>1, <3>1 DEF StreamInv, StreamTypes
  <2>4. FirstMessage'
    BY <2>1 DEF StreamInv, FirstMessage
  <2>5. Objects' /\ ResultsNotLost'
    BY <2>1, <2>2 DEF Objects, ResultsNotLost
  <2> QED
    BY <2>3, <2>4, <2>5 DEF StreamInv
<1> QED
  BY <1>1, <1>2, <1>3, <1>4, <1>5 DEF RefreshThread

\* StreamInv: before the race the stream is a refusal or the first message and whole
\* objects; then the buffer and the stream are objects, whose last is whole unless the
\* connection broke; and a refresh thread that gave up had nothing left to lose.
THEOREM StreamInvariance == Spec => []StreamInv
<1>1. IInv /\ StreamInv /\ [Next]_vars => StreamInv'
  BY QuietSteps, ConnectStream, HeaderStream, StartStream, EngineStream, RefreshStream DEF Next, Main
<1> QED
  BY <1>1, InitStream, Invariance, PTL DEF Spec

\* However recv() cuts the engine's messages into pieces and whatever ends the typing loop,
\* results that were sent and not lost by the network are in the socket, in accum or
\* recorded; in particular accum[] never overflows so that refreshScreen drops text.
THEOREM ResultsKept == Spec => []ResultsNotLost
<1>1. StreamInv => ResultsNotLost
  BY DEF StreamInv
<1> QED
  BY <1>1, StreamInvariance, PTL

-----------------------------------------------------------------------------
(* What is typed and sent. *)

\* The client splits each sentence it may be sent into as many words as the engine counts.
LEMMA SentenceWords ==
    ASSUME NEW s \in SentencesOf(Lines)
    PROVE  /\ WordsOf[s] \in Seq(Seq(STRING)) /\ countWords(s) = Len(WordsOf[s])
           /\ \A i \in 1 .. Len(WordsOf[s]) : WordsOf[s][i] # <<>>
<1>1. PICK line \in Lines : s = CutAtLineEnd(line)
  BY DEF SentencesOf
<1>2. s \in Seq(STRING)
  <2>1. line \in Seq(STRING)
    BY ClientAssumption
  <2> QED
    BY <1>1, <2>1, CutBefore
<1>3. WordsOf[s] = parseSentence(s)
  BY DEF WordsOf
<1> QED
  BY <1>2, <1>3, WordsAgree

\* The words of a race, when there are any, and the numbers of their characters.
LEMMA RaceWords ==
    ASSUME TextTypes
    PROVE  /\ words \in Seq(Seq(STRING)) /\ wordCount \in Nat
           /\ \A i \in 1 .. wordCount : words[i] # <<>>
           /\ CharsUpTo(words)[0] = 0 /\ \A k \in 0 .. wordCount : CharsUpTo(words)[k] \in Nat
           /\ \A k \in 1 .. wordCount : CharsUpTo(words)[k] = CharsUpTo(words)[k - 1] + Len(words[k])
<1>1. words \in Seq(Seq(STRING)) /\ \A i \in 1 .. Len(words) : words[i] # <<>>
  <2>1. sentence \in SentencesOf(Lines) /\ words \in {<<>>, WordsOf[sentence]}
    BY DEF TextTypes
  <2>2. CASE words = <<>>
    BY <2>2
  <2>3. CASE words = WordsOf[sentence]
    BY <2>1, <2>3, SentenceWords
  <2> QED
    BY <2>1, <2>2, <2>3
<1>2. PICK c : c = CharsUpTo(words)
  OBVIOUS
<1>3. /\ c \in [0 .. Len(words) -> Nat] /\ c[0] = 0
      /\ \A k \in 1 .. Len(words) : c[k] = c[k - 1] + Len(words[k])
  BY <1>1, <1>2, CharsRounds
<1>4. Len(words) \in Nat
  BY <1>1
<1>5. \A k \in 0 .. Len(words) : c[k] \in Nat
  BY <1>3
<1> QED
  BY <1>1, <1>2, <1>3, <1>4, <1>5 DEF wordCount

\* Nothing is typed or sent at the start.
LEMMA InitText == Init => TextInv
<1> SUFFICES ASSUME Init PROVE TextInv
  OBVIOUS
<1>1. /\ words = <<>> /\ currentWordIndex = 0 /\ playerWord = <<>> /\ charsDone = 0 /\ ~localFinished
      /\ sent = <<>> /\ sentence \in SentencesOf(Lines) /\ key = "none" /\ typist = "none"
      /\ tty = <<>> /\ stdio = <<>> /\ presses = 0
  BY DEF Init
<1>2. TextTypes
  <2>1. currentWordIndex \in 0 .. wordCount /\ charsDone \in Nat
    BY <1>1 DEF wordCount
  <2>2. localFinished \in BOOLEAN /\ eof \in BOOLEAN
    BY DEF Init
  <2>3. playerWord \in Seq(Bytes) /\ Len(playerWord) <= PlayerWordMax /\ sent \in Seq({"3", "2"})
    BY <1>1, ClientAssumption
  <2>4. tty \in Seq(Bytes) /\ stdio \in Seq(Bytes) /\ presses \in 0 .. Presses
    BY <1>1, ClientAssumption
  <2> QED
    BY <1>1, <2>1, <2>2, <2>3, <2>4 DEF TextTypes
<1>3. Text
  <2>1. sent = [i \in 1 .. currentWordIndex |-> "3"]
    <3>1. [i \in 1 .. 0 |-> "3"] = <<>>
      OBVIOUS
    <3> QED
      BY <1>1, <3>1
  <2> QED
    BY <1>1, <2>1 DEF Text
<1>4. CursorFollowsText
  <2>1. CharsUpTo(words)[0] = 0
    BY <1>2, RaceWords
  <2> QED
    BY <1>1, <2>1 DEF CursorFollowsText
<1> QED
  BY <1>2, <1>3, <1>4 DEF TextInv

\* A step that types nothing and sends nothing, and hands the typing thread at most a byte.
LEMMA FrameText ==
    ASSUME TextInv, UNCHANGED <<sent, sentence, typed>>,
           stage' \in {"menu", "create", "connect", "lobby", "body"}
               => stage \in {"menu", "create", "connect", "lobby", "body"},
           typist' # "none" => typist # "none",
           typist' = "handle" => key' \in Bytes /\ ~localFinished, key' \in Bytes \cup {"none"},
           tty' \in Seq(Bytes), stdio' \in Seq(Bytes), eof' \in BOOLEAN, presses' \in 0 .. Presses
    PROVE  TextInv'
<1> USE DEF typed, TextInv
<1>1. TextTypes'
  BY DEF TextTypes, wordCount
<1>2. Text'
  BY DEF Text, CurrentWord, wordCount
<1>3. CursorFollowsText'
  BY DEF CursorFollowsText
<1> QED
  BY <1>1, <1>2, <1>3

\* A key is a sequence of the bytes keys are made of.
LEMMA KeyBytes == ASSUME NEW k \in Keys PROVE k \in Seq(Bytes)
<1>1. k \in Seq(STRING)
  BY ClientAssumption
<1>2. \A i \in 1 .. Len(k) : k[i] \in Bytes
  BY <1>1 DEF Bytes, Range
<1> QED
  BY <1>1, <1>2

\* getchar() returns a byte that was typed and leaves the others.
LEMMA GetCharBytes ==
    ASSUME TextTypes, GetChar
    PROVE  NextByte \in Bytes /\ tty' \in Seq(Bytes) /\ stdio' \in Seq(Bytes)
<1>1. tty \in Seq(Bytes) /\ stdio \in Seq(Bytes)
  BY DEF TextTypes
<1>2. CASE stdio # <<>>
  <2>1. stdio' = Tail(stdio) /\ tty' = tty /\ NextByte = Head(stdio)
    BY <1>2 DEF GetChar, NextByte
  <2> QED
    BY <1>1, <1>2, <2>1
<1>3. CASE stdio = <<>>
  <2>1. tty # <<>> /\ stdio' = Tail(tty) /\ tty' = <<>> /\ NextByte = Head(tty)
    BY <1>3 DEF GetChar, NextByte, HasByte
  <2> QED
    BY <1>1, <2>1
<1> QED
  BY <1>2, <1>3

\* The steps of all but the typing loop's handling of a key type and send nothing.
LEMMA QuietText ==
    ASSUME IInv, TextInv,
           \/ Player \/ Menu \/ RefreshThread \/ Engine
           \/ CreateRoom \/ Connect \/ ReadHeader \/ BodyFails \/ Prompt \/ Finish
           \/ Over \/ UNCHANGED vars
    PROVE  TextInv'
<1>1. /\ key \in Bytes \cup {"none"} /\ tty \in Seq(Bytes) /\ stdio \in Seq(Bytes) /\ eof \in BOOLEAN
      /\ presses \in 0 .. Presses /\ (typist = "handle" => key \in Bytes /\ ~localFinished)
      /\ stage \in Stages /\ (typist # "none" => stage = "race")
  BY DEF TextInv, TextTypes, Text, IInv, ControlTypes, Threads, Stages
<1> DEFINE Early == {"menu", "create", "connect", "lobby", "body"}
           Same == UNCHANGED <<sent, sentence, typed, typist, key>>
           Stays == stage' \in Early => stage \in Early
<1>2. ASSUME Same, Stays, tty' \in Seq(Bytes), stdio' \in Seq(Bytes), eof' \in BOOLEAN,
             presses' \in 0 .. Presses
      PROVE  TextInv'
  BY <1>1, <1>2, FrameText
<1>3. ASSUME Same, Stays, UNCHANGED keyboard PROVE TextInv'
  BY <1>1, <1>2, <1>3 DEF keyboard, input
<1>4. CASE Press
  <2>1. PICK k \in Keys : tty' = tty \o k
    BY <1>4 DEF Press
  <2>2. tty' \in Seq(Bytes)
    BY <1>1, <2>1, KeyBytes
  <2>3. presses' \in 0 .. Presses
    BY <1>1, <1>4, ClientAssumption DEF Press
  <2> QED
    BY <1>1, <1>2, <1>4, <2>2, <2>3 DEF Press, loop
<1>5. CASE Enter \/ StdinEnds
  <2>1. CASE Enter
    <3>1. "LF" \in Bytes
      BY DEF Bytes
    <3>2. tty' \in Seq(Bytes)
      BY <2>1, <3>1 DEF Enter
    <3> QED
      BY <1>1, <1>2, <2>1, <3>2 DEF Enter, loop
  <2>2. CASE StdinEnds
    BY <1>1, <1>2, <2>2 DEF StdinEnds, loop, input
  <2> QED
    BY <1>5, <2>1, <2>2
<1>6. CASE MenuKey
  <2>1. tty' \in Seq(Bytes) /\ stdio' \in Seq(Bytes)
    <3>1. CASE GetChar
      BY <3>1, GetCharBytes DEF TextInv
    <3>2. CASE tty' = <<>> /\ stdio' = <<>>
      BY <3>2
    <3> QED
      BY <1>6, <3>1, <3>2 DEF MenuKey
  <2>2. stage \in Early /\ Same /\ UNCHANGED <<eof, presses>>
    BY <1>6 DEF MenuKey, loop
  <2> QED
    BY <1>1, <1>2, <2>1, <2>2
<1>7. CASE MenuEscape
  <2>1. tty' \in Seq(Bytes) /\ stdio' \in Seq(Bytes)
    BY <1>1, <1>7, GetCharBytes DEF MenuEscape, TextInv, input
  <2>2. Same /\ UNCHANGED <<stage, eof, presses>>
    BY <1>7 DEF MenuEscape, loop
  <2> QED
    BY <1>1, <1>2, <2>1, <2>2
<1>8. CASE MenuEnds \/ CreateRoom \/ Connect
  BY <1>3, <1>8 DEF MenuEnds, CreateRoom, Connect, loop
<1>9. CASE ReadHeader \/ BodyFails
  BY <1>3, <1>9 DEF ReadHeader, BodyFails, loop
<1>10. CASE Over \/ UNCHANGED vars
  BY <1>3, <1>10 DEF Over, vars, loop
<1>11. CASE Engine
  BY <1>3, <1>11 DEF Engine, EngineRefuses, EngineStarts, EngineUpdates, EngineResults, EngineGoes, loop
<1>12. CASE RefreshThread
  BY <1>3, <1>12 DEF RefreshThread, Receive, ShowProgress, FinalTimes, LosesConnection, TellsDisconnected,
     RefreshEnds, refreshFrame, loop
<1>13. CASE Prompt
  BY <1>1, <1>2, <1>13 DEF Prompt, FlushInput, loop
<1>14. CASE Finish
  <2>1. tty' \in Seq(Bytes) /\ stdio' \in Seq(Bytes)
    BY <1>1, <1>14, GetCharBytes DEF Finish, TextInv, input
  <2>2. Same /\ Stays /\ UNCHANGED <<eof, presses>>
    BY <1>14 DEF Finish, loop
  <2> QED
    BY <1>1, <1>2, <2>1, <2>2
<1> QED
  BY <1>4, <1>5, <1>6, <1>7, <1>8, <1>9, <1>10, <1>11, <1>12, <1>13, <1>14 DEF Player, Menu

\* The race starts with the words of its sentence and nothing typed.
LEMMA StartText == ASSUME IInv, TextInv, StartRace PROVE TextInv'
<1>1. /\ stage' = "race" /\ typist' = "top" /\ words' = WordsOf[sentence] /\ words' # <<>> /\ words = <<>>
      /\ UNCHANGED <<sent, sentence, currentWordIndex, playerWord, charsDone, localFinished, key, eof, presses>>
      /\ tty' = <<>> /\ stdio' = stdio
  BY DEF StartRace, FlushInput, TextInv, Text
<1>2. currentWordIndex = 0 /\ playerWord = <<>> /\ ~localFinished
  BY <1>1 DEF TextInv, Text
<1>3. TextTypes'
  <2>1. currentWordIndex' \in 0 .. wordCount'
    <3>1. sentence \in SentencesOf(Lines)
      BY DEF TextInv, TextTypes
    <3>2. Len(words') \in Nat
      BY <1>1, <3>1, SentenceWords
    <3> QED
      BY <1>1, <1>2, <3>2 DEF wordCount
  <2>2. tty' \in Seq(Bytes)
    BY <1>1
  <2> QED
    BY <1>1, <2>1, <2>2 DEF TextInv, TextTypes
<1>4. CharsUpTo(words')[0] = 0 /\ Len(words') \in Nat /\ words'[1] # <<>> /\ Len(words') # 0
      /\ words'[1] \in Seq(STRING)
  <2>1. sentence \in SentencesOf(Lines)
    BY DEF TextInv, TextTypes
  <2>2. PICK ws : ws = WordsOf[sentence]
    OBVIOUS
  <2>3. ws \in Seq(Seq(STRING)) /\ ws # <<>> /\ \A i \in 1 .. Len(ws) : ws[i] # <<>>
    BY <1>1, <2>1, <2>2, SentenceWords
  <2>4. CharsUpTo(ws)[0] = 0
    BY <2>3, CharsRounds
  <2>5. Len(ws) \in Nat /\ Len(ws) # 0 /\ 1 \in 1 .. Len(ws)
    BY <2>3
  <2>6. ws[1] # <<>> /\ ws[1] \in Seq(STRING)
    BY <2>3, <2>5
  <2> QED
    BY <1>1, <2>2, <2>4, <2>5, <2>6
<1>5. Text'
  <2>1. currentWordIndex' < wordCount'
    BY <1>1, <1>2, <1>4 DEF wordCount
  <2>2. Len(playerWord') <= Len(CurrentWord') /\ playerWord' # CurrentWord'
    <3>1. CurrentWord' = words'[1] /\ playerWord' = <<>>
      BY <1>1, <1>2 DEF CurrentWord
    <3> QED
      BY <1>4, <3>1
  <2>3. sent' = [i \in 1 .. currentWordIndex' |-> "3"]
    BY <1>1, <1>2 DEF TextInv, Text
  <2> QED
    BY <1>1, <1>2, <2>1, <2>2, <2>3 DEF Text
<1>6. CursorFollowsText'
  <2>1. charsDone = 0
    <3>1. charsDone = CharsUpTo(words)[currentWordIndex] + currentWordIndex + Len(playerWord)
      BY DEF TextInv, CursorFollowsText
    <3>2. CharsUpTo(words)[0] = 0
      BY RaceWords DEF TextInv
    <3> QED
      BY <1>2, <3>1, <3>2
  <2> QED
    BY <1>1, <1>2, <1>4, <2>1 DEF CursorFollowsText
<1> QED
  BY <1>3, <1>5, <1>6 DEF TextInv

\* What is known while a key is handled.
LEMMA AtKey ==
    ASSUME TextInv, typist = "handle"
    PROVE  /\ words # <<>> /\ words = WordsOf[sentence] /\ ~localFinished /\ key \in Bytes
           /\ currentWordIndex \in Nat /\ wordCount \in Nat /\ currentWordIndex < wordCount
           /\ currentWordIndex + 1 \in 1 .. wordCount
           /\ CurrentWord \in Seq(STRING) /\ CurrentWord # <<>>
           /\ playerWord \in Seq(Bytes) /\ Len(playerWord) <= PlayerWordMax
           /\ sent = [i \in 1 .. currentWordIndex |-> "3"]
           /\ charsDone = CharsUpTo(words)[currentWordIndex] + currentWordIndex + Len(playerWord)
           /\ CharsUpTo(words)[currentWordIndex] \in Nat
           /\ CharsUpTo(words)[currentWordIndex + 1] \in Nat
           /\ CharsUpTo(words)[currentWordIndex + 1] = CharsUpTo(words)[currentWordIndex] + Len(CurrentWord)
           /\ currentWordIndex = wordCount - 1 =>
                 Len(playerWord) <= Len(CurrentWord) /\ playerWord # CurrentWord
<1>1. /\ words # <<>> /\ words = WordsOf[sentence] /\ ~localFinished /\ key \in Bytes
      /\ playerWord \in Seq(Bytes) /\ Len(playerWord) <= PlayerWordMax
      /\ sent = [i \in 1 .. currentWordIndex |-> "3"] /\ currentWordIndex < wordCount
      /\ charsDone = CharsUpTo(words)[currentWordIndex] + currentWordIndex + Len(playerWord)
  BY DEF TextInv, TextTypes, Text, CursorFollowsText
<1>2. /\ words \in Seq(Seq(STRING)) /\ wordCount \in Nat
      /\ \A i \in 1 .. wordCount : words[i] # <<>>
      /\ \A k \in 0 .. wordCount : CharsUpTo(words)[k] \in Nat
      /\ \A k \in 1 .. wordCount : CharsUpTo(words)[k] = CharsUpTo(words)[k - 1] + Len(words[k])
  BY RaceWords DEF TextInv
<1>3. currentWordIndex \in 0 .. wordCount
  BY DEF TextInv, TextTypes
<1>4. PICK n : n = currentWordIndex + 1
  OBVIOUS
<1>5. n \in 1 .. wordCount /\ n \in 0 .. wordCount /\ n - 1 = currentWordIndex /\ currentWordIndex \in Nat
  BY <1>1, <1>2, <1>3, <1>4
<1>6. CurrentWord = words[n] /\ words[n] \in Seq(STRING)
  BY <1>2, <1>4, <1>5 DEF CurrentWord, wordCount
<1>7. /\ CharsUpTo(words)[n] \in Nat /\ CharsUpTo(words)[currentWordIndex] \in Nat
      /\ CharsUpTo(words)[n] = CharsUpTo(words)[currentWordIndex] + Len(CurrentWord)
  BY <1>2, <1>3, <1>5, <1>6
<1>8. currentWordIndex = wordCount - 1 => Len(playerWord) <= Len(CurrentWord) /\ playerWord # CurrentWord
  BY <1>1 DEF TextInv, Text
<1> QED
  BY <1>1, <1>2, <1>4, <1>5, <1>6, <1>7, <1>8

\* A handled key leaves the loop at its top with what was typed and sent so far.
LEMMA HandledText ==
    ASSUME TextInv, typist = "handle", Proceed("top"), UNCHANGED <<typistFrame, words, input>>,
           currentWordIndex' \in Nat, currentWordIndex' < wordCount, localFinished' \in BOOLEAN,
           playerWord' \in Seq(Bytes), Len(playerWord') <= PlayerWordMax,
           sent' \in Seq({"3", "2"}), charsDone' \in Nat,
           ~localFinished' => sent' = [i \in 1 .. currentWordIndex' |-> "3"],
           localFinished' => currentWordIndex' = wordCount - 1 /\ sent' = HonestRace[sentence],
           ~localFinished' /\ currentWordIndex' = wordCount - 1 =>
               Len(playerWord') <= Len(words[currentWordIndex' + 1])
               /\ playerWord' # words[currentWordIndex' + 1],
           charsDone' = CharsUpTo(words)[currentWordIndex'] + currentWordIndex' + Len(playerWord')
    PROVE  TextInv'
<1>1. /\ typist' = "top" /\ key' = "none"
      /\ UNCHANGED <<stage, sentence, words, tty, stdio, eof, presses>>
  BY DEF Proceed, typistFrame, input
<1>2. words # <<>> /\ wordCount \in Nat
  BY AtKey
<1>3. TextTypes'
  <2>1. currentWordIndex' \in 0 .. wordCount'
    BY <1>1, <1>2 DEF wordCount
  <2> QED
    BY <1>1, <2>1 DEF TextInv, TextTypes
<1>4. Text'
  <2>1. wordCount' = wordCount /\ HonestRace' = HonestRace /\ CurrentWord' = words[currentWordIndex' + 1]
    BY <1>1 DEF wordCount, CurrentWord, HonestRace
  <2>2. stage' \in {"menu", "create", "connect", "lobby", "body"} => words' = <<>>
    BY <1>1 DEF TextInv, Text
  <2>3. localFinished' => currentWordIndex' = wordCount' - 1 /\ sent' = HonestRace'[sentence']
    BY <1>1, <2>1
  <2> QED
    BY <1>1, <1>2, <2>1, <2>2, <2>3 DEF Text
<1>5. CursorFollowsText'
  BY <1>1 DEF CursorFollowsText
<1> QED
  BY <1>3, <1>4, <1>5 DEF TextInv

\* A backspace takes one character back, or none from an empty word.
LEMMA EraseText == ASSUME TextInv, KeyErase PROVE TextInv'
<1>1. /\ typist = "handle" /\ Erase /\ Proceed("top")
      /\ UNCHANGED <<typistFrame, sent, words, currentWordIndex, localFinished, input>>
  BY DEF KeyErase, Handling
<1> DEFINE before == CharsUpTo(words)[currentWordIndex]
<1>2. /\ playerWord \in Seq(Bytes) /\ Len(playerWord) <= PlayerWordMax /\ before \in Nat
      /\ currentWordIndex \in Nat /\ currentWordIndex < wordCount /\ wordCount \in Nat /\ ~localFinished
      /\ charsDone = before + currentWordIndex + Len(playerWord)
      /\ sent = [i \in 1 .. currentWordIndex |-> "3"]
      /\ currentWordIndex = wordCount - 1 => Len(playerWord) <= Len(CurrentWord) /\ playerWord # CurrentWord
  BY <1>1, AtKey
<1>3. CurrentWord \in Seq(STRING)
  BY <1>1, AtKey
<1>4. sent \in Seq({"3", "2"}) /\ PlayerWordMax \in Nat
  BY ClientAssumption DEF TextInv, TextTypes
<1> HIDE DEF before
<1>5. /\ playerWord' \in Seq(Bytes) /\ Len(playerWord') <= PlayerWordMax /\ charsDone' \in Nat
      /\ charsDone' = before + currentWordIndex + Len(playerWord')
      /\ currentWordIndex = wordCount - 1 => Len(playerWord') <= Len(CurrentWord) /\ playerWord' # CurrentWord
  <2>1. CASE playerWord = <<>>
    BY <1>1, <1>2, <2>1 DEF Erase
  <2>2. CASE playerWord # <<>>
    <3>1. playerWord' = SubSeq(playerWord, 1, Len(playerWord) - 1) /\ charsDone' = charsDone - 1
      BY <1>1, <2>2 DEF Erase, Front
    <3>2. playerWord' \in Seq(Bytes) /\ Len(playerWord') = Len(playerWord) - 1 /\ Len(playerWord) >= 1
      <4>1. PICK pw, n : pw = playerWord /\ n = Len(playerWord)
        OBVIOUS
      <4>2. pw \in Seq(Bytes) /\ n \in Nat /\ n >= 1 /\ n = Len(pw)
        BY <1>2, <2>2, <4>1
      <4>3. SubSeq(pw, 1, n - 1) \in Seq(Bytes) /\ Len(SubSeq(pw, 1, n - 1)) = n - 1
        BY <4>2, SubSeqProperties
      <4> QED
        BY <3>1, <4>1, <4>2, <4>3
    <3>3. Len(playerWord') < Len(playerWord) /\ Len(playerWord') <= PlayerWordMax
      BY <1>2, <1>4, <3>2
    <3>4. charsDone' \in Nat /\ charsDone' = before + currentWordIndex + Len(playerWord')
      <4>1. PICK m, n : m = Len(playerWord') /\ n = Len(playerWord)
        OBVIOUS
      <4>2. n \in Nat /\ m = n - 1 /\ n >= 1 /\ charsDone' = before + currentWordIndex + n - 1
        BY <1>2, <3>1, <3>2, <4>1
      <4>3. charsDone' = before + currentWordIndex + m /\ m \in Nat
        BY <1>2, <4>2
      <4> QED
        BY <1>2, <4>1, <4>3
    <3>5. currentWordIndex = wordCount - 1 => Len(playerWord') < Len(CurrentWord)
      BY <1>2, <1>3, <3>2
    <3> QED
      BY <1>3, <3>2, <3>3, <3>4, <3>5
  <2> QED
    BY <2>1, <2>2
<1>6. CurrentWord = words[currentWordIndex' + 1] /\ currentWordIndex' = currentWordIndex
  BY <1>1 DEF CurrentWord
<1>7. charsDone' = CharsUpTo(words)[currentWordIndex'] + currentWordIndex' + Len(playerWord')
  BY <1>5, <1>6 DEF before
<1>8. ~localFinished' /\ localFinished' \in BOOLEAN /\ sent' = [i \in 1 .. currentWordIndex' |-> "3"]
      /\ sent' \in Seq({"3", "2"})
  <2>1. localFinished' = localFinished /\ sent' = sent
    BY <1>1
  <2>2. localFinished \in BOOLEAN
    BY DEF TextInv, TextTypes
  <2>3. sent' = [i \in 1 .. currentWordIndex' |-> "3"] /\ sent' \in Seq({"3", "2"})
    BY <1>2, <1>4, <1>6, <2>1
  <2> QED
    BY <1>2, <2>1, <2>2, <2>3, Zenon
<1>9. UNCHANGED <<typistFrame, words, input>>
  BY <1>1
<1> QED
  BY <1>1, <1>2, <1>5, <1>6, <1>7, <1>8, <1>9, HandledText

\* The right word and a space: the last word cannot be it, because typing it has ended the race.
LEMMA WordDoneText == ASSUME TextInv, KeyWordDone PROVE TextInv'
<1>1. /\ typist = "handle" /\ Proceed("top") /\ playerWord = CurrentWord
      /\ currentWordIndex' = currentWordIndex + 1 /\ playerWord' = <<>> /\ charsDone' = charsDone + 1
      /\ sent' = Append(sent, "3") /\ UNCHANGED <<typistFrame, words, localFinished, input>>
  BY DEF KeyWordDone, Typing, Handling, WordTyped
<1>2. PICK n : n = currentWordIndex + 1
  OBVIOUS
<1>3. /\ n \in Nat /\ currentWordIndex \in Nat /\ wordCount \in Nat /\ n < wordCount /\ ~localFinished
      /\ currentWordIndex = n - 1
      /\ CurrentWord \in Seq(STRING)
  BY <1>1, <1>2, AtKey, SMTT(30)
<1>4. sent' = [i \in 1 .. n |-> "3"] /\ sent' \in Seq({"3", "2"})
  <2>1. sent = [i \in 1 .. currentWordIndex |-> "3"] /\ sent \in Seq({"3", "2"})
    BY <1>1, AtKey DEF TextInv, TextTypes
  <2>2. PICK threes \in Seq({"3", "2"}) : threes = [i \in 1 .. n |-> "3"]
    <3>1. [i \in 1 .. n |-> "3"] \in Seq({"3", "2"})
      BY <1>3
    <3> QED
      BY <3>1
  <2>3. Len(sent) = currentWordIndex /\ Len(threes) = n /\ Len(sent') = n
    BY <1>1, <1>2, <1>3, <2>1, <2>2
  <2>4. sent' \in Seq({"3", "2"})
    BY <1>1, <2>1
  <2>5. ASSUME NEW i \in 1 .. n PROVE sent'[i] = threes[i]
    BY <1>1, <1>2, <1>3, <2>1, <2>2, <2>3
  <2>6. sent' = threes
    BY <2>2, <2>3, <2>4, <2>5, SeqEqual
  <2> QED
    BY <2>2, <2>4, <2>6
<1>5. charsDone' \in Nat /\ charsDone' = CharsUpTo(words)[n] + n + 0
  <2>1. PICK a, b, m : a = CharsUpTo(words)[currentWordIndex] /\ b = CharsUpTo(words)[currentWordIndex + 1]
                       /\ m = Len(CurrentWord)
    OBVIOUS
  <2>2. a \in Nat /\ b \in Nat /\ b = a + m /\ charsDone = a + currentWordIndex + Len(playerWord)
    BY <1>1, <2>1, AtKey
  <2>3. m \in Nat /\ Len(playerWord) = m /\ b = CharsUpTo(words)[n]
    BY <1>1, <1>2, <1>3, <2>1
  <2> QED
    BY <1>1, <1>2, <1>3, <2>2, <2>3, SMTT(30)
<1>6. Len(<<>>) = 0 /\ Len(<<>>) <= PlayerWordMax /\ <<>> \in Seq(Bytes)
  BY ClientAssumption
<1>7. Len(<<>>) <= Len(words[n + 1]) /\ <<>> # words[n + 1]
  <2>1. /\ words \in Seq(Seq(STRING)) /\ Len(words) \in Nat /\ Len(words) = wordCount
        /\ \A i \in 1 .. wordCount : words[i] # <<>>
    BY RaceWords DEF TextInv, wordCount
  <2>2. PICK m : m = n + 1
    OBVIOUS
  <2>3. m \in 1 .. wordCount
    BY <1>3, <2>2
  <2>4. words[m] \in Seq(STRING) /\ words[m] # <<>>
    BY <2>1, <2>3
  <2> QED
    BY <2>2, <2>4
<1>8. UNCHANGED <<typistFrame, words, input>> /\ currentWordIndex' = n /\ ~localFinished'
      /\ localFinished' \in BOOLEAN
  <2>1. localFinished' = localFinished /\ UNCHANGED <<typistFrame, words, input>> /\ currentWordIndex' = n
    BY <1>1, <1>2
  <2>2. localFinished \in BOOLEAN
    BY DEF TextInv, TextTypes
  <2> QED
    BY <1>3, <2>1, <2>2, Zenon
<1> QED
  BY <1>1, <1>3, <1>4, <1>5, <1>6, <1>7, <1>8, HandledText

\* Any other character: refused once the rest of the sentence is no longer than playerWord,
\* and on the last word that is as soon as it is full length, so only the right one ends it.
LEMMA TypedText == ASSUME TextInv, KeyTyped PROVE TextInv'
<1>1. /\ typist = "handle" /\ Proceed("top")
      /\ IF Len(playerWord) >= getRemainingChars
         THEN UNCHANGED <<playerWord, charsDone, localFinished, sent>>
         ELSE /\ playerWord' = appendChar(key)
              /\ charsDone' = charsDone + (Len(playerWord') - Len(playerWord))
              /\ localFinished' = Finishes
              /\ sent' = IF Finishes THEN Append(sent, "2") ELSE sent
      /\ UNCHANGED <<typistFrame, words, currentWordIndex, input>>
  BY DEF KeyTyped, Typing, Handling
<1> DEFINE before == CharsUpTo(words)[currentWordIndex]
<1>2. /\ playerWord \in Seq(Bytes) /\ Len(playerWord) <= PlayerWordMax /\ before \in Nat
      /\ key \in Bytes /\ words # <<>> /\ words = WordsOf[sentence]
      /\ currentWordIndex \in Nat /\ currentWordIndex < wordCount /\ wordCount \in Nat /\ ~localFinished
      /\ charsDone = before + currentWordIndex + Len(playerWord)
      /\ sent = [i \in 1 .. currentWordIndex |-> "3"]
      /\ currentWordIndex = wordCount - 1 => Len(playerWord) <= Len(CurrentWord) /\ playerWord # CurrentWord
      /\ CurrentWord \in Seq(STRING)
  BY <1>1, AtKey
<1>3. currentWordIndex = wordCount - 1 => getRemainingChars = Len(CurrentWord)
  <2>1. SUFFICES ASSUME currentWordIndex = wordCount - 1 PROVE getRemainingChars = Len(CurrentWord)
    OBVIOUS
  <2>2. CharsUpTo(words)[currentWordIndex + 1] = before + Len(CurrentWord)
        /\ CharsUpTo(words)[currentWordIndex + 1] \in Nat
    BY <1>1, AtKey
  <2>3. currentWordIndex + 1 = wordCount /\ Len(CurrentWord) \in Nat
    BY <1>2, <2>1
  <2>4. PICK a, b : a = CharsUpTo(words)[wordCount] /\ b = before
    OBVIOUS
  <2>5. a = b + Len(CurrentWord) /\ b \in Nat /\ wordCount - 1 - currentWordIndex = 0
    BY <1>2, <2>1, <2>2, <2>3, <2>4
  <2>6. getRemainingChars = a - b + (wordCount - 1 - currentWordIndex)
    BY <2>4 DEF getRemainingChars
  <2> QED
    BY <2>3, <2>5, <2>6
<1>4. sent \in Seq({"3", "2"}) /\ localFinished \in BOOLEAN /\ sentence \in SentencesOf(Lines)
  BY DEF TextInv, TextTypes
<1>5. PlayerWordMax \in Nat
  BY ClientAssumption
<1>6. CurrentWord = words[currentWordIndex' + 1] /\ currentWordIndex' = currentWordIndex
  BY <1>1 DEF CurrentWord
<1>7. UNCHANGED <<typistFrame, words, input>>
  BY <1>1
<1>8. CASE Len(playerWord) >= getRemainingChars
  <2>1. UNCHANGED <<playerWord, charsDone, sent>> /\ localFinished' = localFinished
    BY <1>1, <1>8
  <2>2. localFinished' \in BOOLEAN /\ ~localFinished'
    BY <1>2, <1>4, <2>1, Zenon
  <2>3. charsDone' = CharsUpTo(words)[currentWordIndex'] + currentWordIndex' + Len(playerWord')
    BY <1>2, <1>6, <2>1
  <2>4. charsDone' \in Nat
    BY <2>1 DEF TextInv, TextTypes
  <2>5. playerWord' \in Seq(Bytes) /\ Len(playerWord') <= PlayerWordMax /\ sent' \in Seq({"3", "2"})
    BY <1>2, <1>4, <2>1
  <2>6. currentWordIndex' = wordCount - 1 =>
           Len(playerWord') <= Len(words[currentWordIndex' + 1]) /\ playerWord' # words[currentWordIndex' + 1]
    BY <1>2, <1>6, <2>1
  <2>7. sent' = [i \in 1 .. currentWordIndex' |-> "3"] /\ currentWordIndex' \in Nat /\ currentWordIndex' < wordCount
    BY <1>2, <1>6, <2>1
  <2> QED
    BY <1>1, <1>7, <2>2, <2>3, <2>4, <2>5, <2>6, <2>7, HandledText
<1>9. CASE ~(Len(playerWord) >= getRemainingChars)
  <2>1. /\ playerWord' = appendChar(key) /\ charsDone' = charsDone + (Len(playerWord') - Len(playerWord))
        /\ sent' = IF Finishes THEN Append(sent, "2") ELSE sent
    BY <1>1, <1>9
  <2>2. localFinished' = Finishes
    BY <1>1, <1>9
  <2>3. /\ playerWord' \in Seq(Bytes) /\ Len(playerWord') <= PlayerWordMax /\ Len(playerWord') \in Nat
        /\ Len(playerWord) \in Nat /\ Len(playerWord') >= Len(playerWord) /\ Len(playerWord') <= Len(playerWord) + 1
    <3>1. CASE Len(playerWord) < PlayerWordMax
      <4>1. PICK pw : pw = Append(playerWord, key)
        OBVIOUS
      <4>2. pw \in Seq(Bytes) /\ Len(pw) = Len(playerWord) + 1 /\ Len(playerWord) \in Nat
        BY <1>2, <4>1
      <4>3. playerWord' = pw
        BY <2>1, <3>1, <4>1 DEF appendChar
      <4> QED
        BY <1>5, <3>1, <4>2, <4>3
    <3>2. CASE ~(Len(playerWord) < PlayerWordMax)
      <4>1. playerWord' = playerWord /\ Len(playerWord) \in Nat
        BY <1>2, <2>1, <3>2 DEF appendChar
      <4> QED
        BY <1>2, <4>1
    <3> QED
      BY <3>1, <3>2
  <2>4. charsDone' = CharsUpTo(words)[currentWordIndex'] + currentWordIndex' + Len(playerWord')
        /\ charsDone' \in Nat
    <3>1. PICK a, m, n : a = before /\ m = Len(playerWord') /\ n = Len(playerWord)
      OBVIOUS
    <3>2. a \in Nat /\ m \in Nat /\ n \in Nat /\ charsDone = a + currentWordIndex + n /\ charsDone' = charsDone + (m - n)
      BY <1>2, <2>1, <2>3, <3>1
    <3>3. charsDone' = a + currentWordIndex + m /\ charsDone' \in Nat
      BY <1>2, <3>2
    <3> QED
      BY <1>6, <3>1, <3>3
  <2>5. localFinished' \in BOOLEAN
    <3>1. Finishes \in BOOLEAN
      BY DEF Finishes
    <3> QED
      BY <2>2, <3>1, Zenon
  <2>6. currentWordIndex' \in Nat /\ currentWordIndex' < wordCount
    BY <1>2, <1>6
  <2>7. CASE Finishes
    <3>1. currentWordIndex = wordCount - 1 /\ sent' = Append(sent, "2")
      BY <2>1, <2>7 DEF Finishes
    <3>2. localFinished'
      BY <2>2, <2>7, Zenon
    <3>3. sent' \in Seq({"3", "2"})
      BY <1>4, <3>1
    <3>4. sent' = HonestRace[sentence]
      <4>1. HonestRace[sentence] = [i \in 1 .. wordCount - 1 |-> "3"] \o <<"2">>
        <5>1. countWords(sentence) = wordCount
          BY <1>2, <1>4, SentenceWords DEF wordCount
        <5>2. HonestRace[sentence] = [i \in 1 .. countWords(sentence) - 1 |-> "3"] \o <<"2">>
          BY <1>4 DEF HonestRace
        <5> QED
          BY <5>1, <5>2
      <4>2. Append(sent, "2") = sent \o <<"2">>
        BY <1>4
      <4> QED
        BY <1>2, <3>1, <4>1, <4>2
    <3> QED
      BY <1>1, <1>6, <1>7, <2>3, <2>4, <2>5, <2>6, <3>1, <3>2, <3>3, <3>4, HandledText
  <2>8. CASE ~Finishes
    <3>1. ~localFinished'
      BY <2>2, <2>8, Zenon
    <3>2. sent' = sent
      BY <2>1, <2>8
    <3>3. currentWordIndex' = wordCount - 1 =>
             Len(playerWord') <= Len(words[currentWordIndex' + 1]) /\ playerWord' # words[currentWordIndex' + 1]
      <4>1. SUFFICES ASSUME currentWordIndex = wordCount - 1
                     PROVE Len(playerWord') <= Len(CurrentWord) /\ playerWord' # CurrentWord
        BY <1>6
      <4>2. playerWord' # CurrentWord
        BY <2>8, <4>1 DEF Finishes
      <4>3. Len(playerWord) < Len(CurrentWord)
        <5>1. Len(CurrentWord) \in Nat
          BY <1>2
        <5> QED
          BY <1>3, <1>9, <2>3, <4>1, <5>1
      <4> QED
        BY <1>2, <2>3, <4>2, <4>3
    <3>4. sent' \in Seq({"3", "2"}) /\ sent' = [i \in 1 .. currentWordIndex' |-> "3"]
      BY <1>2, <1>4, <1>6, <3>2
    <3> QED
      BY <1>1, <1>7, <2>3, <2>4, <2>5, <2>6, <3>1, <3>3, <3>4, HandledText
  <2> QED
    BY <2>7, <2>8
<1> QED
  BY <1>8, <1>9

\* The steps of the typing thread.
LEMMA TypingText == ASSUME IInv, TextInv, TypingThread PROVE TextInv'
<1>1. /\ key \in Bytes \cup {"none"} /\ tty \in Seq(Bytes) /\ stdio \in Seq(Bytes) /\ eof \in BOOLEAN
      /\ presses \in 0 .. Presses
  BY DEF TextInv, TextTypes
<1> DEFINE Early == {"menu", "create", "connect", "lobby", "body"}
           Still == UNCHANGED <<sent, sentence, typed, eof, presses>> /\ (stage' \in Early => stage \in Early)
<1>2. ASSUME Still, typist # "none", typist' # "handle", key' \in Bytes \cup {"none"},
             tty' \in Seq(Bytes), stdio' \in Seq(Bytes)
      PROVE  TextInv'
  BY <1>1, <1>2, FrameText
<1>3. CASE LeaveLoop \/ KeyEscape \/ KeyIgnored
  BY <1>1, <1>2, <1>3 DEF LeaveLoop, KeyEscape, KeyIgnored, Handling, Proceed, typistFrame, input
<1>4. CASE ReadKey
  <2>1. Still /\ typist # "none" /\ ~localFinished
    BY <1>4 DEF ReadKey, typistFrame
  <2>2. CASE GetChar /\ key' = NextByte /\ typist' = "handle"
    <3>1. NextByte \in Bytes /\ tty' \in Seq(Bytes) /\ stdio' \in Seq(Bytes)
      BY <2>2, GetCharBytes DEF TextInv
    <3> QED
      BY <1>1, <2>1, <2>2, <3>1, FrameText
  <2>3. CASE typist' = "left" /\ UNCHANGED <<key, input>>
    BY <1>1, <1>2, <2>1, <2>3 DEF input
  <2> QED
    BY <1>4, <2>2, <2>3 DEF ReadKey
<1>5. CASE Drain
  <2>1. Still /\ typist = "drain" /\ typist' # "handle" /\ key' = key
    BY <1>5 DEF Drain, typistFrame
  <2>2. CASE GetChar
    <3>1. tty' \in Seq(Bytes) /\ stdio' \in Seq(Bytes)
      BY <2>2, GetCharBytes DEF TextInv
    <3> QED
      BY <1>1, <1>2, <2>1, <3>1
  <2>3. CASE UNCHANGED input
    BY <1>1, <1>2, <2>1, <2>3 DEF input
  <2> QED
    BY <1>5, <2>2, <2>3 DEF Drain
<1>6. CASE CheckSocket
  BY <1>1, <1>2, <1>6 DEF CheckSocket, typistFrame, input
<1>7. CASE Shutdown
  BY <1>1, <1>2, <1>7 DEF Shutdown, shutFrame, keyboard, input
<1>8. CASE Join
  BY <1>1, <1>2, <1>8 DEF Join, keyboard, input
<1>9. CASE KeyErase
  BY <1>9, EraseText
<1>10. CASE KeyWordDone
  BY <1>10, WordDoneText
<1>11. CASE KeyTyped
  BY <1>11, TypedText
<1> QED
  BY <1>3, <1>4, <1>5, <1>6, <1>7, <1>8, <1>9, <1>10, <1>11 DEF TypingThread

\* TextInv: what is typed and sent is of its types; until he has finished the player has
\* sent one '3' for each word he has passed and is never past the last word, and what he has
\* typed of that one is no longer than it and not yet it; charsDone is what he has typed.
THEOREM TextInvariance == Spec => []TextInv
<1>1. IInv /\ TextInv /\ [Next]_vars => TextInv'
  BY QuietText, StartText, TypingText DEF Next, Main
<1> QED
  BY <1>1, InitText, Invariance, PTL DEF Spec

\* The cursor of drawProgress stays with the text, whatever keys are pressed: erasing in an
\* empty word, characters that find playerWord full, and escape sequences move it nowhere.
THEOREM CursorCorrect == Spec => []CursorFollowsText
<1>1. TextInv => CursorFollowsText
  BY DEF TextInv
<1> QED
  BY <1>1, TextInvariance, PTL

\* The types of the client's state; in particular playerWord never outgrows its array and
\* accum[] its own, and the descriptor is closed at most once.
THEOREM TypeCorrect == Spec => []TypeOK
<1>1. IInv /\ StreamInv /\ TextInv => TypeOK
  BY DEF IInv, StreamInv, TextInv, TypeOK
<1> QED
  BY <1>1, Invariance, StreamInvariance, TextInvariance, PTL

\* For every input file and whatever the player presses, gameLoop sends the beginning of
\* what the engine takes for an honest race, and all of it exactly if it takes the race for
\* finished: the client's parseSentence and the engine's countWords agree on every sentence.
THEOREM SendsHonestRace == Spec => []SendsWhatEngineCounts
<1>1. ASSUME TextInv PROVE SendsWhatEngineCounts
  <2>1. /\ sentence \in SentencesOf(Lines) /\ sent \in Seq({"3", "2"}) /\ localFinished \in BOOLEAN
        /\ words \in {<<>>, WordsOf[sentence]} /\ currentWordIndex \in 0 .. wordCount
        /\ (~localFinished => sent = [i \in 1 .. currentWordIndex |-> "3"])
        /\ (localFinished => sent = HonestRace[sentence])
        /\ (words = <<>> => currentWordIndex = 0) /\ (words # <<>> => currentWordIndex < wordCount)
    BY <1>1 DEF TextInv, TextTypes, Text
  <2>2. PICK c, h : c = countWords(sentence) /\ h = HonestRace[sentence]
    OBVIOUS
  <2>3. c \in Nat /\ (words # <<>> => c = wordCount)
    BY <2>1, <2>2, SentenceWords DEF wordCount
  <2>4. PICK threes \in Seq({"3", "2"}) : threes = [i \in 1 .. c - 1 |-> "3"]
    <3>1. [i \in 1 .. c - 1 |-> "3"] \in Seq({"3", "2"})
      BY <2>3
    <3> QED
      BY <3>1
  <2>5. h = threes \o <<"2">>
    <3>1. h = [i \in 1 .. countWords(sentence) - 1 |-> "3"] \o <<"2">>
      BY <2>1, <2>2 DEF HonestRace
    <3> QED
      BY <2>2, <2>4, <3>1
  <2>6. PICK n : n = Len(threes)
    OBVIOUS
  <2>7. n \in Nat /\ n = (IF c >= 1 THEN c - 1 ELSE 0) /\ \A i \in 1 .. n : threes[i] = "3"
    <3>1. CASE c >= 1
      <4>1. c - 1 \in Nat
        BY <2>3, <3>1
      <4>2. n = c - 1
        BY <2>4, <2>6, <4>1
      <4> QED
        BY <2>4, <3>1, <4>1, <4>2
    <3>2. CASE c = 0
      <4>1. DOMAIN threes = {} /\ DOMAIN threes = 1 .. n /\ n \in Nat
        BY <2>4, <2>6, <3>2
      <4>2. n = 0
        BY <4>1
      <4> QED
        BY <3>2, <4>2
    <3> QED
      BY <2>3, <3>1, <3>2
  <2>8. h \in Seq({"3", "2"}) /\ Len(h) = n + 1 /\ \A i \in 1 .. n : h[i] = "3"
    <3>1. <<"2">> \in Seq({"3", "2"}) /\ Len(<<"2">>) = 1
      OBVIOUS
    <3>2. PICK two : two = <<"2">>
      OBVIOUS
    <3>3. Len(two) = 1 /\ two \in Seq({"3", "2"}) /\ h = threes \o two
      BY <2>5, <3>1, <3>2
    <3>4. PICK T : T = {"3", "2"}
      OBVIOUS
    <3>5. threes \in Seq(T) /\ two \in Seq(T)
      BY <2>4, <3>3, <3>4
    <3>6. h \in Seq(T) /\ Len(h) = n + 1 /\ \A i \in 1 .. n + 1 : i <= n => h[i] = threes[i]
      <4>1. /\ threes \o two \in Seq(T) /\ Len(threes \o two) = Len(threes) + Len(two)
            /\ \A i \in 1 .. Len(threes) + Len(two) :
                  (threes \o two)[i] = IF i <= Len(threes) THEN threes[i] ELSE two[i - Len(threes)]
        BY <3>5, ConcatProperties, Zenon
      <4> QED
        BY <2>6, <3>3, <4>1
    <3>7. ASSUME NEW i \in 1 .. n PROVE h[i] = "3"
      <4>1. i \in 1 .. n + 1 /\ i <= n
        BY <2>7
      <4> QED
        BY <2>7, <3>6, <4>1
    <3> QED
      BY <3>4, <3>6, <3>7
  <2>9. CASE localFinished
    <3>1. sent = h
      BY <2>1, <2>2, <2>9
    <3>2. SubSeq(h, 1, Len(h)) = h
      BY <2>8, SubSeqFull
    <3>3. IsPrefix(sent, h)
      BY <2>8, <3>1, <3>2 DEF IsPrefix
    <3> QED
      BY <2>2, <2>9, <3>1, <3>3 DEF SendsWhatEngineCounts
  <2>10. CASE ~localFinished
    <3>1. currentWordIndex \in Nat /\ currentWordIndex <= n
      <4>1. wordCount \in Nat
        BY <1>1, RaceWords DEF TextInv
      <4> QED
        BY <2>1, <2>3, <2>7, <4>1
    <3>2. sent = [i \in 1 .. currentWordIndex |-> "3"] /\ Len(sent) = currentWordIndex
      BY <2>1, <2>10, <3>1
    <3>3. sent # h
      <4>1. Len(h) # currentWordIndex
        BY <2>7, <2>8, <3>1
      <4> QED
        BY <3>2, <4>1
    <3>4. PICK front : front = SubSeq(h, 1, Len(sent))
      OBVIOUS
    <3>5. front = sent
      <4>1. /\ front \in Seq({"3", "2"}) /\ Len(front) = currentWordIndex
            /\ \A i \in 1 .. currentWordIndex : front[i] = h[i]
        BY <2>7, <2>8, <3>1, <3>2, <3>4, SubSeqProperties
      <4>2. ASSUME NEW i \in 1 .. currentWordIndex PROVE front[i] = sent[i]
        <5>1. i \in 1 .. n
          BY <2>7, <3>1
        <5>2. front[i] = "3"
          BY <2>8, <4>1, <5>1
        <5> QED
          BY <3>2, <5>2
      <4> QED
        BY <2>1, <3>2, <4>1, <4>2, SeqEqual
    <3>6. IsPrefix(sent, h)
      <4>1. Len(sent) <= Len(h)
        BY <2>7, <2>8, <3>1, <3>2
      <4> QED
        BY <3>4, <3>5, <4>1 DEF IsPrefix
    <3> QED
      BY <2>2, <2>10, <3>2, <3>3, <3>6 DEF SendsWhatEngineCounts
  <2> QED
    BY <2>9, <2>10
<1> QED
  BY <1>1, TextInvariance, PTL

-----------------------------------------------------------------------------
(* The leaderboard. *)

Orders == [1 .. PlayerCount -> 1 .. PlayerCount]

\* The comparison of showResults never asks for two players to be exchanged both ways, and
\* who need not be behind the one before need not be behind the one before that.
LEMMA SwapsOrder ==
    /\ \A a, b \in Int : Swaps(a, b) => ~Swaps(b, a)
    /\ \A a \in Int : ~Swaps(a, a)
    /\ \A a, b, c \in Int : ~Swaps(a, b) /\ ~Swaps(b, c) => ~Swaps(a, c)
    /\ \A a, b \in Int : ~Swaps(a, b) /\ b > 0 => a > 0 /\ a <= b
  BY DEF Swaps

\* An exchange makes an order of an order.
LEMMA ExchangedOrder ==
    ASSUME NEW times, NEW order \in Orders, NEW i \in 1 .. PlayerCount, NEW j \in 1 .. PlayerCount
    PROVE  Exchanged(times, order, i, j) \in Orders
  BY DEF Exchanged, Orders

\* What the inner loop has made of the order after each place.
LEMMA PassRounds ==
    ASSUME NEW times, NEW order \in Orders, NEW i \in 1 .. PlayerCount
    PROVE  /\ PassUpTo(times, order, i) \in [0 .. PlayerCount -> Orders]
           /\ PassUpTo(times, order, i)[0] = order
           /\ \A j \in 1 .. PlayerCount :
                 PassUpTo(times, order, i)[j] = Exchanged(times, PassUpTo(times, order, i)[j - 1], i, j)
<1> DEFINE After(o, j) == Exchanged(times, o, i, j)
           step == [p \in Orders \X (1 .. PlayerCount) |-> After(p[1], p[2])]
           Eqn(g) == g = [j \in 0 .. PlayerCount |-> IF j = 0 THEN order ELSE After(g[j - 1], j)]
<1>1. PlayerCount \in Nat
  BY ClientAssumption
<1>2. ASSUME NEW o \in Orders, NEW j \in 1 .. PlayerCount PROVE After(o, j) \in Orders
  BY ExchangedOrder
<1> HIDE DEF After
<1>3. step \in [Orders \X (1 .. PlayerCount) -> Orders]
  BY <1>2
<1>4. PICK f : Rounds(f, Orders, order, PlayerCount, step)
  <2> HIDE DEF step
  <2> QED
    BY <1>1, <1>3, RoundsExist
<1>5. f \in [0 .. PlayerCount -> Orders] /\ f[0] = order
  BY <1>4 DEF Rounds
<1>6. ASSUME NEW j \in 1 .. PlayerCount PROVE f[j] = After(f[j - 1], j)
  <2>1. j - 1 \in 0 .. PlayerCount /\ f[j] = step[<<f[j - 1], j>>]
    <3> HIDE DEF step
    <3> QED
      BY <1>1, <1>4 DEF Rounds
  <2>2. f[j - 1] \in Orders
    BY <1>5, <2>1
  <2> QED
    BY <2>1, <2>2
<1>7. Eqn(f)
  BY <1>5, <1>6
<1>8. PassUpTo(times, order, i) = CHOOSE g : Eqn(g)
  BY DEF PassUpTo, After
<1>9. PICK c : c = PassUpTo(times, order, i)
  OBVIOUS
<1>10. Eqn(c)
  <2> HIDE DEF Eqn
  <2> QED
    BY <1>7, <1>8, <1>9
<1>11. /\ c[0] = order /\ \A j \in 1 .. PlayerCount : c[j] = After(c[j - 1], j)
       /\ c = [j \in 0 .. PlayerCount |-> c[j]]
  BY <1>1, <1>10
<1>12. \A j \in 0 .. PlayerCount : c[j] \in Orders
  BY <1>1, <1>2, <1>11, RoundsKeep
<1>13. c \in [0 .. PlayerCount -> Orders]
  BY <1>11, <1>12
<1> QED
  BY <1>9, <1>11, <1>13 DEF After

\* What the outer loop has made of the order after each place.
LEMMA SortRounds ==
    ASSUME NEW times
    PROVE  /\ SortUpTo(times) \in [0 .. PlayerCount -> Orders]
           /\ SortUpTo(times)[0] = [k \in 1 .. PlayerCount |-> k]
           /\ \A i \in 1 .. PlayerCount :
                 SortUpTo(times)[i] = PassUpTo(times, SortUpTo(times)[i - 1], i)[PlayerCount]
<1> DEFINE After(o, i) == PassUpTo(times, o, i)[PlayerCount]
           first == [k \in 1 .. PlayerCount |-> k]
           step == [p \in Orders \X (1 .. PlayerCount) |-> After(p[1], p[2])]
           Eqn(g) == g = [i \in 0 .. PlayerCount |-> IF i = 0 THEN first ELSE After(g[i - 1], i)]
<1>1. PlayerCount \in Nat /\ first \in Orders
  BY ClientAssumption DEF Orders
<1>2. ASSUME NEW o \in Orders, NEW i \in 1 .. PlayerCount PROVE After(o, i) \in Orders
  <2>1. PICK c : c = PassUpTo(times, o, i)
    OBVIOUS
  <2>2. PassUpTo(times, o, i) \in [0 .. PlayerCount -> Orders]
    BY PassRounds, Zenon
  <2>3. c[PlayerCount] \in Orders
    BY <1>1, <2>1, <2>2
  <2> QED
    BY <2>1, <2>3
<1> HIDE DEF After, first
<1>3. step \in [Orders \X (1 .. PlayerCount) -> Orders]
  BY <1>2
<1>4. PICK f : Rounds(f, Orders, first, PlayerCount, step)
  <2> HIDE DEF step
  <2> QED
    BY <1>1, <1>3, RoundsExist
<1>5. f \in [0 .. PlayerCount -> Orders] /\ f[0] = first
  BY <1>4 DEF Rounds
<1>6. ASSUME NEW i \in 1 .. PlayerCount PROVE f[i] = After(f[i - 1], i)
  <2>1. i - 1 \in 0 .. PlayerCount /\ f[i] = step[<<f[i - 1], i>>]
    <3> HIDE DEF step
    <3> QED
      BY <1>1, <1>4 DEF Rounds
  <2>2. f[i - 1] \in Orders
    BY <1>5, <2>1
  <2> QED
    BY <2>1, <2>2
<1>7. Eqn(f)
  BY <1>5, <1>6
<1>8. SortUpTo(times) = CHOOSE g : Eqn(g)
  BY DEF SortUpTo, After, first
<1>9. PICK c : c = SortUpTo(times)
  OBVIOUS
<1>10. Eqn(c)
  <2> HIDE DEF Eqn
  <2> QED
    BY <1>7, <1>8, <1>9
<1>11. /\ c[0] = first /\ \A i \in 1 .. PlayerCount : c[i] = After(c[i - 1], i)
       /\ c = [i \in 0 .. PlayerCount |-> c[i]]
  BY <1>1, <1>10
<1>12. \A i \in 0 .. PlayerCount : c[i] \in Orders
  BY <1>1, <1>2, <1>11, RoundsKeep
<1>13. c \in [0 .. PlayerCount -> Orders]
  BY <1>11, <1>12
<1> QED
  BY <1>9, <1>11, <1>13 DEF After, first

\* Every player has a place.
Complete(order) == \A v \in 1 .. PlayerCount : \E k \in 1 .. PlayerCount : order[k] = v

\* The first i places are settled: nobody behind them comes before one of them.
Settled(times, order, i) ==
    \A k, m \in 1 .. PlayerCount :
        k <= i /\ k < m => ~Swaps(times[order[k]], times[order[m]])

\* Place i comes before all places behind it up to place j.
AheadOf(times, order, i, j) ==
    \A m \in 1 .. PlayerCount : i < m /\ m <= j => ~Swaps(times[order[i]], times[order[m]])

\* One round of the inner loop: no player is lost, the places in front stay settled, and
\* place i comes before one place more.
LEMMA RoundSorts ==
    ASSUME NEW times \in [1 .. PlayerCount -> Times], NEW o \in Orders,
           NEW i \in 1 .. PlayerCount, NEW j \in 1 .. PlayerCount,
           Complete(o), Settled(times, o, i - 1), AheadOf(times, o, i, j - 1)
    PROVE  LET n == Exchanged(times, o, i, j)
           IN  Complete(n) /\ Settled(times, n, i - 1) /\ AheadOf(times, n, i, j)
<1> DEFINE n == Exchanged(times, o, i, j)
<1>1. PlayerCount \in Nat /\ \A k \in 1 .. PlayerCount : times[o[k]] \in Int
  BY ClientAssumption DEF Orders
<1>2. CASE ~(i < j /\ Swaps(times[o[i]], times[o[j]]))
  <2>1. n = o
    BY <1>2 DEF Exchanged
  <2>2. ASSUME NEW m \in 1 .. PlayerCount, i < m, m <= j PROVE ~Swaps(times[o[i]], times[o[m]])
    <3>1. CASE m = j
      BY <1>2, <2>2, <3>1
    <3>2. CASE m # j
      <4>1. m <= j - 1
        BY <2>2, <3>2
      <4> QED
        BY <2>2, <4>1 DEF AheadOf
    <3> QED
      BY <3>1, <3>2
  <2>3. AheadOf(times, o, i, j)
    BY <2>2 DEF AheadOf
  <2> QED
    BY <2>1, <2>3
<1>3. CASE i < j /\ Swaps(times[o[i]], times[o[j]])
  <2>1. n = [o EXCEPT ![i] = o[j], ![j] = o[i]]
    BY <1>3 DEF Exchanged
  <2>2. /\ n[i] = o[j] /\ n[j] = o[i]
        /\ \A k \in 1 .. PlayerCount : k # i /\ k # j => n[k] = o[k]
    BY <1>3, <2>1 DEF Orders
  <2> HIDE DEF n
  <2>3. Complete(n)
    <3>1. ASSUME NEW v \in 1 .. PlayerCount PROVE \E k \in 1 .. PlayerCount : n[k] = v
      <4>1. PICK k \in 1 .. PlayerCount : o[k] = v
        BY DEF Complete
      <4> QED
        BY <2>2, <4>1
    <3> QED
      BY <3>1 DEF Complete
  <2>4. Settled(times, n, i - 1)
    <3>1. ASSUME NEW k \in 1 .. PlayerCount, NEW m \in 1 .. PlayerCount, k <= i - 1, k < m
          PROVE  ~Swaps(times[n[k]], times[n[m]])
      <4>1. n[k] = o[k]
        BY <1>3, <2>2, <3>1
      <4>2. PICK q \in 1 .. PlayerCount : k < q /\ n[m] = o[q]
        <5>1. CASE m = i
          BY <1>3, <2>2, <3>1, <5>1
        <5>2. CASE m = j
          BY <1>3, <2>2, <3>1, <5>2
        <5>3. CASE m # i /\ m # j
          BY <2>2, <3>1, <5>3
        <5> QED
          BY <5>1, <5>2, <5>3
      <4> QED
        BY <3>1, <4>1, <4>2 DEF Settled
    <3> QED
      BY <3>1 DEF Settled
  <2>5. AheadOf(times, n, i, j)
    <3>1. ~Swaps(times[o[j]], times[o[i]])
      BY <1>1, <1>3, SwapsOrder
    <3>2. ASSUME NEW m \in 1 .. PlayerCount, i < m, m <= j PROVE ~Swaps(times[n[i]], times[n[m]])
      <4>1. CASE m = j
        BY <2>2, <3>1, <4>1
      <4>2. CASE m # j
        <5>1. m <= j - 1 /\ n[m] = o[m]
          BY <2>2, <3>2, <4>2
        <5>2. ~Swaps(times[o[i]], times[o[m]])
          BY <3>2, <5>1 DEF AheadOf
        <5>3. ~Swaps(times[o[j]], times[o[m]])
          BY <1>1, <3>1, <5>2, SwapsOrder
        <5> QED
          BY <2>2, <5>1, <5>3
      <4> QED
        BY <4>1, <4>2
    <3> QED
      BY <3>2 DEF AheadOf
  <2> QED
    BY <2>3, <2>4, <2>5 DEF n
<1> QED
  BY <1>2, <1>3

\* A pass of the inner loop settles one place more.
LEMMA PassSettles ==
    ASSUME NEW times \in [1 .. PlayerCount -> Times], NEW order \in Orders,
           NEW i \in 1 .. PlayerCount, Complete(order), Settled(times, order, i - 1)
    PROVE  LET n == PassUpTo(times, order, i)[PlayerCount]
           IN  Complete(n) /\ Settled(times, n, i)
<1>1. PICK c : c = PassUpTo(times, order, i)
  OBVIOUS
<1>2. /\ PlayerCount \in Nat /\ c \in [0 .. PlayerCount -> Orders] /\ c[0] = order
      /\ \A j \in 1 .. PlayerCount : c[j] = Exchanged(times, c[j - 1], i, j)
  <2>1. /\ PassUpTo(times, order, i) \in [0 .. PlayerCount -> Orders]
        /\ PassUpTo(times, order, i)[0] = order
        /\ \A j \in 1 .. PlayerCount :
              PassUpTo(times, order, i)[j] = Exchanged(times, PassUpTo(times, order, i)[j - 1], i, j)
    BY PassRounds, ZenonT(60)
  <2> QED
    BY <1>1, <2>1, ClientAssumption
<1> DEFINE Good(o, j) == Complete(o) /\ Settled(times, o, i - 1) /\ AheadOf(times, o, i, j)
           S == {j \in Nat : j <= PlayerCount => Good(c[j], j)}
<1>3. 0 \in S
  BY <1>2 DEF AheadOf
<1>4. ASSUME NEW j \in Nat, j \in S PROVE j + 1 \in S
  <2> SUFFICES ASSUME j + 1 <= PlayerCount PROVE Good(c[j + 1], j + 1)
    OBVIOUS
  <2>1. PICK k : k = j + 1
    OBVIOUS
  <2>2. k \in 1 .. PlayerCount /\ k - 1 = j /\ j \in 0 .. PlayerCount
    BY <1>2, <2>1
  <2>3. c[j] \in Orders /\ c[k] = Exchanged(times, c[j], i, k) /\ Good(c[j], k - 1)
    BY <1>2, <1>4, <2>2
  <2>4. Good(c[k], k)
    BY <2>2, <2>3, RoundSorts
  <2> QED
    BY <2>1, <2>4
<1>5. PlayerCount \in S
  <2> HIDE DEF S
  <2> QED
    BY <1>2, <1>3, <1>4, SetInduction
<1>6. PICK n : n = c[PlayerCount]
  OBVIOUS
<1>7. Complete(n) /\ Settled(times, n, i - 1) /\ AheadOf(times, n, i, PlayerCount)
  BY <1>2, <1>5, <1>6
<1>8. ASSUME NEW k \in 1 .. PlayerCount, NEW m \in 1 .. PlayerCount, k <= i, k < m
      PROVE  ~Swaps(times[n[k]], times[n[m]])
  <2>1. CASE k = i
    BY <1>2, <1>7, <1>8, <2>1 DEF AheadOf
  <2>2. CASE k # i
    <3>1. k <= i - 1
      BY <1>8, <2>2
    <3> QED
      BY <1>7, <1>8, <3>1 DEF Settled
  <2> QED
    BY <2>1, <2>2
<1>9. Settled(times, n, i)
  BY <1>8 DEF Settled
<1> QED
  BY <1>1, <1>6, <1>7, <1>9

\* The order the leaderboard is drawn in is settled in all places.
LEMMA SortsAny ==
    ASSUME NEW times \in [1 .. PlayerCount -> Times]
    PROVE  SortedFor(times)
<1>1. PICK c : c = SortUpTo(times)
  OBVIOUS
<1>2. /\ PlayerCount \in Nat /\ c \in [0 .. PlayerCount -> Orders]
      /\ c[0] = [k \in 1 .. PlayerCount |-> k]
      /\ \A i \in 1 .. PlayerCount : c[i] = PassUpTo(times, c[i - 1], i)[PlayerCount]
  BY <1>1, SortRounds, ClientAssumption
<1> DEFINE Good(o, i) == Complete(o) /\ Settled(times, o, i)
           S == {i \in Nat : i <= PlayerCount => Good(c[i], i)}
<1>3. 0 \in S
  <2>1. Complete(c[0])
    BY <1>2 DEF Complete
  <2>2. Settled(times, c[0], 0)
    BY DEF Settled
  <2> QED
    BY <2>1, <2>2
<1>4. ASSUME NEW i \in Nat, i \in S PROVE i + 1 \in S
  <2> SUFFICES ASSUME i + 1 <= PlayerCount PROVE Good(c[i + 1], i + 1)
    OBVIOUS
  <2>1. PICK k : k = i + 1
    OBVIOUS
  <2>2. k \in 1 .. PlayerCount /\ k - 1 = i /\ i \in 0 .. PlayerCount
    BY <1>2, <2>1
  <2>3. c[i] \in Orders /\ c[k] = PassUpTo(times, c[i], k)[PlayerCount] /\ Good(c[i], k - 1)
    BY <1>2, <1>4, <2>2
  <2>4. Good(c[k], k)
    BY <2>2, <2>3, PassSettles
  <2> QED
    BY <2>1, <2>4
<1>5. PlayerCount \in S
  <2> HIDE DEF S
  <2> QED
    BY <1>2, <1>3, <1>4, SetInduction
<1>6. PICK board : board = c[PlayerCount]
  OBVIOUS
<1>7. board \in Orders /\ Complete(board) /\ Settled(times, board, PlayerCount)
  BY <1>2, <1>5, <1>6
<1>8. Range(board) = 1 .. PlayerCount
  BY <1>7 DEF Orders, Complete, Range
<1>9. ASSUME NEW i \in 1 .. PlayerCount, NEW j \in 1 .. PlayerCount, i < j, times[board[j]] > 0
      PROVE  times[board[i]] > 0 /\ times[board[i]] <= times[board[j]]
  <2>1. ~Swaps(times[board[i]], times[board[j]])
    BY <1>2, <1>7, <1>9 DEF Settled
  <2>2. times[board[i]] \in Int /\ times[board[j]] \in Int
    BY <1>7, ClientAssumption DEF Orders
  <2> QED
    BY <1>9, <2>1, <2>2, SwapsOrder
<1>10. sortedIndexes(times) = board
  BY <1>1, <1>6 DEF sortedIndexes
<1> QED
  BY <1>8, <1>9, <1>10 DEF SortedFor

\* Whatever times come and however many players: the exchange sort of showResults names every
\* player once, those who finished in front and the faster before the slower.
THEOREM SortsLeaderboard == Spec => []LeaderboardSorted
<1>1. LeaderboardSorted
  BY SortsAny DEF LeaderboardSorted, SortsAllTimes
<1> QED
  BY <1>1, PTL
=============================================================================
