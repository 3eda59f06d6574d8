--------------------------- MODULE SessionProofs ---------------------------
(***************************************************************************)
(* Proofs about Session for every set of sentences, every number of        *)
(* messages and every way to cut the stream into pieces: the loop that     *)
(* counts braces finds each object of the engine once, at its end, and     *)
(* keeps what is behind it; so the browser gets what the engine sent, and  *)
(* at most one error after it.                                             *)
(***************************************************************************)
EXTENDS Session, LoopProofs, SequenceTheorems

-----------------------------------------------------------------------------
(* One character of the brace counter. *)

\* Between objects, and inside of one.
Between(a, end, types) ==
    a.depth = 0 /\ ~a.inString /\ ~a.escape /\ a.end = end /\ a.types = types
Inside(a, start, end, types) ==
    a.depth = 1 /\ a.start = start /\ a.end = end /\ a.types = types

\* Whatever an object is, it has a type of the race or does not parse.
LEMMA TypeOfTypes == ASSUME NEW o PROVE TypeOf(o) \in RaceTypes \cup {"unparsable"}
  BY DEF TypeOf, RaceTypes

\* A character leaves the loops with something they may know.
LEMMA StepKeeps ==
    ASSUME NEW buffer, NEW at \in Knowledge, NEW k \in Nat
    PROVE  Step(buffer, at, k) \in Knowledge
<1>1. /\ at.depth \in Nat /\ at.inString \in BOOLEAN /\ at.escape \in BOOLEAN /\ at.start \in Nat
      /\ at.end \in Nat /\ at.types \in Seq(RaceTypes)
  BY DEF Knowledge
<1>2. Take(buffer, at, k) \in Knowledge
  <2>1. PICK type : type = TypeOf(SubSeq(buffer, at.start, k))
    OBVIOUS
  <2>2. type \in RaceTypes \cup {"unparsable"}
    BY <2>1, TypeOfTypes
  <2>3. (IF type = "unparsable" THEN at.types ELSE Append(at.types, type)) \in Seq(RaceTypes)
    BY <1>1, <2>2
  <2> QED
    BY <1>1, <2>1, <2>3 DEF Take, Knowledge
<1>3. /\ [at EXCEPT !.depth = 1, !.start = k] \in Knowledge /\ [at EXCEPT !.escape = FALSE] \in Knowledge
      /\ [at EXCEPT !.escape = TRUE] \in Knowledge /\ [at EXCEPT !.inString = ~@] \in Knowledge
      /\ [at EXCEPT !.depth = @ + 1] \in Knowledge
  <2>1. [at EXCEPT !.depth = 1, !.start = k] \in Knowledge
    BY <1>1 DEF Knowledge
  <2>2. [at EXCEPT !.escape = FALSE] \in Knowledge /\ [at EXCEPT !.escape = TRUE] \in Knowledge
    BY <1>1 DEF Knowledge
  <2>3. [at EXCEPT !.inString = ~@] \in Knowledge
    BY <1>1 DEF Knowledge
  <2>4. [at EXCEPT !.depth = @ + 1] \in Knowledge
    BY <1>1 DEF Knowledge
  <2> QED
    BY <2>1, <2>2, <2>3, <2>4
<1>4. at.depth # 0 => [at EXCEPT !.depth = @ - 1] \in Knowledge
  BY <1>1 DEF Knowledge
<1> QED
  BY <1>2, <1>3, <1>4 DEF Step

\* What one character does, as far as the engine's objects need it.
LEMMA StepBetween ==
    ASSUME NEW buffer, NEW at \in Knowledge, NEW k \in Nat, NEW end, NEW types, Between(at, end, types)
    PROVE  /\ buffer[k] # "lbrace" => Between(Step(buffer, at, k), end, types)
           /\ buffer[k] = "lbrace" => /\ Inside(Step(buffer, at, k), k, end, types)
                                      /\ ~Step(buffer, at, k).inString /\ ~Step(buffer, at, k).escape
  BY DEF Between, Inside, Step, Knowledge

\* Inside of an object a character behind a backslash has no meaning.
LEMMA StepEscaped ==
    ASSUME NEW buffer, NEW at \in Knowledge, NEW k \in Nat, NEW start, NEW end, NEW types,
           Inside(at, start, end, types), at.escape
    PROVE  /\ Inside(Step(buffer, at, k), start, end, types)
           /\ Step(buffer, at, k).inString = at.inString /\ ~Step(buffer, at, k).escape
  BY DEF Inside, Step, Knowledge

\* Other characters inside of an object.
LEMMA StepInside ==
    ASSUME NEW buffer, NEW at \in Knowledge, NEW k \in Nat, NEW start, NEW end, NEW types,
           Inside(at, start, end, types), ~at.escape
    PROVE  /\ buffer[k] = "backslash" =>
                 /\ Inside(Step(buffer, at, k), start, end, types)
                 /\ Step(buffer, at, k).inString = at.inString /\ Step(buffer, at, k).escape
           /\ buffer[k] = "quote" =>
                 /\ Inside(Step(buffer, at, k), start, end, types)
                 /\ Step(buffer, at, k).inString = ~at.inString /\ ~Step(buffer, at, k).escape
           /\ buffer[k] \notin {"backslash", "quote"}
                 /\ (at.inString \/ buffer[k] \notin {"lbrace", "rbrace"}) =>
                    Step(buffer, at, k) = at
<1>1. ~(at.depth = 0) /\ ~at.escape
  BY DEF Inside
<1>2. CASE buffer[k] = "backslash"
  <2>1. Step(buffer, at, k) = [at EXCEPT !.escape = TRUE]
    BY <1>1, <1>2 DEF Step
  <2> QED
    BY <1>2, <2>1 DEF Inside, Knowledge
<1>3. CASE buffer[k] = "quote"
  <2>1. Step(buffer, at, k) = [at EXCEPT !.inString = ~@]
    BY <1>1, <1>3 DEF Step
  <2> QED
    BY <1>1, <1>3, <2>1 DEF Inside, Knowledge
<1>4. CASE buffer[k] \notin {"backslash", "quote"}
  BY <1>1, <1>4 DEF Step, BracesCount
<1> QED
  BY <1>2, <1>3, <1>4

\* The closing brace.
LEMMA StepCloses ==
    ASSUME NEW buffer, NEW at \in Knowledge, NEW k \in Nat, NEW start, NEW end, NEW types,
           Inside(at, start, end, types), ~at.escape, ~at.inString, buffer[k] = "rbrace",
           NEW type \in RaceTypes, TypeOf(SubSeq(buffer, start, k)) = type
    PROVE  Between(Step(buffer, at, k), k, Append(types, type))
<1>1. at.depth = 1 /\ at.start = start /\ at.types = types
  BY DEF Inside
<1>2. Step(buffer, at, k) = Take(buffer, at, k)
  BY <1>1 DEF Step, BracesCount
<1>3. type # "unparsable"
  BY DEF RaceTypes
<1>4. Take(buffer, at, k) = [at EXCEPT !.depth = 0, !.end = k, !.types = Append(@, type)]
  BY <1>1, <1>3 DEF Take
<1> QED
  BY <1>1, <1>2, <1>4 DEF Between, Knowledge

-----------------------------------------------------------------------------
(* The brace counter on a buffer. *)

\* What the loops know after each character.
LEMMA ScanRounds ==
    ASSUME NEW T, NEW s \in Seq(T)
    PROVE  /\ Scan(s) \in [0 .. Len(s) -> Knowledge]
           /\ Scan(s)[0] = Nothing
           /\ \A k \in 1 .. Len(s) : Scan(s)[k] = Step(s, Scan(s)[k - 1], k)
<1> DEFINE step == [p \in Knowledge \X (1 .. Len(s)) |-> Step(s, p[1], p[2])]
           Eqn(g) == g = [k \in 0 .. Len(s) |-> IF k = 0 THEN Nothing ELSE step[<<g[k - 1], k>>]]
<1>1. Len(s) \in Nat /\ Nothing \in Knowledge
  BY DEF Nothing, Knowledge
<1>2. ASSUME NEW a \in Knowledge, NEW k \in 1 .. Len(s) PROVE Step(s, a, k) \in Knowledge
  BY StepKeeps
<1>3. step \in [Knowledge \X (1 .. Len(s)) -> Knowledge]
  BY <1>2
<1>4. PICK f : Rounds(f, Knowledge, Nothing, Len(s), step)
  <2> HIDE DEF step
  <2> QED
    BY <1>1, <1>3, RoundsExist
<1>5. f \in [0 .. Len(s) -> Knowledge] /\ f[0] = Nothing /\ \A k \in 1 .. Len(s) : f[k] = step[<<f[k - 1], k>>]
  BY <1>4 DEF Rounds
<1>6. Eqn(f)
  <2> HIDE DEF step
  <2> QED
    BY <1>5
<1>7. Scan(s) = CHOOSE g : Eqn(g)
  BY DEF Scan
<1>8. Eqn(Scan(s))
  <2> HIDE DEF Eqn
  <2> QED
    BY <1>6, <1>7
<1>9. PICK c : c = Scan(s)
  OBVIOUS
<1>10. /\ c[0] = Nothing /\ \A k \in 1 .. Len(s) : c[k] = step[<<c[k - 1], k>>]
       /\ c = [k \in 0 .. Len(s) |-> c[k]]
  <2> HIDE DEF step
  <2> QED
    BY <1>1, <1>8, <1>9
<1>11. ASSUME NEW k \in 1 .. Len(s), c[k - 1] \in Knowledge
       PROVE  c[k] = Step(s, c[k - 1], k) /\ c[k] \in Knowledge
  BY <1>2, <1>10, <1>11
<1>12. \A k \in 0 .. Len(s) : c[k] \in Knowledge
  BY <1>1, <1>10, <1>11, RoundsKeep
<1>13. c \in [0 .. Len(s) -> Knowledge]
  BY <1>10, <1>12
<1>14. \A k \in 1 .. Len(s) : c[k] = Step(s, c[k - 1], k)
  <2> TAKE k \in 1 .. Len(s)
  <2>1. k - 1 \in 0 .. Len(s)
    BY <1>1
  <2> QED
    BY <1>11, <1>12, <2>1
<1> QED
  BY <1>9, <1>10, <1>13, <1>14

\* The object of three tokens for a message of the race.
ObjectOf(type) == <<"lbrace", KeyOf(type), "rbrace">>

\* The two types of objects that follow the first.
Later == {"PROGRESS_UPDATE", "RACE_RESULTS"}

\* What the first object is made of.
Text == STRING \cup {"lbrace", "sentence", "quote", "rbrace"}

\* The tokens of the first object.
LEMMA StateTokens ==
    ASSUME NEW c \in Contents, NEW o, o = StateObject(c)
    PROVE  /\ c \in Seq(Text) /\ o \in Seq(Text) /\ Len(c) \in Nat /\ Len(o) = Len(c) + 5
           /\ o[1] = "lbrace" /\ o[2] = "sentence" /\ o[3] = "quote"
           /\ \A k \in 1 .. Len(c) : o[k + 3] = c[k]
           /\ o[Len(c) + 4] = "quote" /\ o[Len(c) + 5] = "rbrace"
<1>1. c \in Seq(Text)
  <2>1. c \in Seq(STRING)
    BY SessionAssumption
  <2>2. Len(c) \in Nat /\ \A i \in 1 .. Len(c) : c[i] \in Text
    BY <2>1 DEF Text
  <2>3. c = [i \in 1 .. Len(c) |-> c[i]]
    BY <2>1
  <2> QED
    BY <2>2, <2>3
<1>2. PICK a, z : a = <<"lbrace", "sentence", "quote">> /\ z = <<"quote", "rbrace">>
  OBVIOUS
<1>3. /\ a \in Seq(Text) /\ Len(a) = 3 /\ a[1] = "lbrace" /\ a[2] = "sentence" /\ a[3] = "quote"
      /\ z \in Seq(Text) /\ Len(z) = 2 /\ z[1] = "quote" /\ z[2] = "rbrace"
  <2>1. a \in Seq(Text) /\ Len(a) = 3 /\ a[1] = "lbrace" /\ a[2] = "sentence" /\ a[3] = "quote"
    <3>1. Len(a) = 3 /\ a[1] = "lbrace" /\ a[2] = "sentence" /\ a[3] = "quote"
      BY <1>2
    <3>2. "lbrace" \in Text /\ "sentence" \in Text /\ "quote" \in Text
      BY DEF Text
    <3>3. a \in Seq(Text)
      BY <1>2, <3>2
    <3> QED
      BY <3>1, <3>3
  <2>2. z \in Seq(Text) /\ Len(z) = 2 /\ z[1] = "quote" /\ z[2] = "rbrace"
    <3>1. Len(z) = 2 /\ z[1] = "quote" /\ z[2] = "rbrace"
      BY <1>2
    <3>2. "quote" \in Text /\ "rbrace" \in Text
      BY DEF Text
    <3>3. z \in Seq(Text)
      BY <1>2, <3>2
    <3> QED
      BY <3>1, <3>3
  <2> QED
    BY <2>1, <2>2
<1>4. PICK b, n : b = a \o c /\ n = Len(c)
  OBVIOUS
<1>5. n \in Nat /\ b \in Seq(Text) /\ Len(b) = n + 3
      /\ \A i \in 1 .. n + 3 : b[i] = IF i <= 3 THEN a[i] ELSE c[i - 3]
  <2>1. /\ a \o c \in Seq(Text) /\ Len(a \o c) = Len(a) + Len(c)
        /\ \A i \in 1 .. Len(a) + Len(c) : (a \o c)[i] = IF i <= Len(a) THEN a[i] ELSE c[i - Len(a)]
    BY <1>1, <1>3, ConcatProperties, Zenon
  <2>2. n \in Nat /\ 3 + n = n + 3
    BY <1>1, <1>4
  <2> QED
    BY <1>3, <1>4, <2>1, <2>2
<1>6. o = b \o z
  BY <1>2, <1>4 DEF StateObject
<1>7. o \in Seq(Text) /\ Len(o) = n + 5
      /\ \A i \in 1 .. n + 5 : o[i] = IF i <= n + 3 THEN b[i] ELSE z[i - (n + 3)]
  <2>1. /\ b \o z \in Seq(Text) /\ Len(b \o z) = Len(b) + Len(z)
        /\ \A i \in 1 .. Len(b) + Len(z) : (b \o z)[i] = IF i <= Len(b) THEN b[i] ELSE z[i - Len(b)]
    BY <1>3, <1>5, ConcatProperties, Zenon
  <2>2. n + 3 + 2 = n + 5
    BY <1>5
  <2> QED
    BY <1>3, <1>5, <1>6, <2>1, <2>2
<1>8. o[1] = "lbrace" /\ o[2] = "sentence" /\ o[3] = "quote"
  BY <1>3, <1>5, <1>7
<1>9. ASSUME NEW k \in 1 .. n PROVE o[k + 3] = c[k]
  <2>1. PICK i : i = k + 3
    OBVIOUS
  <2>2. i \in 1 .. n + 5 /\ i \in 1 .. n + 3 /\ i - 3 = k /\ ~(i <= 3) /\ i <= n + 3
    BY <1>5, <2>1
  <2>3. o[i] = b[i] /\ b[i] = c[i - 3]
    BY <1>5, <1>7, <2>2
  <2> QED
    BY <2>1, <2>2, <2>3
<1>10. o[n + 4] = "quote" /\ o[n + 5] = "rbrace"
  <2>1. PICK i, j : i = n + 4 /\ j = n + 5
    OBVIOUS
  <2>2. i \in 1 .. n + 5 /\ i - (n + 3) = 1 /\ j \in 1 .. n + 5 /\ j - (n + 3) = 2 /\ ~(i <= n + 3) /\ ~(j <= n + 3)
    BY <1>5, <2>1
  <2>3. o[i] = z[1] /\ o[j] = z[2]
    BY <1>7, <2>2
  <2> QED
    BY <1>3, <2>1, <2>3
<1> QED
  BY <1>1, <1>4, <1>5, <1>7, <1>8, <1>9, <1>10

\* No object of three tokens is the first object, whatever its sentence is.
LEMMA ThreeTokens ==
    ASSUME NEW o \in {Progress, Times}
    PROVE  o \notin StateObjects /\ Progress # Times
<1>1. Progress[2] = "progress" /\ Times[2] = "times"
  BY DEF Progress, Times
<1>2. ASSUME NEW c \in Contents PROVE StateObject(c)[2] = "sentence"
  BY StateTokens
<1> QED
  BY <1>1, <1>2 DEF StateObjects

\* Each of them is an object of its type.
LEMMA ObjectTypes ==
    ASSUME NEW type \in Later
    PROVE  TypeOf(ObjectOf(type)) = type
<1>1. CASE type = "PROGRESS_UPDATE"
  <2>1. ObjectOf(type) = Progress
    BY <1>1 DEF ObjectOf, KeyOf, Progress
  <2> QED
    BY <1>1, <2>1, ThreeTokens DEF TypeOf
<1>2. CASE type = "RACE_RESULTS"
  <2>1. ObjectOf(type) = Times
    BY <1>2 DEF ObjectOf, KeyOf, Times
  <2> QED
    BY <1>2, <2>1, ThreeTokens DEF TypeOf
<1> QED
  BY <1>1, <1>2 DEF Later

\* From between two objects over the next one, as far as the buffer has it.
LEMMA ObjectScan ==
    ASSUME NEW T, NEW s \in Seq(T), NEW p \in Nat, NEW types, NEW type \in Later,
           p <= Len(s), Between(Scan(s)[p], p, types),
           p + 1 <= Len(s) => s[p + 1] = "lbrace",
           p + 2 <= Len(s) => s[p + 2] = KeyOf(type),
           p + 3 <= Len(s) => s[p + 3] = "rbrace"
    PROVE  /\ p + 1 <= Len(s) => Inside(Scan(s)[p + 1], p + 1, p, types)
           /\ p + 2 <= Len(s) => Inside(Scan(s)[p + 2], p + 1, p, types)
           /\ p + 3 <= Len(s) => Between(Scan(s)[p + 3], p + 3, Append(types, type))
<1>1. PICK c, n : c = Scan(s) /\ n = Len(s)
  OBVIOUS
<1>2. n \in Nat /\ \A k \in 0 .. n : c[k] \in Knowledge
  BY <1>1, ScanRounds
<1>3. \A k \in 1 .. n : c[k] = Step(s, c[k - 1], k)
  BY <1>1, ScanRounds
<1>4. PICK q : q = p + 1
  OBVIOUS
<1>5. ASSUME q <= n PROVE Inside(c[q], q, p, types) /\ ~c[q].inString /\ ~c[q].escape
  <2>1. q \in 1 .. n /\ q \in Nat /\ q - 1 = p /\ p \in 0 .. n
    BY <1>2, <1>4, <1>5
  <2>2. c[q] = Step(s, c[p], q) /\ c[p] \in Knowledge
    BY <1>2, <1>3, <2>1
  <2>3. s[q] = "lbrace" /\ Between(c[p], p, types)
    BY <1>1, <1>4, <1>5
  <2> QED
    BY <2>1, <2>2, <2>3, StepBetween
<1>6. ASSUME q + 1 <= n PROVE Inside(c[q + 1], q, p, types) /\ ~c[q + 1].inString /\ ~c[q + 1].escape
  <2>1. PICK r : r = q + 1
    OBVIOUS
  <2>2. r \in 1 .. n /\ r \in Nat /\ r - 1 = q /\ q \in 0 .. n /\ q <= n
    BY <1>2, <1>4, <1>6, <2>1
  <2>3. c[r] = Step(s, c[q], r) /\ c[q] \in Knowledge
    BY <1>2, <1>3, <2>2
  <2>4. s[r] = KeyOf(type)
    BY <1>1, <1>4, <1>6, <2>1
  <2>5. s[r] \notin {"backslash", "quote", "lbrace", "rbrace"}
    BY <2>4 DEF KeyOf
  <2>6. Step(s, c[q], r) = c[q]
    BY <1>5, <2>2, <2>3, <2>5, StepInside
  <2> QED
    BY <1>5, <2>1, <2>2, <2>3, <2>6
<1>7. ASSUME q + 2 <= n PROVE Between(c[q + 2], q + 2, Append(types, type))
  <2>1. PICK r : r = q + 2
    OBVIOUS
  <2>2. /\ r \in 1 .. n /\ r \in Nat /\ r - 1 = q + 1 /\ q + 1 \in 0 .. n /\ q + 1 <= n
        /\ q \in Nat /\ q >= 1
    BY <1>2, <1>4, <1>7, <2>1
  <2>3. c[r] = Step(s, c[q + 1], r) /\ c[q + 1] \in Knowledge
    BY <1>2, <1>3, <2>2
  <2>4. s[q] = "lbrace" /\ s[q + 1] = KeyOf(type) /\ s[r] = "rbrace"
    BY <1>1, <1>4, <1>7, <2>1, <2>2
  <2>5. SubSeq(s, q, r) = ObjectOf(type)
    <3>1. PICK o : o = SubSeq(s, q, r)
      OBVIOUS
    <3>2. o \in Seq(T) /\ Len(o) = 3 /\ o[1] = s[q] /\ o[2] = s[q + 1] /\ o[3] = s[r]
      BY <1>1, <2>1, <2>2, <3>1
    <3>3. o = <<o[1], o[2], o[3]>>
      BY <3>2
    <3> QED
      BY <2>4, <3>1, <3>2, <3>3 DEF ObjectOf
  <2>6. type \in RaceTypes /\ TypeOf(SubSeq(s, q, r)) = type
    BY <2>5, ObjectTypes DEF Later, RaceTypes
  <2> QED
    BY <1>6, <2>1, <2>2, <2>3, <2>4, <2>6, StepCloses
<1> QED
  <2>1. p + 1 = q /\ p + 2 = q + 1 /\ p + 3 = q + 2
    BY <1>4
  <2> QED
    BY <1>1, <1>5, <1>6, <1>7, <2>1

\* One sequence grows by an element of another.
LEMMA GrowsByOne ==
    ASSUME NEW S, NEW s \in Seq(S), NEW t \in Seq(S), NEW i \in Nat, i + 1 <= Len(t)
    PROVE  /\ Append(s \o SubSeq(t, 1, i), t[i + 1]) = s \o SubSeq(t, 1, i + 1)
           /\ s \o SubSeq(t, 1, i) \in Seq(S)
<1>1. PICK a, b, x : a = SubSeq(t, 1, i) /\ b = SubSeq(t, 1, i + 1) /\ x = t[i + 1]
  OBVIOUS
<1>2. /\ a \in Seq(S) /\ Len(a) = i /\ \A k \in 1 .. i : a[k] = t[k]
      /\ b \in Seq(S) /\ Len(b) = i + 1 /\ \A k \in 1 .. i + 1 : b[k] = t[k]
      /\ x \in S
  BY <1>1
<1>3. b = Append(a, x)
  <2>1. PICK d : d = Append(a, x)
    OBVIOUS
  <2>2. d \in Seq(S) /\ Len(d) = i + 1
    BY <1>2, <2>1
  <2>3. ASSUME NEW k \in 1 .. i + 1 PROVE d[k] = b[k]
    BY <1>1, <1>2, <2>1
  <2> QED
    BY <1>2, <2>1, <2>2, <2>3, SeqEqual
<1>4. s \o a \in Seq(S) /\ Append(s \o a, x) = s \o Append(a, x)
  <2>1. PICK one : one = <<x>>
    OBVIOUS
  <2>2. one \in Seq(S) /\ s \o a \in Seq(S)
    BY <1>2, <2>1
  <2>3. (s \o a) \o one = s \o (a \o one)
    <3>1. s \in Seq(S) /\ a \in Seq(S) /\ one \in Seq(S)
      BY <1>2, <2>2
    <3> QED
      BY <3>1, ConcatAssociative, SMTT(30)
  <2>4. PICK u : u = s \o a
    OBVIOUS
  <2>5. u \in Seq(S) /\ Append(u, x) = u \o one /\ Append(a, x) = a \o one
    <3>1. u \in Seq(S) /\ a \in Seq(S) /\ x \in S
      BY <1>2, <2>2, <2>4
    <3>2. Append(u, x) = u \o <<x>>
      BY <3>1, AppendIsConcat
    <3>3. Append(a, x) = a \o <<x>>
      BY <3>1, AppendIsConcat
    <3> QED
      BY <2>1, <3>1, <3>2, <3>3
  <2> QED
    BY <2>3, <2>4, <2>5
<1> QED
  BY <1>1, <1>2, <1>3, <1>4

\* From between two objects to the end of the buffer, over whole objects and the beginning
\* of one: the whole ones are found, one after the other, and nothing else.
LEMMA ObjectsScan ==
    ASSUME NEW T, NEW s \in Seq(T), NEW p \in Nat, NEW types \in Seq(RaceTypes),
           NEW list \in Seq(Later), NEW q \in Nat, NEW r \in 0 .. 2, Len(s) = p + 3 * q + r,
           q <= Len(list), r > 0 => q < Len(list), Between(Scan(s)[p], p, types),
           \A i \in 1 .. Len(list) :
               /\ p + 3 * i - 2 <= Len(s) => s[p + 3 * i - 2] = "lbrace"
               /\ p + 3 * i - 1 <= Len(s) => s[p + 3 * i - 1] = KeyOf(list[i])
               /\ p + 3 * i <= Len(s) => s[p + 3 * i] = "rbrace"
    PROVE  /\ Scan(s)[Len(s)].end = p + 3 * q
           /\ Scan(s)[Len(s)].types = types \o SubSeq(list, 1, q)
<1>1. PICK c, n : c = Scan(s) /\ n = Len(s)
  OBVIOUS
<1>2. list \in Seq(RaceTypes) /\ Len(list) \in Nat
  <2>1. Len(list) \in Nat /\ \A i \in 1 .. Len(list) : list[i] \in RaceTypes
    BY DEF Later, RaceTypes
  <2>2. list = [i \in 1 .. Len(list) |-> list[i]]
    OBVIOUS
  <2>3. list \in Seq(RaceTypes)
    BY <2>1, <2>2
  <2> QED
    BY <2>1, <2>3
<1> DEFINE S == {i \in Nat : i <= q => Between(c[p + 3 * i], p + 3 * i, types \o SubSeq(list, 1, i))}
<1>3. 0 \in S
  <2>1. types \o SubSeq(list, 1, 0) = types
    <3>1. SubSeq(list, 1, 0) = <<>>
      BY <1>2
    <3> QED
      BY <3>1, ConcatEmptySeq
  <2>2. p + 3 * 0 = p
    OBVIOUS
  <2> QED
    BY <1>1, <2>1, <2>2
<1>4. ASSUME NEW i \in Nat, i \in S PROVE i + 1 \in S
  <2>1. SUFFICES ASSUME i + 1 <= q
                 PROVE  Between(c[p + 3 * (i + 1)], p + 3 * (i + 1), types \o SubSeq(list, 1, i + 1))
    OBVIOUS
  <2>2. PICK b, j, ts : b = p + 3 * i /\ j = i + 1 /\ ts = types \o SubSeq(list, 1, i)
    OBVIOUS
  <2>3. /\ b \in Nat /\ j \in 1 .. Len(list) /\ b + 3 = p + 3 * j /\ b + 3 <= n /\ n \in Nat
        /\ b + 1 = p + 3 * j - 2 /\ b + 2 = p + 3 * j - 1 /\ i <= q
    BY <1>1, <1>2, <2>1, <2>2
  <2>4. Between(c[b], b, ts)
    BY <1>4, <2>2, <2>3
  <2>5. list[j] \in Later
    BY <2>3
  <2>6. s[b + 1] = "lbrace" /\ s[b + 2] = KeyOf(list[j]) /\ s[b + 3] = "rbrace"
    <3>1. /\ p + 3 * j - 2 <= Len(s) => s[p + 3 * j - 2] = "lbrace"
          /\ p + 3 * j - 1 <= Len(s) => s[p + 3 * j - 1] = KeyOf(list[j])
          /\ p + 3 * j <= Len(s) => s[p + 3 * j] = "rbrace"
      BY <2>3, Zenon
    <3>2. b + 1 <= n /\ b + 2 <= n
      BY <2>3
    <3> QED
      BY <1>1, <2>3, <3>1, <3>2
  <2>7. b <= Len(s) /\ b + 3 <= Len(s)
    BY <1>1, <2>3
  <2>8. Between(c[b + 3], b + 3, Append(ts, list[j]))
    BY <1>1, <2>3, <2>4, <2>5, <2>6, <2>7, ObjectScan
  <2>9. Append(ts, list[j]) = types \o SubSeq(list, 1, j)
    <3>1. i + 1 <= Len(list)
      BY <2>2, <2>3
    <3>2. Append(types \o SubSeq(list, 1, i), list[i + 1]) = types \o SubSeq(list, 1, i + 1)
      BY <1>2, <3>1, GrowsByOne, Zenon
    <3> QED
      BY <2>2, <3>2
  <2> QED
    BY <2>2, <2>3, <2>8, <2>9
<1>5. q \in S
  <2> HIDE DEF S
  <2> QED
    BY <1>3, <1>4, SetInduction
<1>6. PICK b, ts : b = p + 3 * q /\ ts = types \o SubSeq(list, 1, q)
  OBVIOUS
<1>7. b \in Nat /\ n = b + r /\ n \in Nat /\ Between(c[b], b, ts)
  BY <1>1, <1>5, <1>6
<1>8. CASE r = 0
  BY <1>1, <1>6, <1>7, <1>8 DEF Between
<1>9. CASE r > 0
  <2>1. PICK j : j = q + 1
    OBVIOUS
  <2>2. /\ j \in 1 .. Len(list) /\ b + 1 = p + 3 * j - 2 /\ b + 2 = p + 3 * j - 1 /\ b + 3 = p + 3 * j
        /\ n \in {b + 1, b + 2} /\ b <= n /\ ~(b + 3 <= n)
    BY <1>2, <1>6, <1>7, <1>9, <2>1
  <2>3. /\ b + 1 <= n => s[b + 1] = "lbrace"
        /\ b + 2 <= n => s[b + 2] = KeyOf(list[j])
        /\ b + 3 <= n => s[b + 3] = "rbrace"
    BY <1>1, <2>2
  <2>4. list[j] \in Later
    BY <2>2
  <2>5. /\ b + 1 <= n => Inside(c[b + 1], b + 1, b, ts)
        /\ b + 2 <= n => Inside(c[b + 2], b + 1, b, ts)
    BY <1>1, <1>7, <2>2, <2>3, <2>4, ObjectScan
  <2>6. Inside(c[n], b + 1, b, ts)
    <3>1. CASE n = b + 1
      BY <2>2, <2>5, <3>1
    <3>2. CASE n = b + 2
      BY <2>2, <2>5, <3>2
    <3> QED
      BY <2>2, <3>1, <3>2
  <2> QED
    BY <1>1, <1>6, <2>6 DEF Inside
<1>10. r = 0 \/ r > 0
  OBVIOUS
<1> QED
  BY <1>8, <1>9, <1>10

\* The stream of a race up to the end of its first object.
FirstOf(c) == <<"LEN">> \o StateObject(c)

\* Its tokens.
LEMMA FirstTokens ==
    ASSUME NEW c \in Contents, NEW f, f = FirstOf(c)
    PROVE  /\ f \in Seq(Text \cup {"LEN"}) /\ Len(c) \in Nat /\ Len(f) = Len(c) + 6
           /\ f[1] = "LEN" /\ f[2] = "lbrace" /\ f[3] = "sentence" /\ f[4] = "quote"
           /\ \A k \in 1 .. Len(c) : f[k + 4] = c[k]
           /\ f[Len(c) + 5] = "quote" /\ f[Len(c) + 6] = "rbrace"
           /\ \A k \in 1 .. Len(c) + 5 : f[k + 1] = StateObject(c)[k]
<1>1. PICK a, o, n, T : a = <<"LEN">> /\ o = StateObject(c) /\ n = Len(c) /\ T = Text \cup {"LEN"}
  OBVIOUS
<1>2. /\ o \in Seq(Text) /\ n \in Nat /\ Len(o) = n + 5 /\ o[1] = "lbrace" /\ o[2] = "sentence"
      /\ o[3] = "quote" /\ (\A k \in 1 .. n : o[k + 3] = c[k]) /\ o[n + 4] = "quote" /\ o[n + 5] = "rbrace"
  BY <1>1, StateTokens
<1>3. o \in Seq(T)
  <2>1. \A i \in 1 .. Len(o) : o[i] \in T
    BY <1>1, <1>2
  <2>2. o = [i \in 1 .. Len(o) |-> o[i]] /\ Len(o) \in Nat
    BY <1>2
  <2> QED
    BY <2>1, <2>2
<1>4. a \in Seq(T) /\ Len(a) = 1 /\ a[1] = "LEN"
  <2>1. Len(a) = 1 /\ a[1] = "LEN"
    BY <1>1
  <2>2. "LEN" \in T
    BY <1>1
  <2>3. a \in Seq(T)
    BY <1>1, <2>2
  <2> QED
    BY <2>1, <2>3
<1>5. /\ f \in Seq(T) /\ Len(f) = n + 6
      /\ \A i \in 1 .. n + 6 : f[i] = IF i <= 1 THEN a[i] ELSE o[i - 1]
  <2>1. /\ a \o o \in Seq(T) /\ Len(a \o o) = Len(a) + Len(o)
        /\ \A i \in 1 .. Len(a) + Len(o) : (a \o o)[i] = IF i <= Len(a) THEN a[i] ELSE o[i - Len(a)]
    BY <1>3, <1>4, ConcatProperties, Zenon
  <2>2. f = a \o o /\ Len(a) + Len(o) = n + 6
    BY <1>1, <1>2, <1>4 DEF FirstOf
  <2> QED
    BY <1>4, <2>1, <2>2
<1>6. \A k \in 1 .. n + 5 : f[k + 1] = o[k]
  <2> TAKE k \in 1 .. n + 5
  <2>1. PICK i : i = k + 1
    OBVIOUS
  <2>2. i \in 1 .. n + 6 /\ ~(i <= 1) /\ i - 1 = k
    BY <1>2, <2>1
  <2> QED
    BY <1>5, <2>1, <2>2
<1>7. f[1] = "LEN" /\ f[2] = "lbrace" /\ f[3] = "sentence" /\ f[4] = "quote"
  <2>1. 1 \in 1 .. n + 6 /\ 2 \in 1 .. n + 6 /\ 3 \in 1 .. n + 6 /\ 4 \in 1 .. n + 6
    BY <1>2
  <2> QED
    BY <1>2, <1>4, <1>5, <2>1
<1>8. f[n + 5] = "quote" /\ f[n + 6] = "rbrace"
  <2>1. PICK i, j : i = n + 4 /\ j = n + 5
    OBVIOUS
  <2>2. i \in 1 .. n + 5 /\ j \in 1 .. n + 5 /\ i + 1 = n + 5 /\ j + 1 = n + 6
    BY <1>2, <2>1
  <2>3. f[i + 1] = o[i] /\ f[j + 1] = o[j]
    BY <1>6, <2>2
  <2> QED
    BY <1>2, <2>1, <2>2, <2>3
<1>9. \A k \in 1 .. n : f[k + 4] = c[k]
  <2> TAKE k \in 1 .. n
  <2>1. PICK i : i = k + 3
    OBVIOUS
  <2>2. i \in 1 .. n + 5 /\ i + 1 = k + 4
    BY <1>2, <2>1
  <2>3. f[i + 1] = o[i]
    BY <1>6, <2>2
  <2> QED
    BY <1>2, <2>1, <2>2, <2>3
<1> QED
  BY <1>1, <1>2, <1>5, <1>6, <1>7, <1>8, <1>9

\* Over the length and the first object, as far as the buffer has them: the object is found
\* at its end and not before, whatever the sentence in it holds.
LEMMA FirstScan ==
    ASSUME NEW T, NEW s \in Seq(T), NEW c \in Contents,
           \A k \in 1 .. Len(FirstOf(c)) : k <= Len(s) => s[k] = FirstOf(c)[k]
    PROVE  /\ Len(s) < Len(FirstOf(c)) => Scan(s)[Len(s)].end = 0 /\ Scan(s)[Len(s)].types = <<>>
           /\ Len(s) >= Len(FirstOf(c)) =>
                 Between(Scan(s)[Len(FirstOf(c))], Len(FirstOf(c)), <<"LOBBY_STATE">>)
<1>1. PICK a, n, m, f : a = Scan(s) /\ n = Len(s) /\ m = Len(c) /\ f = FirstOf(c)
  OBVIOUS
<1>2. /\ m \in Nat /\ Len(f) = m + 6 /\ f[1] = "LEN" /\ f[2] = "lbrace" /\ f[3] = "sentence"
      /\ f[4] = "quote" /\ (\A k \in 1 .. m : f[k + 4] = c[k]) /\ f[m + 5] = "quote" /\ f[m + 6] = "rbrace"
      /\ \A k \in 1 .. m + 5 : f[k + 1] = StateObject(c)[k]
  BY <1>1, FirstTokens
<1>3. n \in Nat /\ \A k \in 1 .. m + 6 : k <= n => s[k] = f[k]
  BY <1>1, <1>2
<1>4. \A k \in 0 .. n : a[k] \in Knowledge
  BY <1>1, ScanRounds
<1>5. a[0] = Nothing /\ \A k \in 1 .. n : a[k] = Step(s, a[k - 1], k)
  BY <1>1, ScanRounds
<1>6. ASSUME NEW k \in Nat, k + 1 <= n
      PROVE  a[k] \in Knowledge /\ a[k + 1] \in Knowledge /\ a[k + 1] = Step(s, a[k], k + 1)
  <2>1. PICK j : j = k + 1
    OBVIOUS
  <2>2. j \in 1 .. n /\ j \in 0 .. n /\ k \in 0 .. n /\ j - 1 = k
    BY <1>3, <1>6, <2>1
  <2> QED
    BY <1>4, <1>5, <2>1, <2>2
<1>7. PICK escape \in [0 .. m -> BOOLEAN] :
         /\ ~escape[0] /\ ~escape[m]
         /\ \A k \in 1 .. m : IF escape[k - 1] THEN ~escape[k]
                              ELSE c[k] # "quote" /\ (escape[k] <=> c[k] = "backslash")
  <2>1. JsonString(c)
    BY SessionAssumption
  <2> QED
    BY <1>1, <2>1 DEF JsonString
<1>8. Between(a[0], 0, <<>>)
  BY <1>5 DEF Between, Nothing
<1>9. n >= 1 => Between(a[1], 0, <<>>)
  <2>1. SUFFICES ASSUME n >= 1 PROVE Between(a[1], 0, <<>>)
    OBVIOUS
  <2>2. s[1] = "LEN" /\ a[0] \in Knowledge /\ a[1] = Step(s, a[0], 1)
    BY <1>2, <1>3, <1>4, <1>5, <2>1
  <2> QED
    BY <1>8, <2>2, StepBetween
<1>10. n >= 2 => Inside(a[2], 2, 0, <<>>) /\ ~a[2].inString /\ ~a[2].escape
  <2>1. SUFFICES ASSUME n >= 2 PROVE Inside(a[2], 2, 0, <<>>) /\ ~a[2].inString /\ ~a[2].escape
    OBVIOUS
  <2>2. s[2] = "lbrace" /\ a[1] \in Knowledge /\ a[2] = Step(s, a[1], 2)
    BY <1>2, <1>3, <1>4, <1>5, <2>1
  <2> QED
    BY <1>3, <1>9, <2>1, <2>2, StepBetween
<1>11. n >= 3 => Inside(a[3], 2, 0, <<>>) /\ ~a[3].inString /\ ~a[3].escape
  <2>1. SUFFICES ASSUME n >= 3 PROVE Inside(a[3], 2, 0, <<>>) /\ ~a[3].inString /\ ~a[3].escape
    OBVIOUS
  <2>2. s[3] = "sentence" /\ a[2] \in Knowledge /\ a[3] = Step(s, a[2], 3)
    BY <1>2, <1>3, <1>4, <1>5, <2>1
  <2>3. Inside(a[2], 2, 0, <<>>) /\ ~a[2].inString /\ ~a[2].escape
    BY <1>3, <1>10, <2>1
  <2>4. Step(s, a[2], 3) = a[2]
    BY <2>2, <2>3, StepInside
  <2> QED
    BY <2>2, <2>3, <2>4
<1>12. n >= 4 => Inside(a[4], 2, 0, <<>>) /\ a[4].inString /\ ~a[4].escape
  <2>1. SUFFICES ASSUME n >= 4 PROVE Inside(a[4], 2, 0, <<>>) /\ a[4].inString /\ ~a[4].escape
    OBVIOUS
  <2>2. s[4] = "quote" /\ a[3] \in Knowledge /\ a[4] = Step(s, a[3], 4)
    BY <1>2, <1>3, <1>4, <1>5, <2>1
  <2>3. Inside(a[3], 2, 0, <<>>) /\ ~a[3].inString /\ ~a[3].escape
    BY <1>3, <1>11, <2>1
  <2>4. /\ Inside(Step(s, a[3], 4), 2, 0, <<>>)
        /\ Step(s, a[3], 4).inString = ~a[3].inString /\ ~Step(s, a[3], 4).escape
    BY <2>2, <2>3, StepInside
  <2> QED
    BY <2>2, <2>3, <2>4
<1> DEFINE InText(k) == Inside(a[k + 4], 2, 0, <<>>) /\ a[k + 4].inString /\ (a[k + 4].escape <=> escape[k])
           S == {k \in Nat : k <= m /\ k + 4 <= n => InText(k)}
<1>13. 0 \in S
  <2>1. 0 + 4 = 4
    OBVIOUS
  <2>2. n >= 4 => InText(0)
    BY <1>7, <1>12, <2>1
  <2> QED
    BY <1>3, <2>2
<1>14. ASSUME NEW k \in Nat, k \in S PROVE k + 1 \in S
  <2>1. SUFFICES ASSUME k + 1 <= m, k + 1 + 4 <= n PROVE InText(k + 1)
    OBVIOUS
  <2>2. PICK b, j : b = k + 4 /\ j = k + 1
    OBVIOUS
  <2>3. b \in Nat /\ b + 1 <= n /\ j \in 1 .. m /\ j - 1 = k /\ j + 4 = b + 1 /\ b + 1 \in 1 .. m + 6 /\ k <= m
        /\ k + 4 <= n
    BY <1>2, <1>3, <2>1, <2>2
  <2>4. s[b + 1] = c[j]
    BY <1>2, <1>3, <2>3, SMTT(30)
  <2>5. Inside(a[b], 2, 0, <<>>) /\ a[b].inString /\ (a[b].escape <=> escape[k])
    BY <1>14, <2>2, <2>3
  <2>6. a[b] \in Knowledge /\ a[b + 1] \in Knowledge /\ a[b + 1] = Step(s, a[b], b + 1) /\ b + 1 \in Nat
    BY <1>6, <2>3
  <2>7. CASE escape[k]
    <3>1. /\ Inside(a[b + 1], 2, 0, <<>>) /\ a[b + 1].inString = a[b].inString /\ ~a[b + 1].escape
      <4>1. PICK e, x : e = b + 1 /\ x = a[b]
        OBVIOUS
      <4>2. e \in Nat /\ x \in Knowledge /\ Inside(x, 2, 0, <<>>) /\ x.escape
        BY <2>5, <2>6, <2>7, <4>1
      <4>3. /\ Inside(Step(s, x, e), 2, 0, <<>>)
            /\ Step(s, x, e).inString = x.inString /\ ~Step(s, x, e).escape
        BY <4>2, StepEscaped
      <4> QED
        BY <2>6, <4>1, <4>3
    <3>2. ~escape[j]
      BY <1>7, <2>3, <2>7
    <3> QED
      BY <2>2, <2>3, <2>5, <3>1, <3>2
  <2>8. CASE ~escape[k] /\ c[j] = "backslash"
    <3>1. /\ Inside(a[b + 1], 2, 0, <<>>) /\ a[b + 1].inString = a[b].inString /\ a[b + 1].escape
      <4>1. PICK e, x : e = b + 1 /\ x = a[b]
        OBVIOUS
      <4>2. e \in Nat /\ x \in Knowledge /\ Inside(x, 2, 0, <<>>) /\ ~x.escape /\ s[e] = "backslash"
        BY <2>4, <2>5, <2>6, <2>8, <4>1
      <4>3. /\ Inside(Step(s, x, e), 2, 0, <<>>)
            /\ Step(s, x, e).inString = x.inString /\ Step(s, x, e).escape
        BY <4>2, StepInside
      <4> QED
        BY <2>6, <4>1, <4>3
    <3>2. escape[j]
      BY <1>7, <2>3, <2>8
    <3> QED
      BY <2>2, <2>3, <2>5, <3>1, <3>2
  <2>9. CASE ~escape[k] /\ c[j] # "backslash"
    <3>1. ~escape[j] /\ c[j] # "quote"
      BY <1>7, <2>3, <2>9
    <3>2. a[b + 1] = a[b]
      BY <2>4, <2>5, <2>6, <2>9, <3>1, StepInside
    <3> QED
      BY <2>2, <2>3, <2>5, <2>9, <3>1, <3>2
  <2> QED
    BY <2>7, <2>8, <2>9
<1>15. \A k \in 0 .. m : k + 4 <= n => InText(k)
  <2>1. Nat \subseteq S
    <3> HIDE DEF S
    <3> QED
      BY <1>13, <1>14, SetInduction
  <2> QED
    BY <1>2, <2>1
<1> HIDE DEF S
<1>16. m + 5 <= n => Inside(a[m + 5], 2, 0, <<>>) /\ ~a[m + 5].inString /\ ~a[m + 5].escape
  <2>1. SUFFICES ASSUME m + 5 <= n
                 PROVE  Inside(a[m + 5], 2, 0, <<>>) /\ ~a[m + 5].inString /\ ~a[m + 5].escape
    OBVIOUS
  <2>2. PICK b : b = m + 4
    OBVIOUS
  <2>3. b \in Nat /\ b + 1 <= n /\ b + 1 = m + 5 /\ b + 1 \in 1 .. m + 6 /\ m + 4 <= n
    BY <1>2, <1>3, <2>1, <2>2
  <2>4. Inside(a[b], 2, 0, <<>>) /\ a[b].inString /\ ~a[b].escape
    BY <1>2, <1>7, <1>15, <2>2, <2>3
  <2>5. s[b + 1] = "quote"
    BY <1>2, <1>3, <2>3
  <2>6. a[b] \in Knowledge /\ a[b + 1] = Step(s, a[b], b + 1) /\ b + 1 \in Nat
    BY <1>6, <2>3
  <2>7. Inside(a[b + 1], 2, 0, <<>>) /\ a[b + 1].inString = ~a[b].inString /\ ~a[b + 1].escape
    BY <2>4, <2>5, <2>6, StepInside
  <2> QED
    BY <2>3, <2>4, <2>7
<1>17. m + 6 <= n => Between(a[m + 6], m + 6, <<"LOBBY_STATE">>)
  <2>1. SUFFICES ASSUME m + 6 <= n PROVE Between(a[m + 6], m + 6, <<"LOBBY_STATE">>)
    OBVIOUS
  <2>2. PICK b : b = m + 5
    OBVIOUS
  <2>3. b \in Nat /\ b + 1 <= n /\ b + 1 = m + 6 /\ b + 1 \in 1 .. m + 6 /\ m + 5 <= n
    BY <1>2, <1>3, <2>1, <2>2
  <2>4. Inside(a[b], 2, 0, <<>>) /\ ~a[b].inString /\ ~a[b].escape
    BY <1>16, <2>2, <2>3
  <2>5. s[b + 1] = "rbrace"
    BY <1>2, <1>3, <2>3
  <2>6. a[b] \in Knowledge /\ a[b + 1] = Step(s, a[b], b + 1) /\ b + 1 \in Nat
    BY <1>6, <2>3
  <2>7. SubSeq(s, 2, b + 1) = StateObject(c)
    <3>1. PICK d, o, e : d = SubSeq(s, 2, e) /\ o = StateObject(c) /\ e = b + 1
      OBVIOUS
    <3>2. d \in Seq(T) /\ Len(d) = m + 5 /\ \A k \in 1 .. m + 5 : d[k] = s[k + 1]
      <4>1. e \in 1 .. n /\ 2 \in 1 .. e /\ e - 2 + 1 = m + 5 /\ m + 5 \in Nat /\ n = Len(s)
        BY <1>1, <1>2, <1>3, <2>2, <2>3, <3>1
      <4>2. d \in Seq(T) /\ Len(d) = e - 2 + 1
        <5>1. e \in Nat /\ e >= 2 /\ e <= Len(s)
          BY <4>1
        <5> QED
          BY <3>1, <5>1
      <4>3. ASSUME NEW k \in 1 .. m + 5 PROVE d[k] = s[k + 1]
        <5>1. k \in 1 .. e - 2 + 1 /\ e \in Nat /\ e <= Len(s)
          BY <4>1
        <5>2. d[k] = s[2 + k - 1]
          BY <3>1, <5>1
        <5>3. 2 + k - 1 = k + 1
          BY <1>2
        <5> QED
          BY <5>2, <5>3
      <4> QED
        BY <4>1, <4>2, <4>3
    <3>3. o \in Seq(Text) /\ Len(o) = m + 5
      BY <1>1, <3>1, StateTokens
    <3>4. ASSUME NEW k \in 1 .. m + 5 PROVE d[k] = o[k]
      <4>1. PICK j : j = k + 1
        OBVIOUS
      <4>2. j \in 1 .. m + 6 /\ j <= n
        BY <1>2, <1>3, <2>1, <4>1
      <4> QED
        BY <1>2, <1>3, <3>1, <3>2, <4>1, <4>2
    <3>5. d = [k \in 1 .. m + 5 |-> d[k]] /\ o = [k \in 1 .. m + 5 |-> o[k]]
      BY <3>2, <3>3
    <3> QED
      BY <3>1, <3>4, <3>5
  <2>8. TypeOf(StateObject(c)) = "LOBBY_STATE"
    <3>1. StateObject(c) \in StateObjects /\ StateObject(c) # Progress /\ StateObject(c) # Times
      BY ThreeTokens DEF StateObjects
    <3> QED
      BY <3>1 DEF TypeOf
  <2>9. Between(a[b + 1], b + 1, Append(<<>>, "LOBBY_STATE"))
    <3>1. "LOBBY_STATE" \in RaceTypes
      BY DEF RaceTypes
    <3> QED
      BY <2>4, <2>5, <2>6, <2>7, <2>8, <3>1, StepCloses, ZenonT(60)
  <2>10. Append(<<>>, "LOBBY_STATE") = <<"LOBBY_STATE">>
    OBVIOUS
  <2> QED
    BY <2>3, <2>9, <2>10
<1>18. n < m + 6 => a[n].end = 0 /\ a[n].types = <<>>
  <2>1. SUFFICES ASSUME n < m + 6 PROVE a[n].end = 0 /\ a[n].types = <<>>
    OBVIOUS
  <2>2. CASE n \in 0 .. 1
    <3>1. Between(a[n], 0, <<>>)
      BY <1>8, <1>9, <2>2
    <3> QED
      BY <3>1 DEF Between
  <2>3. CASE n \in 2 .. 3
    <3>1. Inside(a[n], 2, 0, <<>>)
      BY <1>10, <1>11, <2>3
    <3> QED
      BY <3>1 DEF Inside
  <2>4. CASE n \in 4 .. m + 4
    <3>1. PICK k : k = n - 4
      OBVIOUS
    <3>2. k \in 0 .. m /\ k + 4 = n /\ k + 4 <= n
      BY <1>2, <1>3, <2>4, <3>1
    <3>3. Inside(a[n], 2, 0, <<>>)
      BY <1>15, <3>2
    <3> QED
      BY <3>3 DEF Inside
  <2>5. CASE n = m + 5
    <3>1. Inside(a[n], 2, 0, <<>>)
      BY <1>2, <1>16, <2>5
    <3> QED
      BY <3>1 DEF Inside
  <2>6. n \in 0 .. 1 \/ n \in 2 .. 3 \/ n \in 4 .. m + 4 \/ n = m + 5
    BY <1>2, <1>3, <2>1
  <2> QED
    BY <2>2, <2>3, <2>4, <2>5, <2>6
<1> QED
  BY <1>1, <1>2, <1>3, <1>17, <1>18

-----------------------------------------------------------------------------
(* What the browser has got of the race. *)

\* The messages of the race in s.
RaceOf(s) == RelayedUpTo(s)[Len(s)]

\* How they are collected.
LEMMA RelayedRounds ==
    ASSUME NEW s \in Seq(BrowserTypes)
    PROVE  /\ RelayedUpTo(s) \in [0 .. Len(s) -> Seq(RaceTypes)]
           /\ RelayedUpTo(s)[0] = <<>>
           /\ \A k \in 1 .. Len(s) :
                 RelayedUpTo(s)[k] = IF s[k] \in RaceTypes THEN Append(RelayedUpTo(s)[k - 1], s[k])
                                     ELSE RelayedUpTo(s)[k - 1]
<1> DEFINE X == Seq(RaceTypes)
           Round(a, k) == IF s[k] \in RaceTypes THEN Append(a, s[k]) ELSE a
           step == [p \in X \X (1 .. Len(s)) |-> Round(p[1], p[2])]
           Eqn(g) == g = [k \in 0 .. Len(s) |-> IF k = 0 THEN <<>> ELSE Round(g[k - 1], k)]
<1>1. Len(s) \in Nat /\ <<>> \in X
  OBVIOUS
<1>2. ASSUME NEW a \in X, NEW k \in 1 .. Len(s) PROVE Round(a, k) \in X
  OBVIOUS
<1>3. step \in [X \X (1 .. Len(s)) -> X]
  <2> HIDE DEF X, Round
  <2> QED
    BY <1>2
<1>4. PICK f : Rounds(f, X, <<>>, Len(s), step)
  <2> HIDE DEF step, X
  <2> QED
    BY <1>1, <1>3, RoundsExist
<1>5. \A k \in 1 .. Len(s) : f[k] = Round(f[k - 1], k)
  <2> TAKE k \in 1 .. Len(s)
  <2>1. f[k] = step[<<f[k - 1], k>>] /\ f[k - 1] \in X
    <3>1. k - 1 \in 0 .. Len(s)
      BY <1>1
    <3> HIDE DEF step, X
    <3> QED
      BY <1>4, <3>1 DEF Rounds
  <2> HIDE DEF X, Round
  <2> QED
    BY <2>1
<1>6. f \in [0 .. Len(s) -> X] /\ f[0] = <<>>
  BY <1>4 DEF Rounds
<1>7. Eqn(f)
  <2> HIDE DEF X, Round
  <2> QED
    BY <1>5, <1>6
<1>8. RelayedUpTo(s) = CHOOSE g : Eqn(g)
  BY DEF RelayedUpTo
<1>9. Eqn(RelayedUpTo(s))
  <2> HIDE DEF Eqn
  <2> QED
    BY <1>7, <1>8
<1>10. PICK c : c = RelayedUpTo(s)
  OBVIOUS
<1>11. /\ c[0] = <<>> /\ \A k \in 1 .. Len(s) : c[k] = Round(c[k - 1], k)
       /\ c = [k \in 0 .. Len(s) |-> c[k]]
  <2> HIDE DEF X, Round
  <2> QED
    BY <1>1, <1>9, <1>10, SMTT(30)
<1>12. \A k \in 0 .. Len(s) : c[k] \in X
  <2>1. \A k \in 1 .. Len(s) : c[k - 1] \in X => c[k] \in X
    <3> HIDE DEF X, Round
    <3> QED
      BY <1>2, <1>11
  <2> HIDE DEF X, Round
  <2> QED
    BY <1>1, <1>11, <2>1, RoundsKeep
<1>13. c \in [0 .. Len(s) -> X]
  <2> HIDE DEF X, Round
  <2> QED
    BY <1>11, <1>12
<1> QED
  BY <1>10, <1>11, <1>13

\* A browser that has got nothing has got nothing of the race.
LEMMA RaceOfNothing == RaceOf(<<>>) = <<>>
<1>1. PICK s : s = <<>>
  OBVIOUS
<1>2. s \in Seq(BrowserTypes) /\ Len(s) = 0
  BY <1>1
<1>3. RelayedUpTo(s)[0] = <<>>
  BY <1>2, RelayedRounds
<1> QED
  BY <1>1, <1>2, <1>3 DEF RaceOf

\* One more message.
LEMMA RaceOfAppend ==
    ASSUME NEW s \in Seq(BrowserTypes), NEW x \in BrowserTypes
    PROVE  /\ RaceOf(s) \in Seq(RaceTypes)
           /\ RaceOf(Append(s, x)) = IF x \in RaceTypes THEN Append(RaceOf(s), x) ELSE RaceOf(s)
<1>1. PICK n, u, f, g : n = Len(s) /\ u = Append(s, x) /\ f = RelayedUpTo(s) /\ g = RelayedUpTo(u)
  OBVIOUS
<1>2. /\ n \in Nat /\ u \in Seq(BrowserTypes) /\ Len(u) = n + 1 /\ u[n + 1] = x
      /\ \A k \in 1 .. n : u[k] = s[k]
  BY <1>1
<1>3. /\ f \in [0 .. n -> Seq(RaceTypes)] /\ f[0] = <<>>
      /\ \A k \in 1 .. n : f[k] = IF s[k] \in RaceTypes THEN Append(f[k - 1], s[k]) ELSE f[k - 1]
  BY <1>1, RelayedRounds
<1>4. /\ g[0] = <<>>
      /\ \A k \in 1 .. n + 1 : g[k] = IF u[k] \in RaceTypes THEN Append(g[k - 1], u[k]) ELSE g[k - 1]
  BY <1>1, <1>2, RelayedRounds
<1> DEFINE S == {k \in Nat : k <= n => f[k] = g[k]}
<1>5. 0 \in S
  BY <1>3, <1>4
<1>6. ASSUME NEW k \in Nat, k \in S PROVE k + 1 \in S
  <2> SUFFICES ASSUME k + 1 <= n PROVE f[k + 1] = g[k + 1]
    OBVIOUS
  <2>1. PICK j : j = k + 1
    OBVIOUS
  <2>2. j \in 1 .. n /\ j \in 1 .. n + 1 /\ j - 1 = k /\ f[j - 1] = g[j - 1] /\ u[j] = s[j]
    BY <1>2, <1>6, <2>1
  <2> QED
    BY <1>3, <1>4, <2>1, <2>2
<1>7. Nat \subseteq S
  <2> HIDE DEF S
  <2> QED
    BY <1>5, <1>6, SetInduction
<1>8. f[n] = g[n]
  BY <1>2, <1>7
<1>9. g[n + 1] = IF x \in RaceTypes THEN Append(g[n], x) ELSE g[n]
  <2>1. PICK j : j = n + 1
    OBVIOUS
  <2>2. j \in 1 .. n + 1 /\ j - 1 = n /\ u[j] = x
    BY <1>2, <2>1
  <2> QED
    BY <1>4, <2>1, <2>2
<1> QED
  BY <1>1, <1>2, <1>3, <1>8, <1>9 DEF RaceOf

\* More messages of the race.
LEMMA RaceOfConcat ==
    ASSUME NEW s \in Seq(BrowserTypes), NEW t \in Seq(RaceTypes)
    PROVE  /\ s \o t \in Seq(BrowserTypes)
           /\ RaceOf(s \o t) = RaceOf(s) \o t
<1>1. PICK m, r, B : m = Len(t) /\ r = RaceOf(s) /\ B = BrowserTypes
  OBVIOUS
<1>2. m \in Nat /\ t \in Seq(B) /\ s \in Seq(B) /\ r \in Seq(RaceTypes) /\ RaceTypes \subseteq B
  <2>1. RaceTypes \subseteq BrowserTypes
    BY DEF BrowserTypes
  <2>2. t \in Seq(BrowserTypes)
    BY <2>1
  <2>3. RaceOf(s) \in Seq(RaceTypes)
    <3>1. "LOBBY_WAITING" \in BrowserTypes
      BY DEF BrowserTypes
    <3> QED
      BY <3>1, RaceOfAppend
  <2> QED
    BY <1>1, <2>1, <2>2, <2>3
<1> DEFINE S == {i \in Nat : i <= m => RaceOf(s \o SubSeq(t, 1, i)) = r \o SubSeq(t, 1, i)}
<1>3. 0 \in S
  <2>1. SubSeq(t, 1, 0) = <<>>
    BY <1>2
  <2>2. s \o <<>> = s /\ r \o <<>> = r
    BY <1>2, ConcatEmptySeq
  <2> QED
    BY <1>1, <2>1, <2>2
<1>4. ASSUME NEW i \in Nat, i \in S PROVE i + 1 \in S
  <2> SUFFICES ASSUME i + 1 <= m PROVE RaceOf(s \o SubSeq(t, 1, i + 1)) = r \o SubSeq(t, 1, i + 1)
    OBVIOUS
  <2>1. PICK u, v, x : u = s \o SubSeq(t, 1, i) /\ v = r \o SubSeq(t, 1, i) /\ x = t[i + 1]
    OBVIOUS
  <2>2. RaceOf(u) = v
    BY <1>2, <1>4, <2>1
  <2>3. Append(u, x) = s \o SubSeq(t, 1, i + 1) /\ u \in Seq(B)
    BY <1>1, <1>2, <2>1, GrowsByOne, ZenonT(60)
  <2>4. Append(v, x) = r \o SubSeq(t, 1, i + 1)
    BY <1>1, <1>2, <2>1, GrowsByOne
  <2>5. x \in RaceTypes /\ x \in B
    BY <1>1, <1>2, <2>1
  <2>6. RaceOf(Append(u, x)) = Append(v, x)
    BY <1>1, <2>2, <2>3, <2>5, RaceOfAppend
  <2> QED
    BY <2>3, <2>4, <2>6
<1>5. m \in S
  <2> HIDE DEF S
  <2> QED
    BY <1>2, <1>3, <1>4, SetInduction
<1>6. SubSeq(t, 1, m) = t
  BY <1>1, <1>2
<1>7. s \o t \in Seq(B)
  BY <1>2
<1>8. RaceOf(s \o SubSeq(t, 1, m)) = r \o SubSeq(t, 1, m)
  BY <1>2, <1>5
<1> HIDE DEF S
<1> QED
  BY <1>1, <1>6, <1>7, <1>8

-----------------------------------------------------------------------------
(* The stream of the engine. *)

\* The engine sends one more message.
LEMMA ListGrows ==
    ASSUME NEW T, NEW s \in Seq(T), NEW e \in Nat, NEW m \in Nat, NEW list \in Seq(RaceTypes),
           m <= Len(list), Follows(s, e, m, list), NEW type \in RaceTypes,
           NEW u \in Seq(T), Len(u) = Len(s) + 3, \A k \in 1 .. Len(s) : u[k] = s[k],
           u[Len(s) + 1] = "lbrace", u[Len(s) + 2] = KeyOf(type), u[Len(s) + 3] = "rbrace"
    PROVE  Follows(u, e, m, Append(list, type))
<1>1. PICK n, l, w, g : n = Len(s) /\ l = Len(list) - m /\ w = Append(list, type) /\ g = Len(list)
  OBVIOUS
<1>2. /\ n \in Nat /\ l \in Nat /\ n = e + 3 * l /\ Len(w) - m = l + 1 /\ g \in Nat /\ g = m + l
      /\ (\A i \in 1 .. g : w[i] = list[i]) /\ w[g + 1] = type
  <2>1. n \in Nat /\ g \in Nat /\ m <= g
    BY <1>1
  <2>2. l \in Nat /\ g = m + l
    BY <1>1, <2>1
  <2>3. n = e + 3 * l
    BY <1>1 DEF Follows
  <2>4. Len(w) = g + 1 /\ (\A i \in 1 .. g : w[i] = list[i]) /\ w[g + 1] = type
    BY <1>1
  <2> QED
    BY <2>1, <2>2, <2>3, <2>4, SMTT(30)
<1>3. Len(u) = e + 3 * (l + 1)
  BY <1>1, <1>2
<1>4. ASSUME NEW i \in 1 .. l + 1
      PROVE  /\ u[e + 3 * i - 2] = "lbrace" /\ u[e + 3 * i] = "rbrace"
             /\ u[e + 3 * i - 1] = KeyOf(w[m + i])
  <2>1. CASE i = l + 1
    <3>1. e + 3 * i - 2 = n + 1 /\ e + 3 * i - 1 = n + 2 /\ e + 3 * i = n + 3 /\ m + i = g + 1
      BY <1>2, <2>1, SMTT(30)
    <3> QED
      BY <1>1, <1>2, <3>1
  <2>2. CASE i # l + 1
    <3>1. PICK b, j : b = e + 3 * i /\ j = m + i
      OBVIOUS
    <3>2. /\ i \in 1 .. l /\ b \in 1 .. n /\ b - 1 \in 1 .. n /\ b - 2 \in 1 .. n
          /\ j \in 1 .. g
      <4>1. i \in Nat /\ i >= 1 /\ i <= l
        BY <1>2, <2>2
      <4>2. b \in Nat /\ b >= 3 /\ b <= n /\ j \in Nat
        BY <1>2, <3>1, <4>1
      <4>3. j >= 1 /\ j <= g
        BY <1>2, <3>1, <4>1
      <4> QED
        BY <1>2, <4>1, <4>2, <4>3
    <3>3. s[b - 2] = "lbrace" /\ s[b] = "rbrace" /\ s[b - 1] = KeyOf(list[j])
      BY <1>1, <3>1, <3>2, SMTT(30) DEF Follows
    <3>4. u[b - 2] = s[b - 2] /\ u[b - 1] = s[b - 1] /\ u[b] = s[b] /\ w[j] = list[j]
      BY <1>1, <1>2, <3>2
    <3> QED
      BY <3>1, <3>3, <3>4
  <2> QED
    BY <2>1, <2>2
<1> QED
  BY <1>1, <1>2, <1>3, <1>4 DEF Follows

\* q more messages of the list are relayed, and u is what s has behind the last of them.
Shrinks(s, e, m, list, q, u, d) ==
    /\ m + q <= Len(list) /\ Follows(s, e, m, list) /\ d = e + 3 * q
    /\ Len(u) = Len(s) - d /\ \A k \in 1 .. Len(u) : u[k] = s[d + k]

\* The session relays q more messages, and drops the bytes up to the end of the last.
LEMMA ListShrinks ==
    ASSUME NEW T, NEW s \in Seq(T), NEW e \in Nat, NEW m \in Nat, NEW list \in Seq(RaceTypes),
           NEW q \in Nat, NEW u \in Seq(T), NEW d \in Nat, Shrinks(s, e, m, list, q, u, d)
    PROVE  Follows(u, 0, m + q, list)
<1>0. /\ m + q <= Len(list) /\ Follows(s, e, m, list) /\ d = e + 3 * q
      /\ Len(u) = Len(s) - d /\ \A k \in 1 .. Len(u) : u[k] = s[d + k]
  BY DEF Shrinks
<1>1. PICK n, l, g : n = Len(s) /\ l = Len(list) - m /\ g = Len(list)
  OBVIOUS
<1>2. n \in Nat /\ l \in Nat /\ g \in Nat /\ n = e + 3 * l /\ l - q \in Nat /\ Len(u) \in Nat
      /\ Len(u) = 3 * (l - q) /\ g - (m + q) = l - q
  BY <1>0, <1>1 DEF Follows
<1>3. ASSUME NEW i \in 1 .. l - q
      PROVE  /\ u[3 * i - 2] = "lbrace" /\ u[3 * i] = "rbrace" /\ u[3 * i - 1] = KeyOf(list[m + q + i])
  <2>1. PICK j, b, c : j = q + i /\ b = e + 3 * j /\ c = 3 * i
    OBVIOUS
  <2>2. /\ j \in 1 .. l /\ d + c = b /\ d + (c - 1) = b - 1 /\ d + (c - 2) = b - 2 /\ m + j = m + q + i
        /\ c \in 1 .. Len(u) /\ c - 1 \in 1 .. Len(u) /\ c - 2 \in 1 .. Len(u)
    <3>1. i \in Nat /\ i >= 1 /\ i <= l - q /\ j \in Nat /\ b \in Nat /\ c \in Nat
      BY <1>2, <2>1
    <3>2. j >= 1 /\ j <= l /\ m + j = m + q + i
      BY <1>2, <2>1, <3>1
    <3>3. d + c = b
      BY <1>0, <2>1, <3>1
    <3>4. c >= 3 /\ c <= Len(u)
      BY <1>2, <2>1, <3>1
    <3> QED
      BY <1>2, <3>1, <3>2, <3>3, <3>4
  <2>3. s[b - 2] = "lbrace" /\ s[b] = "rbrace" /\ s[b - 1] = KeyOf(list[m + j])
    <3>1. \A x \in 1 .. l : /\ s[e + 3 * x - 2] = "lbrace" /\ s[e + 3 * x] = "rbrace"
                           /\ s[e + 3 * x - 1] = KeyOf(list[m + x])
      BY <1>0, <1>1 DEF Follows
    <3> QED
      BY <2>1, <2>2, <3>1
  <2>4. u[c - 2] = s[b - 2] /\ u[c - 1] = s[b - 1] /\ u[c] = s[b]
    BY <1>0, <2>2
  <2> QED
    BY <2>1, <2>2, <2>3, <2>4
<1>4. Len(u) = 0 + 3 * (Len(list) - (m + q))
  BY <1>1, <1>2
<1>5. ASSUME NEW i \in 1 .. Len(list) - (m + q)
      PROVE  /\ u[0 + 3 * i - 2] = "lbrace" /\ u[0 + 3 * i] = "rbrace"
             /\ u[0 + 3 * i - 1] = KeyOf(list[(m + q) + i])
  <2>1. i \in 1 .. l - q /\ 0 + 3 * i - 2 = 3 * i - 2 /\ 0 + 3 * i = 3 * i /\ 0 + 3 * i - 1 = 3 * i - 1
        /\ (m + q) + i = m + q + i
    BY <1>1, <1>2
  <2> QED
    BY <1>3, <2>1
<1> QED
  BY <1>4, <1>5 DEF Follows

\* What is left of s behind e.
LEMMA Dropped ==
    ASSUME NEW T, NEW s \in Seq(T), NEW e \in Nat, e <= Len(s)
    PROVE  /\ SubSeq(s, e + 1, Len(s)) \in Seq(T)
           /\ Len(SubSeq(s, e + 1, Len(s))) = Len(s) - e
           /\ \A k \in 1 .. Len(s) - e : SubSeq(s, e + 1, Len(s))[k] = s[e + k]
<1>1. PICK f, b, u : f = e + 1 /\ b = Len(s) /\ u = SubSeq(s, f, b)
  OBVIOUS
<1>2. b \in Nat /\ f \in 1 .. b + 1 /\ b - f + 1 = b - e
  BY <1>1
<1>3. u \in Seq(T) /\ Len(u) = b - f + 1 /\ \A k \in 1 .. b - f + 1 : u[k] = s[f + k - 1]
  BY <1>1, <1>2
<1>4. \A k \in 1 .. b - e : f + k - 1 = e + k
  BY <1>1, <1>2
<1> QED
  BY <1>1, <1>2, <1>3, <1>4

\* Of the stream str a piece of n tokens moves to the buffer raw, and the first e tokens of
\* the buffer are dropped.
Moves(raw, str, n, e, whole, buffer, kept, ahead, u) ==
    /\ whole = raw \o str
    /\ buffer = raw \o SubSeq(str, 1, n)
    /\ kept = Rest(buffer, e)
    /\ ahead = SubSeq(str, n + 1, Len(str))
    /\ u = kept \o ahead

\* What is behind the dropped ones stays in its order.
LEMMA PieceMoves ==
    ASSUME NEW T, NEW raw \in Seq(T), NEW str \in Seq(T), NEW n \in 1 .. Len(str),
           NEW e \in Nat, e <= Len(raw) + n,
           NEW whole, NEW buffer, NEW kept, NEW ahead, NEW u,
           Moves(raw, str, n, e, whole, buffer, kept, ahead, u)
    PROVE  /\ whole \in Seq(T) /\ buffer \in Seq(T) /\ kept \in Seq(T) /\ ahead \in Seq(T) /\ u \in Seq(T)
           /\ Len(buffer) \in Nat /\ Len(whole) \in Nat
           /\ Len(buffer) = Len(raw) + n /\ Len(buffer) <= Len(whole)
           /\ \A k \in 1 .. Len(buffer) : buffer[k] = whole[k]
           /\ Len(kept) = Len(buffer) - e /\ Len(u) = Len(whole) - e
           /\ \A k \in 1 .. Len(u) : u[k] = whole[e + k]
<1>1. PICK r, l, a, b, c, d : /\ r = Len(raw) /\ l = Len(str) /\ a = SubSeq(str, 1, n)
                              /\ b = r + n /\ c = b - e /\ d = l - n
  OBVIOUS
<1>2. /\ r \in Nat /\ l \in Nat /\ n \in Nat /\ b \in Nat /\ c \in Nat /\ d \in Nat
      /\ n <= l /\ e <= b /\ b = r + n /\ c = b - e /\ d = l - n
  BY <1>1
<1>3. a \in Seq(T) /\ Len(a) = n /\ \A k \in 1 .. n : a[k] = str[k]
  BY <1>1, <1>2
<1>4. ahead \in Seq(T) /\ Len(ahead) = d /\ \A k \in 1 .. d : ahead[k] = str[n + k]
  <2>1. n <= Len(str) /\ n \in Nat
    BY <1>1, <1>2
  <2>2. /\ SubSeq(str, n + 1, Len(str)) \in Seq(T)
        /\ Len(SubSeq(str, n + 1, Len(str))) = Len(str) - n
        /\ \A k \in 1 .. Len(str) - n : SubSeq(str, n + 1, Len(str))[k] = str[n + k]
    BY <2>1, Dropped, Zenon
  <2>3. ahead = SubSeq(str, n + 1, Len(str))
    BY DEF Moves
  <2> QED
    BY <1>1, <2>2, <2>3, Zenon
<1>5. /\ whole \in Seq(T) /\ Len(whole) = r + l
      /\ \A k \in 1 .. r + l : whole[k] = IF k <= r THEN raw[k] ELSE str[k - r]
  <2>1. /\ raw \o str \in Seq(T) /\ Len(raw \o str) = r + l
        /\ \A k \in 1 .. r + l : (raw \o str)[k] = IF k <= r THEN raw[k] ELSE str[k - r]
    <3>1. raw \in Seq(T) /\ str \in Seq(T) /\ Len(raw) = r /\ Len(str) = l
      BY <1>1
    <3>2. /\ raw \o str \in Seq(T) /\ Len(raw \o str) = Len(raw) + Len(str)
          /\ \A k \in 1 .. Len(raw) + Len(str) :
                (raw \o str)[k] = IF k <= Len(raw) THEN raw[k] ELSE str[k - Len(raw)]
      BY <3>1, ConcatProperties, Zenon
    <3> QED
      BY <3>1, <3>2, Zenon
  <2> QED
    BY <2>1, Zenon DEF Moves
<1>6. /\ buffer \in Seq(T) /\ Len(buffer) = b
      /\ \A k \in 1 .. b : buffer[k] = IF k <= r THEN raw[k] ELSE a[k - r]
  <2>1. /\ raw \o a \in Seq(T) /\ Len(raw \o a) = r + n
        /\ \A k \in 1 .. r + n : (raw \o a)[k] = IF k <= r THEN raw[k] ELSE a[k - r]
    <3>1. raw \in Seq(T) /\ a \in Seq(T) /\ Len(raw) = r /\ Len(a) = n
      BY <1>1, <1>2, <1>3
    <3>2. /\ raw \o a \in Seq(T) /\ Len(raw \o a) = Len(raw) + Len(a)
          /\ \A k \in 1 .. Len(raw) + Len(a) :
                (raw \o a)[k] = IF k <= Len(raw) THEN raw[k] ELSE a[k - Len(raw)]
      BY <3>1, ConcatProperties, Zenon
    <3> QED
      BY <3>1, <3>2, Zenon
  <2>2. buffer = raw \o a /\ r + n = b
    BY <1>1, <1>2, Zenon DEF Moves
  <2> QED
    BY <2>1, <2>2, Zenon
<1>7. /\ kept \in Seq(T) /\ Len(kept) = c
      /\ \A k \in 1 .. c : kept[k] = buffer[e + k]
  <2>1. e <= Len(buffer)
    BY <1>2, <1>6
  <2>2. /\ SubSeq(buffer, e + 1, Len(buffer)) \in Seq(T)
        /\ Len(SubSeq(buffer, e + 1, Len(buffer))) = Len(buffer) - e
        /\ \A k \in 1 .. Len(buffer) - e : SubSeq(buffer, e + 1, Len(buffer))[k] = buffer[e + k]
    BY <1>6, <2>1, Dropped, Zenon
  <2>3. kept = SubSeq(buffer, e + 1, Len(buffer)) /\ Len(buffer) - e = c
    <3>1. kept = SubSeq(buffer, e + 1, Len(buffer))
      BY DEF Moves, Rest
    <3> QED
      BY <1>2, <1>6, <3>1
  <2> QED
    BY <2>2, <2>3, Zenon
<1>8. /\ u \in Seq(T) /\ Len(u) = c + d
      /\ \A k \in 1 .. c + d : u[k] = IF k <= c THEN kept[k] ELSE ahead[k - c]
  <2>1. /\ kept \o ahead \in Seq(T) /\ Len(kept \o ahead) = c + d
        /\ \A k \in 1 .. c + d : (kept \o ahead)[k] = IF k <= c THEN kept[k] ELSE ahead[k - c]
    <3>1. kept \in Seq(T) /\ ahead \in Seq(T) /\ c \in Nat /\ d \in Nat /\ Len(kept) = c /\ Len(ahead) = d
      BY <1>2, <1>4, <1>7
    <3>2. /\ kept \o ahead \in Seq(T) /\ Len(kept \o ahead) = Len(kept) + Len(ahead)
          /\ \A k \in 1 .. Len(kept) + Len(ahead) :
                (kept \o ahead)[k] = IF k <= Len(kept) THEN kept[k] ELSE ahead[k - Len(kept)]
      BY <3>1, ConcatProperties, Zenon
    <3> QED
      BY <3>1, <3>2, Zenon
  <2> QED
    BY <2>1, Zenon DEF Moves
<1>9. c + d = r + l - e /\ b <= r + l /\ r + l \in Nat
  BY <1>2
<1>10. ASSUME NEW k \in 1 .. b PROVE buffer[k] = whole[k]
  <2>1. k \in 1 .. r + l
    BY <1>2
  <2>2. CASE k <= r
    BY <1>5, <1>6, <2>1, <2>2
  <2>3. CASE ~(k <= r)
    <3>1. PICK j : j = k - r
      OBVIOUS
    <3>2. j \in 1 .. n
      BY <1>2, <2>3, <3>1
    <3>3. a[j] = str[j]
      BY <1>3, <3>2
    <3>4. buffer[k] = a[j] /\ whole[k] = str[j]
      BY <1>5, <1>6, <2>1, <2>3, <3>1
    <3> QED
      BY <3>3, <3>4
  <2> QED
    BY <2>2, <2>3
<1>11. ASSUME NEW k \in 1 .. c + d PROVE u[k] = whole[e + k]
  <2>1. CASE k <= c
    <3>1. PICK j : j = e + k
      OBVIOUS
    <3>2. k \in 1 .. c /\ j \in 1 .. b
      BY <1>2, <2>1, <3>1
    <3>3. u[k] = kept[k] /\ kept[k] = buffer[j]
      BY <1>7, <1>8, <2>1, <3>1, <3>2
    <3> QED
      BY <1>10, <3>1, <3>2, <3>3
  <2>2. CASE ~(k <= c)
    <3>1. PICK i, j : i = k - c /\ j = e + k
      OBVIOUS
    <3>2. i \in 1 .. d /\ n + i = j - r /\ j \in 1 .. r + l /\ ~(j <= r)
      BY <1>2, <2>2, <3>1
    <3>3. u[k] = ahead[i] /\ ahead[i] = str[n + i]
      BY <1>4, <1>8, <2>2, <3>1, <3>2
    <3>4. whole[j] = str[j - r]
      BY <1>5, <3>2
    <3> QED
      BY <3>1, <3>2, <3>3, <3>4
  <2> QED
    BY <2>1, <2>2
<1>12. Len(buffer) \in Nat /\ Len(whole) \in Nat /\ Len(buffer) = Len(raw) + n /\ Len(buffer) <= Len(whole)
  BY <1>1, <1>2, <1>5, <1>6, <1>9
<1>13. Len(kept) = Len(buffer) - e /\ Len(u) = Len(whole) - e
  BY <1>2, <1>5, <1>6, <1>7, <1>8, <1>9
<1>14. \A k \in 1 .. Len(buffer) : buffer[k] = whole[k]
  BY <1>6, <1>10
<1>15. \A k \in 1 .. Len(u) : u[k] = whole[e + k]
  BY <1>8, <1>11
<1> QED
  BY <1>4, <1>5, <1>6, <1>7, <1>8, <1>12, <1>13, <1>14, <1>15

-----------------------------------------------------------------------------
(* Types. *)

\* A sequence is one of what stands in it.
LEMMA OfItsTokens ==
    ASSUME NEW S, NEW o \in Seq(S), NEW T, \A i \in 1 .. Len(o) : o[i] \in T
    PROVE  o \in Seq(T)
<1>1. o = [i \in 1 .. Len(o) |-> o[i]] /\ Len(o) \in Nat
  OBVIOUS
<1> QED
  BY <1>1

\* Everything the engine sends is made of Tokens.
LEMMA EngineTokens ==
    /\ \A type \in RaceTypes : ObjectOf(type) \in Seq(Tokens)
    /\ \A c \in Contents : FirstOf(c) \in Seq(Tokens)
    /\ \A r \in Rejections : r \in Tokens
    /\ "LF" \in Tokens
<1> DEFINE A == UNION {Range(o) : o \in Objects}
<1>0. Tokens = A \cup Rejections \cup {"LEN", "LF"}
  BY DEF Tokens, A
<1>1. ASSUME NEW o \in Objects, NEW i \in DOMAIN o PROVE o[i] \in Tokens
  <2>1. o[i] \in Range(o)
    BY DEF Range
  <2>2. Range(o) \in {Range(x) : x \in Objects}
    OBVIOUS
  <2>3. o[i] \in UNION {Range(x) : x \in Objects}
    BY <2>1, <2>2, Zenon
  <2> QED
    BY <2>3, Zenon DEF Tokens
<1>2. Progress \in Seq(Tokens) /\ Times \in Seq(Tokens)
  <2>1. Progress \in Objects /\ Times \in Objects
    BY DEF Objects
  <2>2. /\ DOMAIN Progress = 1 .. 3 /\ Progress = <<Progress[1], Progress[2], Progress[3]>>
        /\ DOMAIN Times = 1 .. 3 /\ Times = <<Times[1], Times[2], Times[3]>>
    BY DEF Progress, Times
  <2>3. \A i \in 1 .. 3 : Progress[i] \in Tokens /\ Times[i] \in Tokens
    BY <1>1, <2>1, <2>2
  <2>4. PICK S : S = {"lbrace", "progress", "times", "rbrace"}
    OBVIOUS
  <2>5. Progress \in Seq(S) /\ Len(Progress) = 3 /\ Times \in Seq(S) /\ Len(Times) = 3
    BY <2>4 DEF Progress, Times
  <2> QED
    BY <2>3, <2>5, OfItsTokens
<1>3. \A type \in RaceTypes : ObjectOf(type) \in Seq(Tokens)
  <2>1. ASSUME NEW type \in RaceTypes PROVE ObjectOf(type) \in {Progress, Times}
    BY DEF ObjectOf, KeyOf, Progress, Times
  <2> QED
    BY <1>2, <2>1
<1>4. ASSUME NEW c \in Contents PROVE FirstOf(c) \in Seq(Tokens)
  <2>1. PICK f, o, S : f = FirstOf(c) /\ o = StateObject(c) /\ S = Text \cup {"LEN"}
    OBVIOUS
  <2>2. /\ f \in Seq(S) /\ Len(c) \in Nat /\ Len(f) = Len(c) + 6 /\ f[1] = "LEN"
        /\ \A k \in 1 .. Len(c) + 5 : f[k + 1] = o[k]
    BY <2>1, FirstTokens
  <2>3. o \in Seq(Text) /\ Len(o) = Len(c) + 5
    BY <2>1, StateTokens
  <2>4. o \in Objects
    BY <2>1 DEF Objects, StateObjects
  <2>5. ASSUME NEW i \in 1 .. Len(f) PROVE f[i] \in Tokens
    <3>1. CASE i = 1
      <4>1. "LEN" \in Tokens
        BY <1>0
      <4> QED
        BY <2>2, <3>1, <4>1
    <3>2. CASE i # 1
      <4>1. PICK k : k = i - 1
        OBVIOUS
      <4>2. k \in 1 .. Len(c) + 5 /\ k + 1 = i /\ k \in DOMAIN o
        BY <2>2, <2>3, <3>2, <4>1
      <4> QED
        BY <1>1, <2>2, <2>4, <4>2
    <3> QED
      BY <3>1, <3>2
  <2> QED
    BY <2>1, <2>2, <2>5, OfItsTokens
<1>5. (\A r \in Rejections : r \in Tokens) /\ "LF" \in Tokens
  BY <1>0
<1> QED
  BY <1>3, <1>4, <1>5

\* What the loops find is of the types of the race, and ends inside of the buffer.
LEMMA ScanTypes ==
    ASSUME NEW T, NEW s \in Seq(T)
    PROVE  Scan(s)[Len(s)].types \in Seq(RaceTypes) /\ Scan(s)[Len(s)].end \in Nat
<1>1. PICK a, n : a = Scan(s) /\ n = Len(s)
  OBVIOUS
<1>2. n \in Nat /\ a \in [0 .. n -> Knowledge]
  BY <1>1, ScanRounds
<1>3. a[n] \in Knowledge
  BY <1>2
<1> QED
  BY <1>1, <1>3 DEF Knowledge

\* A piece is no longer than the stream, and not empty.
LEMMA PieceLength ==
    ASSUME TypeOK, stream # <<>>, NEW n \in 1 .. Min({ChunkMax, Len(stream)})
    PROVE  /\ n \in 1 .. Len(stream)
           /\ rawBuffer \o SubSeq(stream, 1, n) \in Seq(Tokens)
           /\ SubSeq(stream, n + 1, Len(stream)) \in Seq(Tokens)
<1>1. rawBuffer \in Seq(Tokens) /\ stream \in Seq(Tokens)
  BY DEF TypeOK
<1>2. ChunkMax \in Nat /\ Len(stream) \in Nat
  BY <1>1, SessionAssumption
<1>3. Min({ChunkMax, Len(stream)}) \in {ChunkMax, Len(stream)}
      /\ Min({ChunkMax, Len(stream)}) <= Len(stream)
  <2>1. PICK S : S = {ChunkMax, Len(stream)}
    OBVIOUS
  <2>2. \E x \in S : \A y \in S : x <= y
    BY <1>2, <2>1
  <2>3. Min(S) \in S /\ \A y \in S : Min(S) <= y
    BY <2>2, Zenon DEF Min
  <2> QED
    BY <2>1, <2>3
<1>4. n \in 1 .. Len(stream)
  BY <1>2, <1>3
<1>5. SubSeq(stream, 1, n) \in Seq(Tokens)
  <2>1. n \in Nat /\ n <= Len(stream)
    BY <1>2, <1>4
  <2> QED
    BY <1>1, <2>1
<1>6. rawBuffer \o SubSeq(stream, 1, n) \in Seq(Tokens)
  BY <1>1, <1>5
<1>7. SubSeq(stream, n + 1, Len(stream)) \in Seq(Tokens)
  BY <1>1, <1>4
<1> QED
  BY <1>4, <1>6, <1>7

\* The initial state.
LEMMA InitTypes == Init => TypeOK
<1> SUFFICES ASSUME Init PROVE TypeOK
  OBVIOUS
<1>1. /\ toBrowser \in Seq(BrowserTypes) /\ stream \in Seq(Tokens) /\ rawBuffer \in Seq(Tokens)
      /\ engineSent \in Seq(RaceTypes)
  BY DEF Init
<1>2. pending \in Seq({"3", "2"}) /\ toEngine \in Seq({"3", "2", "JOIN"})
  BY DEF Init
<1>3. messages \in 0 .. Messages /\ Len(pending) + Len(toEngine) <= messages + (IF tcp = "connecting" THEN 0 ELSE 1)
  BY SessionAssumption DEF Init
<1> QED
  BY <1>1, <1>2, <1>3 DEF Init, TypeOK

\* What a step of the engine adds to the stream.
LEMMA EmitsTypes ==
    ASSUME TypeOK, NEW t \in Seq(Tokens), Emits(t)
    PROVE  stream' \in Seq(Tokens)
<1>1. stream \in Seq(Tokens)
  BY DEF TypeOK
<1>2. stream \o t \in Seq(Tokens)
  BY <1>1
<1> QED
  BY <1>1, <1>2 DEF Emits

\* What is sent to the browser.
LEMMA SendTypes ==
    ASSUME TypeOK, NEW t \in Seq(BrowserTypes), Send(t)
    PROVE  toBrowser' \in Seq(BrowserTypes)
<1>1. toBrowser \in Seq(BrowserTypes)
  BY DEF TypeOK
<1>2. toBrowser \o t \in Seq(BrowserTypes)
  BY <1>1
<1> QED
  BY <1>1, <1>2 DEF Send, SentTo

\* A timeout that is started anew is one.
LEMMA RestartedType == Restarted \in {"off", "set", "due"}
BY DEF Restarted

\* Every step keeps the types: what the browser is sent, what waits for the engine, and no
\* more of it than the browser's messages and the JOIN.
LEMMA NextTypes ==
    ASSUME TypeOK, [Next]_vars
    PROVE  TypeOK'
<1> USE SessionAssumption
<1>1. ASSUME NEW x \in BrowserTypes PROVE <<x>> \in Seq(BrowserTypes)
  OBVIOUS
<1>2. /\ "LOBBY_WAITING" \in BrowserTypes /\ "PLAYER_FINISHED_ACK" \in BrowserTypes
      /\ "timeout" \in BrowserTypes /\ "rejected" \in BrowserTypes /\ "unreachable" \in BrowserTypes
      /\ RaceTypes \subseteq BrowserTypes
  BY DEF BrowserTypes, Errors
<1>3. CASE Connected
  <2>1. toBrowser' \in Seq(BrowserTypes)
    BY <1>1, <1>2, <1>3, SendTypes DEF Connected
  <2>2. toEngine' \in Seq({"3", "2", "JOIN"}) /\ Len(toEngine') = Len(pending) + 1
    <3>1. pending \in Seq({"3", "2"}) /\ toEngine' = Append(pending, "JOIN")
      BY <1>3 DEF Connected, TypeOK
    <3>2. PICK S : S = {"3", "2", "JOIN"}
      OBVIOUS
    <3>3. pending \in Seq(S) /\ "JOIN" \in S
      <4>1. \A i \in 1 .. Len(pending) : pending[i] \in S
        BY <3>1, <3>2
      <4> QED
        BY <3>1, <3>2, <4>1, OfItsTokens
    <3> QED
      BY <3>1, <3>2, <3>3
  <2>3. /\ pending' = <<>> /\ Len(pending') = 0 /\ pending' \in Seq({"3", "2"})
        /\ Len(pending) \in Nat /\ Len(toEngine) \in Nat
    BY <1>3 DEF Connected, TypeOK
  <2>4. Len(pending') + Len(toEngine') <= messages' + (IF tcp' = "connecting" THEN 0 ELSE 1)
    BY <1>3, <2>2, <2>3 DEF Connected, TypeOK
  <2> QED
    BY <1>3, <2>1, <2>2, <2>3, <2>4, RestartedType DEF Connected, TypeOK, reader, far
<1>4. ASSUME Destroy, UNCHANGED <<toEngine, messages>>
      PROVE  /\ tcp' = "destroyed" /\ timer' \in {"off", "set", "due"}
             /\ stream' \in Seq(Tokens) /\ pending' \in Seq({"3", "2"})
             /\ Len(pending') + Len(toEngine') <= messages' + (IF tcp' = "connecting" THEN 0 ELSE 1)
  <2>1. tcp' = "destroyed" /\ timer' = "off" /\ stream' = <<>> /\ pending' = <<>>
    BY <1>4 DEF Destroy
  <2>2. stream' \in Seq(Tokens) /\ pending' \in Seq({"3", "2"}) /\ Len(pending') = 0
    BY <2>1
  <2>3. Len(pending) \in Nat /\ Len(toEngine) \in Nat /\ messages \in Nat
    BY DEF TypeOK
  <2>4. Len(pending) + Len(toEngine) <= messages + 1
    BY <2>3 DEF TypeOK
  <2>5. Len(pending') + Len(toEngine') <= messages' + 1
    BY <1>4, <2>2, <2>3, <2>4
  <2>6. (IF tcp' = "connecting" THEN 0 ELSE 1) = 1
    BY <2>1
  <2>7. Len(pending') + Len(toEngine') <= messages' + (IF tcp' = "connecting" THEN 0 ELSE 1)
    BY <2>5, <2>6, Zenon
  <2>8. timer' \in {"off", "set", "due"}
    BY <2>1
  <2> QED
    BY <2>1, <2>2, <2>7, <2>8
<1>5. ASSUME Close PROVE ws' \in {"open", "closing", "closed"}
  BY <1>5 DEF Close, TypeOK
<1>6. CASE Timeout
  <2>1. CASE hasStarted
    BY <1>6, <2>1 DEF Timeout, TypeOK, browser, link, reader, far
  <2>2. CASE ~hasStarted
    <3>1. toBrowser' \in Seq(BrowserTypes)
      BY <1>1, <1>2, <1>6, <2>2, SendTypes DEF Timeout
    <3>2. Destroy /\ Close /\ heartbeat' = FALSE /\ UNCHANGED <<toEngine, reader, far, messages>>
      BY <1>6, <2>2 DEF Timeout
    <3> QED
      BY <1>4, <1>5, <3>1, <3>2 DEF TypeOK, reader, far
  <2> QED
    BY <2>1, <2>2
<1>7. CASE Data
  <2>1. PICK n \in 1 .. Min({ChunkMax, Len(stream)}) :
          LET buffer == rawBuffer \o SubSeq(stream, 1, n)
              found == Scan(buffer)[Len(buffer)]
          IN  \/ /\ Rejected(buffer)
                 /\ Send(<<"rejected">>) /\ Close /\ Destroy
                 /\ rawBuffer' = buffer /\ UNCHANGED hasStarted
              \/ /\ ~Rejected(buffer)
                 /\ stream' = SubSeq(stream, n + 1, Len(stream))
                 /\ rawBuffer' = Rest(buffer, found.end)
                 /\ Send(found.types)
                 /\ hasStarted' = (hasStarted \/ found.types # <<>>)
                 /\ TimeoutEnds(found.types)
                 /\ UNCHANGED <<ws, link>>
    BY <1>7 DEF Data
  <2>2. PICK buffer, found : buffer = rawBuffer \o SubSeq(stream, 1, n) /\ found = Scan(buffer)[Len(buffer)]
    OBVIOUS
  <2>3. UNCHANGED <<toEngine, heartbeat, far, messages>>
    BY <1>7 DEF Data
  <2>4. buffer \in Seq(Tokens) /\ SubSeq(stream, n + 1, Len(stream)) \in Seq(Tokens)
    <3>1. stream # <<>>
      BY <1>7 DEF Data
    <3> QED
      BY <2>2, <3>1, PieceLength
  <2>5. CASE Rejected(buffer)
    <3>1. Send(<<"rejected">>) /\ Close /\ Destroy /\ rawBuffer' = buffer /\ UNCHANGED hasStarted
      BY <2>1, <2>2, <2>5
    <3>2. toBrowser' \in Seq(BrowserTypes)
      BY <1>1, <1>2, <3>1, SendTypes
    <3> QED
      BY <1>4, <1>5, <2>3, <2>4, <3>1, <3>2 DEF TypeOK, far
  <2>6. CASE ~Rejected(buffer)
    <3>1. /\ stream' = SubSeq(stream, n + 1, Len(stream)) /\ rawBuffer' = Rest(buffer, found.end)
          /\ Send(found.types) /\ hasStarted' = (hasStarted \/ found.types # <<>>)
          /\ TimeoutEnds(found.types) /\ UNCHANGED <<ws, link>>
      BY <2>1, <2>2, <2>6
    <3>2. found.types \in Seq(RaceTypes) /\ found.end \in Nat
      BY <2>2, <2>4, ScanTypes
    <3>3. toBrowser' \in Seq(BrowserTypes)
      <4>1. found.types \in Seq(BrowserTypes)
        BY <1>2, <3>2
      <4> QED
        BY <3>1, <4>1, SendTypes
    <3>4. stream' \in Seq(Tokens)
      BY <2>4, <3>1
    <3>5. rawBuffer' \in Seq(Tokens)
      BY <2>4, <3>1, <3>2 DEF Rest
    <3>6. hasStarted' \in BOOLEAN
      BY <3>1
    <3>7. timer' \in {"off", "set", "due"}
      BY <3>1, RestartedType DEF TimeoutEnds
    <3> QED
      BY <2>3, <3>1, <3>3, <3>4, <3>5, <3>6, <3>7 DEF TypeOK, far, link
  <2> QED
    BY <2>5, <2>6
<1>8. CASE TcpError
  <2>1. toBrowser' \in Seq(BrowserTypes)
    BY <1>1, <1>2, <1>8, SendTypes DEF TcpError
  <2>2. Destroy /\ Close /\ heartbeat' = FALSE /\ UNCHANGED <<toEngine, reader, far, messages>>
    BY <1>8 DEF TcpError
  <2> QED
    BY <1>4, <1>5, <2>1, <2>2 DEF TypeOK, reader, far
<1>9. CASE TcpEnd
  <2>1. Destroy /\ Close /\ heartbeat' = FALSE /\ UNCHANGED <<toBrowser, toEngine, reader, far, messages>>
    BY <1>9 DEF TcpEnd
  <2> QED
    BY <1>4, <1>5, <2>1 DEF TypeOK, reader, far
<1>10. CASE WsClose
  <2>1. /\ ws' = "closed" /\ Destroy /\ heartbeat' = FALSE
        /\ UNCHANGED <<toBrowser, toEngine, reader, far, messages>>
    BY <1>10 DEF WsClose, Hangup
  <2> QED
    BY <1>4, <2>1 DEF TypeOK, reader, far
<1>11. CASE Heartbeat
  BY <1>11 DEF Heartbeat, TypeOK, browser, link, reader, far
<1>12. ASSUME NEW byte \in {"3", "2"}, Write(<<byte>>), tcp' = tcp, messages < Messages, messages' = messages + 1
       PROVE  /\ pending' \in Seq({"3", "2"}) /\ toEngine' \in Seq({"3", "2", "JOIN"})
              /\ timer' \in {"off", "set", "due"}
              /\ Len(pending') + Len(toEngine') <= messages' + (IF tcp' = "connecting" THEN 0 ELSE 1)
  <2>1. PICK P, Q : P = {"3", "2"} /\ Q = {"3", "2", "JOIN"}
    OBVIOUS
  <2>2. /\ pending \in Seq(P) /\ toEngine \in Seq(Q) /\ byte \in P /\ byte \in Q /\ messages \in Nat
        /\ Len(pending) \in Nat /\ Len(toEngine) \in Nat
    BY <2>1 DEF TypeOK
  <2>3. PICK one : one = IF tcp = "connecting" THEN 0 ELSE 1
    OBVIOUS
  <2>4. one \in Nat /\ Len(pending) + Len(toEngine) <= messages + one
    BY <2>3 DEF TypeOK
  <2>5. timer' \in {"off", "set", "due"}
    BY <1>12, RestartedType DEF Write, TypeOK
  <2>6. CASE tcp = "connecting"
    <3>1. pending' = pending \o <<byte>> /\ toEngine' = toEngine
      BY <1>12, <2>6 DEF Write
    <3>2. pending' \in Seq(P) /\ Len(pending') = Len(pending) + 1
      BY <2>2, <3>1
    <3>3. Len(pending') + Len(toEngine') <= messages' + one
      BY <1>12, <2>2, <2>4, <3>1, <3>2
    <3> QED
      BY <1>12, <2>1, <2>2, <2>3, <2>5, <3>1, <3>2, <3>3
  <2>7. CASE tcp = "open"
    <3>1. pending' = pending /\ toEngine' = toEngine \o <<byte>>
      BY <1>12, <2>7 DEF Write
    <3>2. toEngine' \in Seq(Q) /\ Len(toEngine') = Len(toEngine) + 1
      BY <2>2, <3>1
    <3>3. Len(pending') + Len(toEngine') <= messages' + one
      BY <1>12, <2>2, <2>4, <3>1, <3>2
    <3> QED
      BY <1>12, <2>1, <2>2, <2>3, <2>5, <3>1, <3>2, <3>3
  <2>8. CASE tcp \notin {"connecting", "open"}
    <3>1. pending' = pending /\ toEngine' = toEngine
      BY <1>12, <2>8 DEF Write
    <3>2. Len(pending') + Len(toEngine') <= messages' + one
      BY <1>12, <2>2, <2>4, <3>1
    <3> QED
      BY <1>12, <2>1, <2>2, <2>3, <2>5, <3>1, <3>2
  <2> QED
    BY <2>6, <2>7, <2>8
<1>13. CASE Message
  <2>1. messages < Messages /\ messages' = messages + 1 /\ UNCHANGED <<ws, tcp, stream, reader, heartbeat, far>>
    BY <1>13 DEF Message
  <2>2. messages' \in 0 .. Messages
    BY <2>1 DEF TypeOK
  <2>3. tcp' = tcp
    BY <2>1
  <2>4. /\ toBrowser' \in Seq(BrowserTypes) /\ pending' \in Seq({"3", "2"}) /\ toEngine' \in Seq({"3", "2", "JOIN"})
        /\ timer' \in {"off", "set", "due"}
        /\ Len(pending') + Len(toEngine') <= messages' + (IF tcp' = "connecting" THEN 0 ELSE 1)
    <3>1. CASE Write(<<"3">>) /\ UNCHANGED toBrowser
      <4>1. toBrowser' \in Seq(BrowserTypes)
        BY <3>1 DEF TypeOK
      <4> QED
        BY <1>12, <2>1, <2>3, <3>1, <4>1
    <3>2. CASE Write(<<"2">>) /\ Send(<<"PLAYER_FINISHED_ACK">>)
      <4>1. toBrowser' \in Seq(BrowserTypes)
        BY <1>1, <1>2, <3>2, SendTypes
      <4> QED
        BY <1>12, <2>1, <2>3, <3>2, <4>1
    <3>3. CASE UNCHANGED <<pending, toEngine, timer, toBrowser>>
      <4>1. PICK one : one = IF tcp = "connecting" THEN 0 ELSE 1
        OBVIOUS
      <4>2. /\ one \in Nat /\ Len(pending) + Len(toEngine) <= messages + one /\ messages \in Nat
            /\ Len(pending) \in Nat /\ Len(toEngine) \in Nat
        BY <4>1 DEF TypeOK
      <4>3. Len(pending') + Len(toEngine') <= messages' + one
        BY <2>1, <3>3, <4>2
      <4>4. /\ toBrowser' \in Seq(BrowserTypes) /\ pending' \in Seq({"3", "2"})
            /\ toEngine' \in Seq({"3", "2", "JOIN"}) /\ timer' \in {"off", "set", "due"}
        BY <3>3 DEF TypeOK
      <4> QED
        BY <2>3, <4>1, <4>3, <4>4
    <3> QED
      BY <1>13, <3>1, <3>2, <3>3 DEF Message, FinishByte
  <2> QED
    BY <2>1, <2>2, <2>4 DEF TypeOK, reader, far
<1>14. CASE EngineSeats
  BY <1>14 DEF EngineSeats, parseClientHandshake, TypeOK, engineFrame, browser, link, reader, timers
<1>15. CASE EngineRejects
  <2>1. stream' \in Seq(Tokens)
    <3>1. PICK r \in Rejections : Emits(<<r, "LF">>)
      BY <1>15 DEF EngineRejects
    <3>2. <<r, "LF">> \in Seq(Tokens)
      BY EngineTokens
    <3> QED
      BY <3>1, <3>2, EmitsTypes
  <2> QED
    BY <1>15, <2>1 DEF EngineRejects, TypeOK, engineFrame, browser, link, reader, timers
<1>16. Progress = ObjectOf("PROGRESS_UPDATE") /\ Times = ObjectOf("RACE_RESULTS")
       /\ "PROGRESS_UPDATE" \in RaceTypes /\ "RACE_RESULTS" \in RaceTypes /\ "LOBBY_STATE" \in RaceTypes
  BY DEF Progress, Times, ObjectOf, KeyOf, RaceTypes
<1>17. Progress \in Seq(Tokens) /\ Times \in Seq(Tokens)
  BY <1>16, EngineTokens
<1>18. CASE EngineStarts
  <2>1. stream' \in Seq(Tokens)
    <3>1. PICK o \in StateObjects : Emits(<<"LEN">> \o o \o Progress)
      BY <1>18 DEF EngineStarts
    <3>2. PICK c \in Contents : o = StateObject(c)
      BY DEF StateObjects
    <3>3. <<"LEN">> \o o \o Progress = FirstOf(c) \o Progress
      BY <3>2 DEF FirstOf
    <3>4. FirstOf(c) \in Seq(Tokens)
      BY EngineTokens
    <3>5. FirstOf(c) \o Progress \in Seq(Tokens)
      BY <1>17, <3>4
    <3> QED
      BY <3>1, <3>3, <3>5, EmitsTypes
  <2>2. engineSent' \in Seq(RaceTypes)
    BY <1>16, <1>18 DEF EngineStarts
  <2> QED
    BY <1>18, <2>1, <2>2 DEF EngineStarts, TypeOK, engineFrame, browser, link, reader, timers
<1>19. CASE EngineUpdates
  <2>1. stream' \in Seq(Tokens)
    BY <1>17, <1>19, EmitsTypes DEF EngineUpdates
  <2>2. engineSent' \in Seq(RaceTypes)
    BY <1>16, <1>19 DEF EngineUpdates, TypeOK
  <2> QED
    BY <1>19, <2>1, <2>2 DEF EngineUpdates, TypeOK, engineFrame, browser, link, reader, timers
<1>20. CASE EngineResults
  <2>1. stream' \in Seq(Tokens)
    BY <1>17, <1>20, EmitsTypes DEF EngineResults
  <2>2. engineSent' \in Seq(RaceTypes)
    BY <1>16, <1>20 DEF EngineResults, TypeOK
  <2> QED
    BY <1>20, <2>1, <2>2 DEF EngineResults, TypeOK, engineFrame, browser, link, reader, timers
<1>21. CASE EngineLeaves
  BY <1>21 DEF EngineLeaves, TypeOK, engineFrame, browser, link, reader, timers
<1>22. CASE UNCHANGED vars
  BY <1>22 DEF vars, TypeOK, browser, link, reader, timers, far
<1>23. CASE Idle \/ MessageAgain
  BY <1>23, RestartedType DEF Idle, MessageAgain, TypeOK, browser, link, reader, far
<1> QED
  BY <1>3, <1>6, <1>7, <1>8, <1>9, <1>10, <1>11, <1>13, <1>14, <1>15, <1>18, <1>19, <1>20, <1>21, <1>22,
     <1>23
  DEF Next, Handlers, Engine, Over

\* A session's variables keep their types; and what the browser's messages leave for the
\* engine, waiting or written, is no more than one byte for each and the JOIN (the handlers of
\* gateway.js, tcpClient.write).
THEOREM TypeCorrect == Spec => []TypeOK
<1>1. TypeOK /\ [Next]_vars => TypeOK'
  BY NextTypes
<1> QED
  BY <1>1, InitTypes, PTL DEF Spec

-----------------------------------------------------------------------------
(* What a message to the browser changes. *)

\* The browser has got this error.
Heard(e) == \E i \in DOMAIN toBrowser : toBrowser[i] = e

\* Nobody is told of an error while the session is open.
LEMMA OpenIsQuiet ==
    ASSUME OneError, ws = "open", NEW e \in Errors
    PROVE  ~Heard(e)
  BY DEF OneError, Heard

\* A message that is no error and not of the race.
LEMMA SaysMore ==
    ASSUME TypeOK, OneError, NEW x \in BrowserTypes, x \notin RaceTypes, x \notin Errors,
           Send(<<x>>), ws' = ws
    PROVE  Relayed' = Relayed /\ OneError' /\ \A e \in Errors : Heard(e)' => Heard(e)
<1>1. toBrowser \in Seq(BrowserTypes)
  BY DEF TypeOK
<1>2. CASE ws # "open"
  <2>1. toBrowser' = toBrowser
    BY <1>2 DEF Send, SentTo
  <2> QED
    BY <2>1 DEF Relayed, OneError, Heard
<1>3. CASE ws = "open"
  <2>1. PICK n, u : n = Len(toBrowser) /\ u = Append(toBrowser, x)
    OBVIOUS
  <2>2. toBrowser' = u
    BY <1>1, <1>3, <2>1 DEF Send, SentTo
  <2>3. /\ n \in Nat /\ DOMAIN toBrowser = 1 .. n /\ DOMAIN u = 1 .. n + 1 /\ u[n + 1] = x
        /\ \A i \in 1 .. n : u[i] = toBrowser[i]
    BY <1>1, <2>1
  <2>4. \A i \in 1 .. n : toBrowser[i] \notin Errors
    BY <1>3, <2>3 DEF OneError
  <2>5. \A i \in DOMAIN toBrowser' : toBrowser'[i] \notin Errors
    <3>1. ASSUME NEW i \in 1 .. n + 1 PROVE u[i] \notin Errors
      <4>1. i \in 1 .. n \/ i = n + 1
        BY <2>3
      <4> QED
        BY <2>3, <2>4, <4>1
    <3> QED
      BY <2>2, <2>3, <3>1
  <2>6. RaceOf(u) = RaceOf(toBrowser)
    BY <1>1, <2>1, RaceOfAppend
  <2>7. Relayed' = Relayed
    BY <2>2, <2>6 DEF Relayed, RaceOf
  <2>8. OneError' /\ \A e \in Errors : ~Heard(e)'
    BY <2>5 DEF OneError, Heard
  <2> QED
    BY <2>7, <2>8
<1> QED
  BY <1>2, <1>3

\* An error, with which the session is closed.
LEMMA SaysError ==
    ASSUME TypeOK, OneError, NEW x \in Errors, Send(<<x>>), Close
    PROVE  Relayed' = Relayed /\ OneError' /\ \A e \in Errors : Heard(e)' => Heard(e) \/ e = x
<1>1. toBrowser \in Seq(BrowserTypes) /\ ws' # "open" /\ x \in BrowserTypes /\ x \notin RaceTypes
  BY DEF TypeOK, Close, BrowserTypes, Errors, RaceTypes
<1>2. CASE ws # "open"
  <2>1. toBrowser' = toBrowser
    BY <1>2 DEF Send, SentTo
  <2> QED
    BY <1>1, <2>1 DEF Relayed, OneError, Heard
<1>3. CASE ws = "open"
  <2>1. PICK n, u : n = Len(toBrowser) /\ u = Append(toBrowser, x)
    OBVIOUS
  <2>2. toBrowser' = u
    BY <1>1, <1>3, <2>1 DEF Send, SentTo
  <2>3. /\ n \in Nat /\ DOMAIN toBrowser = 1 .. n /\ Len(u) = n + 1 /\ DOMAIN u = 1 .. n + 1 /\ u[n + 1] = x
        /\ \A i \in 1 .. n : u[i] = toBrowser[i]
    BY <1>1, <2>1
  <2>4. \A i \in 1 .. n : toBrowser[i] \notin Errors
    BY <1>3, <2>3 DEF OneError
  <2>5. \A i \in 1 .. n + 1 : u[i] \in Errors => i = Len(u)
    <3>1. ASSUME NEW i \in 1 .. n + 1 PROVE i \in 1 .. n \/ i = n + 1
      BY <2>3
    <3> QED
      BY <2>3, <2>4, <3>1
  <2>6. RaceOf(u) = RaceOf(toBrowser)
    BY <1>1, <2>1, RaceOfAppend
  <2>7. Relayed' = Relayed
    BY <2>2, <2>6 DEF Relayed, RaceOf
  <2>8. OneError'
    BY <1>1, <2>2, <2>3, <2>5 DEF OneError
  <2>9. \A e \in Errors : Heard(e)' => e = x
    BY <2>2, <2>3, <2>5 DEF Heard
  <2> QED
    BY <2>7, <2>8, <2>9
<1> QED
  BY <1>2, <1>3

\* Messages of the race.
LEMMA SaysRace ==
    ASSUME TypeOK, OneError, ws = "open", ws' = ws, NEW t \in Seq(RaceTypes), Send(t)
    PROVE  Relayed' = Relayed \o t /\ OneError' /\ \A e \in Errors : ~Heard(e)'
<1>1. toBrowser \in Seq(BrowserTypes)
  BY DEF TypeOK
<1>2. PICK m, n, u : m = Len(toBrowser) /\ n = Len(t) /\ u = toBrowser \o t
  OBVIOUS
<1>3. toBrowser' = u
  BY <1>2 DEF Send, SentTo
<1>4. /\ m \in Nat /\ n \in Nat /\ DOMAIN toBrowser = 1 .. m /\ DOMAIN u = 1 .. m + n
      /\ \A i \in 1 .. m + n : u[i] = IF i <= m THEN toBrowser[i] ELSE t[i - m]
  <2>1. t \in Seq(BrowserTypes)
    BY DEF BrowserTypes
  <2> QED
    BY <1>1, <1>2, <2>1
<1>5. \A i \in 1 .. m : toBrowser[i] \notin Errors
  BY <1>4 DEF OneError
<1>6. \A i \in 1 .. n : t[i] \notin Errors
  <2>1. \A i \in 1 .. n : t[i] \in RaceTypes
    BY <1>2
  <2>2. RaceTypes \cap Errors = {}
    BY DEF RaceTypes, Errors
  <2> QED
    BY <2>1, <2>2
<1>7. ASSUME NEW i \in 1 .. m + n PROVE u[i] \notin Errors
  <2>1. CASE i <= m
    BY <1>4, <1>5, <2>1
  <2>2. CASE ~(i <= m)
    <3>1. PICK j : j = i - m
      OBVIOUS
    <3>2. j \in 1 .. n /\ u[i] = t[j]
      BY <1>4, <2>2, <3>1
    <3> QED
      BY <1>6, <3>2
  <2> QED
    BY <2>1, <2>2
<1>8. RaceOf(u) = RaceOf(toBrowser) \o t
  BY <1>1, <1>2, RaceOfConcat
<1>9. Relayed' = Relayed \o t
  BY <1>3, <1>8 DEF Relayed, RaceOf
<1>10. OneError' /\ \A e \in Errors : ~Heard(e)'
  BY <1>3, <1>4, <1>7 DEF OneError, Heard
<1> QED
  BY <1>9, <1>10

\* What has been relayed.
LEMMA RelayedTypes ==
    ASSUME TypeOK
    PROVE  Relayed \in Seq(RaceTypes) /\ Len(Relayed) \in Nat
<1>1. toBrowser \in Seq(BrowserTypes) /\ "LOBBY_WAITING" \in BrowserTypes
  BY DEF TypeOK, BrowserTypes
<1>2. Relayed \in Seq(RaceTypes)
  BY <1>1, RaceOfAppend DEF Relayed, RaceOf
<1> QED
  BY <1>2

\* Told, of single messages.
LEMMA ToldHeard ==
    Told <=> /\ IsPrefix(Relayed, engineSent)
             /\ tcp # "destroyed" /\ ~hasStarted => Relayed = <<>>
             /\ Heard("rejected") => engineSent = <<>>
             /\ Heard("timeout") => Relayed = <<>>
<1>1. \A e : e \in Range(toBrowser) <=> Heard(e)
  BY DEF Range, Heard
<1> QED
  BY <1>1, Zenon DEF Told

\* The same after a step.
LEMMA ToldHeardNext ==
    Told' <=> /\ IsPrefix(Relayed', engineSent')
              /\ tcp' # "destroyed" /\ ~hasStarted' => Relayed' = <<>>
              /\ Heard("rejected")' => engineSent' = <<>>
              /\ Heard("timeout")' => Relayed' = <<>>
<1>1. \A e : e \in Range(toBrowser') <=> Heard(e)'
  BY DEF Range, Heard
<1> QED
  BY <1>1, Zenon DEF Told

-----------------------------------------------------------------------------
(* Steps that read nothing of the stream. *)

\* The connection to the engine ends.
LEMMA LinkEnds ==
    ASSUME IInv, TypeOK', OneError', tcp' = "destroyed", UNCHANGED far, Relayed' = Relayed,
           Heard("rejected")' => engineSent = <<>>, Heard("timeout")' => Relayed = <<>>
    PROVE  IInv'
<1>1. engine' = engine /\ engineSent' = engineSent
  BY DEF far
<1>2. InStep'
  BY <1>1 DEF IInv, InStep
<1>3. Race'
  BY <1>1 DEF IInv, Race
<1>4. Underway'
  BY DEF Underway
<1>5. IsPrefix(Relayed, engineSent)
  BY DEF IInv, Told
<1>6. Told'
  BY <1>1, <1>5, ToldHeardNext
<1> QED
  BY <1>2, <1>3, <1>4, <1>6 DEF IInv

\* A step after which the stream, the buffer and what has been sent are what they were.
LEMMA NothingRead ==
    ASSUME IInv, TypeOK', OneError', Relayed' = Relayed, \A e \in Errors : Heard(e)' => Heard(e),
           UNCHANGED <<ws, tcp, stream, reader, engineSent>>,
           engine' = engine \/ engine' = "gone" \/ (engine = "listening" /\ engine' = "lobby" /\ tcp # "connecting"),
           tcp = "connecting" => UNCHANGED <<toEngine, engine>>
    PROVE  IInv'
<1>1. UNCHANGED <<rawBuffer, hasStarted>>
  BY DEF reader
<1>2. InStep'
  BY <1>1 DEF IInv, InStep
<1>3. Race'
  BY DEF IInv, Race
<1>4. Underway'
  <2>1. SUFFICES ASSUME tcp = "open" PROVE Underway'
    BY DEF Underway
  <2>2. CASE /\ engineSent = <<>> /\ ~hasStarted /\ rawBuffer = <<>>
             /\ stream = <<>> \/ (engine = "gone" /\ \E r \in Rejections : stream = <<r, "LF">>)
    BY <1>1, <2>2 DEF Underway
  <2>3. CASE engineSent # <<>> /\ ~hasStarted
    BY <1>1, <2>1, <2>3 DEF IInv, Underway, Follows
  <2>4. CASE engineSent # <<>> /\ hasStarted
    BY <1>1, <2>1, <2>4 DEF IInv, Underway, Follows
  <2> QED
    BY <2>1, <2>2, <2>3, <2>4 DEF IInv, Underway
<1>5. Told'
  <2>1. /\ IsPrefix(Relayed, engineSent)
        /\ tcp # "destroyed" /\ ~hasStarted => Relayed = <<>>
        /\ Heard("rejected") => engineSent = <<>>
        /\ Heard("timeout") => Relayed = <<>>
    BY ToldHeard DEF IInv
  <2>2. "rejected" \in Errors /\ "timeout" \in Errors
    BY DEF Errors
  <2> QED
    BY <1>1, <2>1, <2>2, ToldHeardNext
<1> QED
  BY <1>2, <1>3, <1>4, <1>5 DEF IInv

\* The connection is made: the engine has not sent anything yet.
LEMMA ConnectedKeeps ==
    ASSUME IInv, TypeOK', Connected
    PROVE  IInv'
<1>1. /\ tcp = "connecting" /\ tcp' = "open" /\ Send(<<"LOBBY_WAITING">>)
      /\ UNCHANGED <<ws, stream, rawBuffer, hasStarted, engine, seat, engineSent>>
  BY DEF Connected, reader, far
<1>2. Relayed' = Relayed /\ OneError' /\ \A e \in Errors : Heard(e)' => Heard(e)
  <2>1. "LOBBY_WAITING" \in BrowserTypes /\ "LOBBY_WAITING" \notin RaceTypes /\ "LOBBY_WAITING" \notin Errors
    BY DEF BrowserTypes, RaceTypes, Errors
  <2> QED
    BY <1>1, <2>1, SaysMore DEF IInv
<1>3. InStep'
  BY <1>1 DEF IInv, InStep
<1>4. Race'
  BY <1>1 DEF IInv, Race
<1>5. Underway'
  BY <1>1 DEF IInv, InStep, Underway
<1>6. Told'
  <2>1. /\ IsPrefix(Relayed, engineSent)
        /\ tcp # "destroyed" /\ ~hasStarted => Relayed = <<>>
        /\ Heard("rejected") => engineSent = <<>>
        /\ Heard("timeout") => Relayed = <<>>
    BY ToldHeard DEF IInv
  <2>2. "rejected" \in Errors /\ "timeout" \in Errors
    BY DEF Errors
  <2> QED
    BY <1>1, <1>2, <2>1, <2>2, ToldHeardNext
<1> QED
  BY <1>2, <1>3, <1>4, <1>5, <1>6 DEF IInv

\* The lobby has lasted too long, or the race runs and nothing happens.
LEMMA TimeoutKeeps ==
    ASSUME IInv, TypeOK', Timeout
    PROVE  IInv'
<1>1. CASE hasStarted
  <2>1. UNCHANGED <<ws, toBrowser, tcp, stream, reader, toEngine, engine, engineSent>>
    BY <1>1 DEF Timeout, browser, link, far
  <2>2. Relayed' = Relayed /\ OneError' /\ \A e \in Errors : Heard(e)' => Heard(e)
    BY <2>1 DEF IInv, Relayed, OneError, Heard
  <2> QED
    BY <2>1, <2>2, NothingRead
<1>2. CASE ~hasStarted
  <2>1. tcp # "destroyed" /\ Send(<<"timeout">>) /\ Close /\ Destroy /\ UNCHANGED far
    BY <1>2 DEF Timeout
  <2>2. "timeout" \in Errors
    BY DEF Errors
  <2>3. Relayed' = Relayed /\ OneError' /\ \A e \in Errors : Heard(e)' => Heard(e) \/ e = "timeout"
    BY <2>1, <2>2, SaysError DEF IInv
  <2>4. /\ Relayed = <<>>
        /\ Heard("rejected") => engineSent = <<>>
    BY <1>2, <2>1, ToldHeard DEF IInv
  <2>5. Heard("rejected")' => engineSent = <<>>
    <3>1. "rejected" \in Errors /\ "rejected" # "timeout"
      BY DEF Errors
    <3> QED
      BY <2>3, <2>4, <3>1
  <2>6. tcp' = "destroyed"
    BY <2>1 DEF Destroy
  <2> QED
    BY <2>1, <2>3, <2>4, <2>5, <2>6, LinkEnds
<1> QED
  BY <1>1, <1>2

\* The connection breaks, or the engine has closed it, or the browser leaves.
LEMMA EndsKeep ==
    ASSUME IInv, TypeOK', TcpError \/ TcpEnd \/ WsClose
    PROVE  IInv'
<1>1. tcp' = "destroyed" /\ UNCHANGED far
  BY DEF TcpError, TcpEnd, WsClose, Hangup, Destroy
<1>2. /\ Heard("rejected") => engineSent = <<>>
      /\ Heard("timeout") => Relayed = <<>>
  BY ToldHeard DEF IInv
<1>3. "rejected" \in Errors /\ "timeout" \in Errors /\ "unreachable" \in Errors
      /\ "rejected" # "unreachable" /\ "timeout" # "unreachable"
  BY DEF Errors
<1>4. CASE TcpError
  <2>1. Relayed' = Relayed /\ OneError' /\ \A e \in Errors : Heard(e)' => Heard(e) \/ e = "unreachable"
    BY <1>3, <1>4, SaysError DEF TcpError, IInv
  <2> QED
    BY <1>1, <1>2, <1>3, <2>1, LinkEnds
<1>5. CASE TcpEnd \/ WsClose
  <2>1. toBrowser' = toBrowser /\ (ws # "open" => ws' # "open")
    BY <1>5 DEF TcpEnd, WsClose, Close
  <2>2. Relayed' = Relayed /\ OneError' /\ \A e \in Errors : Heard(e)' => Heard(e)
    BY <2>1 DEF IInv, Relayed, OneError, Heard
  <2> QED
    BY <1>1, <1>2, <1>3, <2>2, LinkEnds
<1> QED
  BY <1>4, <1>5

\* A message of the browser.
LEMMA MessageKeeps ==
    ASSUME IInv, TypeOK', Message
    PROVE  IInv'
<1>1. UNCHANGED <<ws, tcp, stream, reader, engine, engineSent>>
  BY DEF Message, far
<1>2. Relayed' = Relayed /\ OneError' /\ \A e \in Errors : Heard(e)' => Heard(e)
  <2>1. CASE toBrowser' = toBrowser
    BY <1>1, <2>1 DEF IInv, Relayed, OneError, Heard
  <2>2. CASE Send(<<"PLAYER_FINISHED_ACK">>)
    <3>1. /\ "PLAYER_FINISHED_ACK" \in BrowserTypes /\ "PLAYER_FINISHED_ACK" \notin RaceTypes
          /\ "PLAYER_FINISHED_ACK" \notin Errors
      BY DEF BrowserTypes, RaceTypes, Errors
    <3> QED
      BY <1>1, <2>2, <3>1, SaysMore DEF IInv
  <2> QED
    BY <2>1, <2>2 DEF Message
<1>3. tcp = "connecting" => UNCHANGED toEngine
  BY DEF Message, Write
<1> QED
  BY <1>1, <1>2, <1>3, NothingRead

\* The heartbeat ends, the connection is idle or written to, the engine seats the player or
\* leaves, or nothing happens.
LEMMA OthersKeep ==
    ASSUME IInv, TypeOK',
           Heartbeat \/ Idle \/ MessageAgain \/ EngineSeats \/ EngineLeaves \/ UNCHANGED vars
    PROVE  IInv'
<1>1. UNCHANGED <<ws, toBrowser, tcp, stream, reader, toEngine, engineSent>>
  BY DEF Heartbeat, Idle, MessageAgain, EngineSeats, EngineLeaves, vars, engineFrame, browser, link, far
<1>2. Relayed' = Relayed /\ OneError' /\ \A e \in Errors : Heard(e)' => Heard(e)
  BY <1>1 DEF IInv, Relayed, OneError, Heard
<1>3. /\ engine' = engine \/ engine' = "gone" \/ (engine = "listening" /\ engine' = "lobby" /\ tcp # "connecting")
      /\ tcp = "connecting" => engine' = engine
  <2>1. CASE Heartbeat \/ Idle \/ MessageAgain \/ UNCHANGED vars
    BY <2>1 DEF Heartbeat, Idle, MessageAgain, vars, far
  <2>2. CASE EngineSeats
    <3>1. toEngine # <<>>
      BY <2>2 DEF EngineSeats, Range
    <3> QED
      BY <2>2, <3>1 DEF EngineSeats, IInv, InStep
  <2>3. CASE EngineLeaves
    BY <2>3 DEF EngineLeaves, IInv, InStep
  <2> QED
    BY <2>1, <2>2, <2>3
<1> QED
  BY <1>1, <1>2, <1>3, NothingRead

-----------------------------------------------------------------------------
(* Steps of the engine that send something. *)

\* What is a prefix of a list stays one when the list grows.
LEMMA PrefixOfMore ==
    ASSUME NEW S, NEW s \in Seq(S), NEW t \in Seq(S), NEW x \in S, IsPrefix(s, t)
    PROVE  IsPrefix(s, Append(t, x))
<1>1. PICK n, u : n = Len(s) /\ u = Append(t, x)
  OBVIOUS
<1>2. n \in Nat /\ n <= Len(t) /\ SubSeq(s, 1, n) = SubSeq(t, 1, n)
  BY <1>1 DEF IsPrefix
<1>3. u \in Seq(S) /\ n <= Len(u) /\ \A i \in 1 .. n : u[i] = t[i]
  BY <1>1, <1>2
<1>4. SubSeq(u, 1, n) = SubSeq(t, 1, n)
  <2>1. SubSeq(u, 1, n) = [i \in 1 .. n |-> u[i]] /\ SubSeq(t, 1, n) = [i \in 1 .. n |-> t[i]]
    BY <1>2, <1>3
  <2> QED
    BY <1>3, <2>1
<1> QED
  BY <1>1, <1>2, <1>3, <1>4 DEF IsPrefix

\* Nothing is a prefix of everything.
LEMMA PrefixNothing ==
    ASSUME NEW S, NEW t \in Seq(S)
    PROVE  IsPrefix(<<>>, t)
<1>1. PICK e : e = <<>>
  OBVIOUS
<1>2. Len(e) = 0 /\ Len(t) \in Nat /\ SubSeq(e, 1, 0) = <<>> /\ SubSeq(t, 1, 0) = <<>>
  BY <1>1
<1> QED
  BY <1>1, <1>2 DEF IsPrefix

\* What holds of the browser while the engine sends.
LEMMA EngineQuiet ==
    ASSUME IInv, tcp = "open", UNCHANGED engineFrame, IsPrefix(Relayed, engineSent')
    PROVE  /\ UNCHANGED <<ws, toBrowser, tcp, rawBuffer, hasStarted, toEngine>>
           /\ ws = "open" /\ Relayed' = Relayed /\ OneError' /\ Told'
<1>1. UNCHANGED <<ws, toBrowser, tcp, rawBuffer, hasStarted, toEngine>>
  BY DEF engineFrame, browser, link, reader
<1>2. ws = "open"
  BY DEF IInv, InStep
<1>3. Relayed' = Relayed /\ OneError' /\ \A e \in Errors : Heard(e)' => Heard(e)
  BY <1>1 DEF IInv, Relayed, OneError, Heard
<1>4. ~Heard("rejected")' /\ ~Heard("timeout")'
  <2>1. "rejected" \in Errors /\ "timeout" \in Errors
    BY DEF Errors
  <2> QED
    BY <1>2, <1>3, <2>1, OpenIsQuiet DEF IInv
<1>5. tcp # "destroyed" /\ ~hasStarted => Relayed = <<>>
  BY DEF IInv, Told
<1>6. Told'
  BY <1>1, <1>3, <1>4, <1>5, ToldHeardNext
<1> QED
  BY <1>1, <1>2, <1>3, <1>6

\* A rejection.
LEMMA RejectsKeeps ==
    ASSUME IInv, TypeOK', EngineRejects
    PROVE  IInv'
<1>1. /\ engine = "listening" /\ tcp = "open" /\ engine' = "gone" /\ UNCHANGED engineFrame
      /\ engineSent' = engineSent /\ \E r \in Rejections : Emits(<<r, "LF">>)
  BY DEF EngineRejects
<1>2. /\ UNCHANGED <<ws, toBrowser, tcp, rawBuffer, hasStarted, toEngine>>
      /\ ws = "open" /\ Relayed' = Relayed /\ OneError' /\ Told'
  <2>1. IsPrefix(Relayed, engineSent')
    BY <1>1 DEF IInv, Told
  <2> QED
    BY <1>1, <2>1, EngineQuiet
<1>3. InStep'
  BY <1>1, <1>2 DEF IInv, InStep
<1>4. Race'
  BY <1>1 DEF IInv, Race
<1>5. Underway'
  <2>1. engineSent = <<>> /\ ~hasStarted /\ rawBuffer = <<>> /\ stream = <<>>
    BY <1>1 DEF IInv, InStep, Underway
  <2>2. PICK r \in Rejections : stream' = stream \o <<r, "LF">>
    BY <1>1 DEF Emits
  <2>3. stream' = <<r, "LF">>
    BY <2>1, <2>2
  <2> QED
    BY <1>1, <1>2, <2>1, <2>3 DEF Underway
<1> QED
  BY <1>2, <1>3, <1>4, <1>5 DEF IInv

\* The start of the race.
LEMMA StartsKeeps ==
    ASSUME IInv, TypeOK', EngineStarts
    PROVE  IInv'
<1>1. /\ engine = "lobby" /\ tcp = "open" /\ engine' = "racing" /\ UNCHANGED engineFrame
      /\ engineSent' = <<"LOBBY_STATE", "PROGRESS_UPDATE">>
      /\ \E o \in StateObjects : Emits(<<"LEN">> \o o \o Progress)
  BY DEF EngineStarts
<1>2. engineSent = <<>> /\ ~hasStarted /\ rawBuffer = <<>> /\ stream = <<>> /\ Relayed = <<>>
  BY <1>1 DEF IInv, InStep, Underway, Told
<1>3. /\ UNCHANGED <<ws, toBrowser, tcp, rawBuffer, hasStarted, toEngine>>
      /\ ws = "open" /\ Relayed' = Relayed /\ OneError' /\ Told'
  <2>1. engineSent' \in Seq(RaceTypes)
    BY DEF TypeOK
  <2>2. IsPrefix(Relayed, engineSent')
    BY <1>2, <2>1, PrefixNothing
  <2> QED
    BY <1>1, <2>2, EngineQuiet
<1>4. /\ Len(engineSent') = 2 /\ engineSent'[1] = "LOBBY_STATE" /\ engineSent'[2] = "PROGRESS_UPDATE"
      /\ engineSent' # <<>>
  BY <1>1
<1>5. InStep'
  BY <1>1, <1>3, <1>4 DEF IInv, InStep
<1>6. Race'
  <2>1. \A i \in 2 .. Len(engineSent') : engineSent'[i] \in {"PROGRESS_UPDATE", "RACE_RESULTS"}
    BY <1>4
  <2> QED
    BY <1>4, <2>1 DEF Race
<1>7. Underway'
  <2>1. PICK c \in Contents : Emits(FirstOf(c) \o Progress)
    BY <1>1 DEF StateObjects, FirstOf
  <2>2. PICK f, w, n : f = FirstOf(c) /\ w = f \o Progress /\ n = Len(c) + 6
    OBVIOUS
  <2>3. f \in Seq(Tokens) /\ Len(f) = n /\ n \in Nat /\ n > 0
    BY <2>2, FirstTokens, EngineTokens
  <2>4. /\ Progress \in Seq(Tokens) /\ Len(Progress) = 3 /\ Progress[1] = "lbrace"
        /\ Progress[2] = KeyOf("PROGRESS_UPDATE") /\ Progress[3] = "rbrace"
    <3>1. Progress = ObjectOf("PROGRESS_UPDATE") /\ "PROGRESS_UPDATE" \in RaceTypes
      BY DEF Progress, ObjectOf, KeyOf, RaceTypes
    <3>2. Progress \in Seq(Tokens)
      BY <3>1, EngineTokens
    <3> QED
      BY <3>2 DEF Progress, KeyOf
  <2>5. /\ w \in Seq(Tokens) /\ Len(w) = n + 3
        /\ \A k \in 1 .. n + 3 : w[k] = IF k <= n THEN f[k] ELSE Progress[k - n]
    <3>1. /\ f \o Progress \in Seq(Tokens) /\ Len(f \o Progress) = Len(f) + Len(Progress)
          /\ \A k \in 1 .. Len(f) + Len(Progress) :
                (f \o Progress)[k] = IF k <= Len(f) THEN f[k] ELSE Progress[k - Len(f)]
      BY <2>3, <2>4, ConcatProperties, Zenon
    <3> QED
      BY <2>2, <2>3, <2>4, <3>1, Zenon
  <2>6. stream' = w /\ rawBuffer' \o stream' = w
    <3>1. stream' = stream \o w
      BY <1>1, <2>1, <2>2 DEF Emits
    <3>2. \A v \in Seq(Tokens) : <<>> \o v = v
      OBVIOUS
    <3>3. stream' = w
      BY <1>2, <2>5, <3>1, <3>2
    <3> QED
      BY <1>2, <1>3, <2>5, <3>2, <3>3
  <2>7. w[n + 1] = "lbrace" /\ w[n + 2] = KeyOf("PROGRESS_UPDATE") /\ w[n + 3] = "rbrace"
    <3>1. /\ n + 1 \in 1 .. n + 3 /\ n + 2 \in 1 .. n + 3 /\ n + 3 \in 1 .. n + 3
          /\ (n + 1) - n = 1 /\ (n + 2) - n = 2 /\ (n + 3) - n = 3
          /\ ~(n + 1 <= n) /\ ~(n + 2 <= n) /\ ~(n + 3 <= n)
      BY <2>3
    <3> QED
      BY <2>4, <2>5, <3>1
  <2>8. \A k \in 1 .. n : w[k] = f[k]
    BY <2>3, <2>5
  <2>9. Follows(w, n, 1, engineSent')
    <3>1. Len(engineSent') - 1 = 1 /\ Len(w) = n + 3 * (Len(engineSent') - 1)
      BY <1>4, <2>3, <2>5
    <3>2. ASSUME NEW i \in 1 .. Len(engineSent') - 1
          PROVE  /\ w[n + 3 * i - 2] = "lbrace" /\ w[n + 3 * i] = "rbrace"
                 /\ w[n + 3 * i - 1] = KeyOf(engineSent'[1 + i])
      <4>1. i = 1
        BY <1>4
      <4>2. 3 * i = 3 /\ 1 + i = 2 /\ n + 3 - 2 = n + 1 /\ n + 3 - 1 = n + 2
        BY <2>3, <4>1
      <4> QED
        BY <1>4, <2>7, <4>2
    <3> QED
      BY <3>1, <3>2 DEF Follows
  <2>10. Len(rawBuffer') < Len(f)
    <3>1. Len(rawBuffer') = 0
      BY <1>2, <1>3
    <3> QED
      BY <2>3, <3>1
  <2>11. \E d \in Contents :
            LET whole == rawBuffer' \o stream'
                first == <<"LEN">> \o StateObject(d)
            IN  /\ Follows(whole, Len(first), 1, engineSent')
                /\ \A k \in 1 .. Len(first) : whole[k] = first[k]
                /\ Len(rawBuffer') < Len(first)
    <3>1. f = <<"LEN">> \o StateObject(c)
      BY <2>2 DEF FirstOf
    <3> QED
      BY <2>3, <2>6, <2>8, <2>9, <2>10, <3>1
  <2> QED
    BY <1>2, <1>3, <1>4, <2>11 DEF Underway
<1> QED
  BY <1>3, <1>5, <1>6, <1>7 DEF IInv

\* Progress or results.
LEMMA SendsKeeps ==
    ASSUME IInv, TypeOK', NEW type \in Later, engineSent # <<>>, tcp = "open",
           Emits(ObjectOf(type)), engineSent' = Append(engineSent, type), UNCHANGED engineFrame,
           engine' \in {"racing", "finished"}
    PROVE  IInv'
<1>1. type \in RaceTypes
  BY DEF Later, RaceTypes
<1>2. engineSent \in Seq(RaceTypes) /\ stream \in Seq(Tokens) /\ rawBuffer \in Seq(Tokens)
  BY DEF IInv, TypeOK
<1>3. /\ UNCHANGED <<ws, toBrowser, tcp, rawBuffer, hasStarted, toEngine>>
      /\ ws = "open" /\ Relayed' = Relayed /\ OneError' /\ Told'
  <2>1. Relayed \in Seq(RaceTypes)
    BY RelayedTypes DEF IInv
  <2>2. IsPrefix(Relayed, engineSent')
    BY <1>1, <1>2, <2>1, PrefixOfMore DEF IInv, Told
  <2> QED
    BY <2>2, EngineQuiet
<1>4. PICK g : g = Len(engineSent)
  OBVIOUS
<1>5. /\ g \in Nat /\ Len(engineSent') = g + 1 /\ engineSent'[g + 1] = type /\ engineSent' # <<>>
      /\ \A i \in 1 .. g : engineSent'[i] = engineSent[i]
  BY <1>1, <1>2, <1>4
<1>6. /\ g >= 2 /\ engineSent[1] = "LOBBY_STATE"
      /\ \A i \in 2 .. g : engineSent[i] \in {"PROGRESS_UPDATE", "RACE_RESULTS"}
  BY <1>4 DEF IInv, Race
<1>7. InStep'
  BY <1>3, <1>5 DEF IInv, InStep
<1>8. Race'
  <2>1. ASSUME NEW i \in 2 .. g + 1 PROVE engineSent'[i] \in {"PROGRESS_UPDATE", "RACE_RESULTS"}
    <3>1. i \in 2 .. g \/ i = g + 1
      BY <1>5
    <3>2. i \in 2 .. g => i \in 1 .. g
      BY <1>5
    <3> QED
      BY <1>5, <1>6, <3>1, <3>2 DEF Later
  <2>2. 1 \in 1 .. g /\ g + 1 >= 2
    BY <1>5, <1>6
  <2> QED
    BY <1>5, <1>6, <2>1, <2>2 DEF Race
<1>9. PICK s, u, o : s = rawBuffer \o stream /\ o = ObjectOf(type) /\ u = s \o o
  OBVIOUS
<1>10. /\ s \in Seq(Tokens) /\ o \in Seq(Tokens) /\ Len(o) = 3
       /\ o[1] = "lbrace" /\ o[2] = KeyOf(type) /\ o[3] = "rbrace"
  <2>1. s \in Seq(Tokens)
    BY <1>2, <1>9
  <2>2. o \in Seq(Tokens)
    BY <1>1, <1>9, EngineTokens
  <2> QED
    BY <1>9, <2>1, <2>2 DEF ObjectOf
<1>11. rawBuffer' \o stream' = u
  <2>1. stream' = stream \o o
    BY <1>9 DEF Emits
  <2>2. (rawBuffer \o stream) \o o = rawBuffer \o (stream \o o)
    <3>1. rawBuffer \in Seq(Tokens) /\ stream \in Seq(Tokens) /\ o \in Seq(Tokens)
      BY <1>2, <1>10
    <3> QED
      BY <3>1, ConcatAssociative
  <2> QED
    BY <1>3, <1>9, <2>1, <2>2
<1>12. PICK n : n = Len(s)
  OBVIOUS
<1>13. /\ n \in Nat /\ u \in Seq(Tokens) /\ Len(u) = n + 3 /\ \A k \in 1 .. n : u[k] = s[k]
       /\ u[n + 1] = "lbrace" /\ u[n + 2] = KeyOf(type) /\ u[n + 3] = "rbrace"
  <2>1. /\ s \o o \in Seq(Tokens) /\ Len(s \o o) = Len(s) + Len(o)
        /\ \A k \in 1 .. Len(s) + Len(o) : (s \o o)[k] = IF k <= Len(s) THEN s[k] ELSE o[k - Len(s)]
    BY <1>10, ConcatProperties, Zenon
  <2>2. n \in Nat
    BY <1>10, <1>12
  <2>3. u \in Seq(Tokens) /\ Len(u) = n + 3 /\ \A k \in 1 .. n + 3 : u[k] = IF k <= n THEN s[k] ELSE o[k - n]
    BY <1>9, <1>10, <1>12, <2>1, Zenon
  <2>4. /\ n + 1 \in 1 .. n + 3 /\ n + 2 \in 1 .. n + 3 /\ n + 3 \in 1 .. n + 3
        /\ (n + 1) - n = 1 /\ (n + 2) - n = 2 /\ (n + 3) - n = 3
        /\ ~(n + 1 <= n) /\ ~(n + 2 <= n) /\ ~(n + 3 <= n)
    BY <2>2
  <2> QED
    BY <1>10, <2>2, <2>3, <2>4
<1>14. ASSUME NEW e \in Nat, NEW m \in Nat, m <= g, Follows(s, e, m, engineSent)
       PROVE  Follows(u, e, m, engineSent')
  <2>1. m <= Len(engineSent)
    BY <1>4, <1>14
  <2> QED
    BY <1>1, <1>2, <1>10, <1>12, <1>13, <1>14, <2>1, ListGrows
<1>15. Underway'
  <2>1. CASE hasStarted
    <3>1. Follows(s, 0, Len(Relayed), engineSent) /\ Len(rawBuffer) < 3 /\ Relayed # <<>>
      BY <1>9, <2>1 DEF IInv, Underway
    <3>2. Len(Relayed) \in Nat /\ Len(Relayed) <= g
      BY <1>4, RelayedTypes DEF IInv, Told, IsPrefix
    <3>3. Follows(u, 0, Len(Relayed), engineSent')
      BY <1>14, <3>1, <3>2
    <3>4. Follows(rawBuffer' \o stream', 0, Len(Relayed'), engineSent')
      BY <1>3, <1>11, <3>3
    <3> QED
      BY <1>3, <1>5, <2>1, <3>1, <3>4 DEF Underway
  <2>2. CASE ~hasStarted
    <3>1. PICK c \in Contents :
             /\ Follows(s, Len(FirstOf(c)), 1, engineSent)
             /\ \A k \in 1 .. Len(FirstOf(c)) : s[k] = FirstOf(c)[k]
             /\ Len(rawBuffer) < Len(FirstOf(c))
      BY <1>9, <2>2 DEF IInv, Underway, FirstOf
    <3>2. PICK f : f = FirstOf(c)
      OBVIOUS
    <3>3. Len(f) \in Nat
      BY <3>2, FirstTokens
    <3>4. Follows(s, Len(f), 1, engineSent)
      BY <3>1, <3>2
    <3>5. Follows(u, Len(f), 1, engineSent')
      <4>1. 1 \in Nat /\ 1 <= g
        BY <1>5, <1>6
      <4> QED
        BY <1>14, <3>3, <3>4, <4>1
    <3>6. Len(f) <= n
      BY <1>4, <1>5, <1>6, <1>12, <3>3, <3>4 DEF Follows
    <3>7. \A k \in 1 .. Len(f) : u[k] = f[k]
      BY <1>13, <3>1, <3>2, <3>3, <3>6
    <3>9. \E d \in Contents :
             LET whole == rawBuffer' \o stream'
                 first == <<"LEN">> \o StateObject(d)
             IN  /\ Follows(whole, Len(first), 1, engineSent')
                 /\ \A k \in 1 .. Len(first) : whole[k] = first[k]
                 /\ Len(rawBuffer') < Len(first)
      <4>1. f = <<"LEN">> \o StateObject(c) /\ Len(rawBuffer') < Len(f)
        BY <1>3, <3>1, <3>2 DEF FirstOf
      <4> QED
        BY <1>11, <3>5, <3>7, <4>1
    <3> QED
      BY <1>3, <1>5, <2>2, <3>9 DEF Underway
  <2> QED
    BY <2>1, <2>2
<1> QED
  BY <1>3, <1>7, <1>8, <1>15 DEF IInv

-----------------------------------------------------------------------------
(* The step that reads the stream. *)

\* The part of a list between two places, taken from its rest.
LEMMA PartOfRest ==
    ASSUME NEW S, NEW list \in Seq(S), NEW m \in Nat, NEW q \in Nat, m + q <= Len(list),
           NEW rest, rest = SubSeq(list, m + 1, Len(list))
    PROVE  SubSeq(rest, 1, q) = SubSeq(list, m + 1, m + q)
<1>1. rest \in Seq(S) /\ Len(rest) = Len(list) - m /\ \A k \in 1 .. Len(list) - m : rest[k] = list[m + k]
  <2>1. m <= Len(list)
    OBVIOUS
  <2>2. /\ SubSeq(list, m + 1, Len(list)) \in Seq(S)
        /\ Len(SubSeq(list, m + 1, Len(list))) = Len(list) - m
        /\ \A k \in 1 .. Len(list) - m : SubSeq(list, m + 1, Len(list))[k] = list[m + k]
    BY <2>1, Dropped, Zenon
  <2> QED
    BY <2>2, Zenon
<1>2. PICK a, b, e, f : a = SubSeq(rest, 1, q) /\ b = SubSeq(list, f, e) /\ e = m + q /\ f = m + 1
  OBVIOUS
<1>3. a \in Seq(S) /\ Len(a) = q /\ \A k \in 1 .. q : a[k] = rest[k]
  <2>1. q <= Len(rest)
    BY <1>1
  <2> QED
    BY <1>1, <1>2, <2>1
<1>4. b \in Seq(S) /\ Len(b) = q /\ \A k \in 1 .. q : b[k] = list[m + k]
  <2>1. e <= Len(list) /\ f \in 1 .. e + 1 /\ e - f + 1 = q /\ \A k \in 1 .. q : f + k - 1 = m + k
    BY <1>2
  <2>2. b \in Seq(S) /\ Len(b) = e - f + 1 /\ \A k \in 1 .. e - f + 1 : b[k] = list[f + k - 1]
    BY <1>2, <2>1
  <2> QED
    BY <2>1, <2>2
<1>5. \A k \in 1 .. q : a[k] = b[k]
  <2>1. \A k \in 1 .. q : k \in 1 .. Len(list) - m
    OBVIOUS
  <2> QED
    BY <1>1, <1>3, <1>4, <2>1
<1>6. a = b
  BY <1>3, <1>4, <1>5, SeqEqual
<1> QED
  BY <1>2, <1>6

\* A number of tokens is a number of whole objects and less than one.
LEMMA Thirds ==
    ASSUME NEW x \in Nat
    PROVE  \E q \in Nat, r \in 0 .. 2 : x = 3 * q + r
<1> DEFINE S == {y \in Nat : \E q \in Nat, r \in 0 .. 2 : y = 3 * q + r}
<1>1. 0 \in S
  <2>1. 0 = 3 * 0 + 0
    OBVIOUS
  <2> QED
    BY <2>1
<1>2. ASSUME NEW y \in Nat, y \in S PROVE y + 1 \in S
  <2>1. PICK q \in Nat, r \in 0 .. 2 : y = 3 * q + r
    BY <1>2
  <2>2. CASE r = 2
    <3>1. y + 1 = 3 * (q + 1) + 0 /\ q + 1 \in Nat
      BY <2>1, <2>2
    <3> QED
      BY <3>1
  <2>3. CASE r # 2
    <3>1. y + 1 = 3 * q + (r + 1) /\ r + 1 \in 0 .. 2
      BY <2>1, <2>3
    <3> QED
      BY <3>1
  <2> QED
    BY <2>2, <2>3
<1>3. x \in S
  <2> HIDE DEF S
  <2> QED
    BY <1>1, <1>2, SetInduction
<1> QED
  BY <1>3

\* Behind p the loops have found the messages of list after its first m, q of them, and less
\* than an object is left.
Found(buffer, p, m, list, types, q) ==
    /\ m + q <= Len(list)
    /\ Scan(buffer)[Len(buffer)].end = p + 3 * q
    /\ Scan(buffer)[Len(buffer)].types = types \o SubSeq(list, m + 1, m + q)
    /\ p + 3 * q <= Len(buffer) /\ Len(buffer) - (p + 3 * q) < 3

\* From between two objects of the engine to the end of what has come: all that is complete
\* is found, in order, and less than an object is left.
LEMMA ScanFollows ==
    ASSUME NEW T, NEW buffer \in Seq(T), NEW whole \in Seq(T), Len(buffer) <= Len(whole),
           \A k \in 1 .. Len(buffer) : buffer[k] = whole[k],
           NEW p \in Nat, p <= Len(buffer), NEW m \in Nat, NEW list \in Seq(RaceTypes), m <= Len(list),
           Follows(whole, p, m, list), \A i \in m + 1 .. Len(list) : list[i] \in Later,
           NEW types \in Seq(RaceTypes), Between(Scan(buffer)[p], p, types)
    PROVE  \E q \in Nat : Found(buffer, p, m, list, types, q)
<1>1. PICK n, l, rest, g : n = Len(buffer) /\ g = Len(list) /\ l = g - m /\ rest = SubSeq(list, m + 1, Len(list))
  OBVIOUS
<1>2. /\ n \in Nat /\ g \in Nat /\ l \in Nat /\ g = m + l /\ p <= n /\ n <= p + 3 * l
      /\ Len(whole) = p + 3 * l
  BY <1>1 DEF Follows
<1>3. PICK q \in Nat, r \in 0 .. 2 : n = p + 3 * q + r
  <2>1. PICK x : x = n - p
    OBVIOUS
  <2>2. x \in Nat
    BY <1>2, <2>1
  <2>3. PICK q \in Nat, r \in 0 .. 2 : x = 3 * q + r
    BY <2>2, Thirds
  <2>4. n = p + 3 * q + r
    BY <1>2, <2>1, <2>2, <2>3
  <2> QED
    BY <2>4
<1>4. q <= l /\ (r > 0 => q < l) /\ m + q <= g /\ p + 3 * q <= n /\ n - (p + 3 * q) < 3
  BY <1>2, <1>3
<1>5. rest \in Seq(Later) /\ Len(rest) = l /\ \A k \in 1 .. l : rest[k] = list[m + k]
  <2>1. /\ SubSeq(list, m + 1, Len(list)) \in Seq(RaceTypes)
        /\ Len(SubSeq(list, m + 1, Len(list))) = Len(list) - m
        /\ \A k \in 1 .. Len(list) - m : SubSeq(list, m + 1, Len(list))[k] = list[m + k]
    BY Dropped, Zenon
  <2>2. rest \in Seq(RaceTypes) /\ Len(rest) = l /\ \A k \in 1 .. l : rest[k] = list[m + k]
    BY <1>1, <2>1, Zenon
  <2>3. ASSUME NEW k \in 1 .. Len(rest) PROVE rest[k] \in Later
    <3>1. PICK i : i = m + k
      OBVIOUS
    <3>2. k \in 1 .. l /\ i \in m + 1 .. Len(list)
      BY <1>1, <1>2, <2>2, <3>1
    <3> QED
      BY <2>2, <3>1, <3>2
  <2> QED
    BY <2>2, <2>3, OfItsTokens
<1>6. ASSUME NEW i \in 1 .. Len(rest)
      PROVE  /\ p + 3 * i - 2 <= Len(buffer) => buffer[p + 3 * i - 2] = "lbrace"
             /\ p + 3 * i - 1 <= Len(buffer) => buffer[p + 3 * i - 1] = KeyOf(rest[i])
             /\ p + 3 * i <= Len(buffer) => buffer[p + 3 * i] = "rbrace"
  <2>1. PICK b : b = p + 3 * i
    OBVIOUS
  <2>2. i \in 1 .. l /\ b \in Nat /\ b >= 3 /\ b - 2 >= 1 /\ b - 1 >= 1 /\ b - 2 \in Nat /\ b - 1 \in Nat
    BY <1>2, <1>5, <2>1
  <2>3. whole[b - 2] = "lbrace" /\ whole[b] = "rbrace" /\ whole[b - 1] = KeyOf(list[m + i])
    BY <1>1, <2>1, <2>2 DEF Follows
  <2>4. /\ b - 2 <= Len(buffer) => b - 2 \in 1 .. Len(buffer)
        /\ b - 1 <= Len(buffer) => b - 1 \in 1 .. Len(buffer)
        /\ b <= Len(buffer) => b \in 1 .. Len(buffer)
    BY <2>2, SMTT(30)
  <2>5. rest[i] = list[m + i]
    BY <1>5, <2>2
  <2>6. b - 2 <= Len(buffer) => buffer[b - 2] = "lbrace"
    BY <2>3, <2>4
  <2>7. b - 1 <= Len(buffer) => buffer[b - 1] = KeyOf(rest[i])
    BY <2>3, <2>4, <2>5
  <2>8. b <= Len(buffer) => buffer[b] = "rbrace"
    BY <2>3, <2>4
  <2> QED
    BY <2>1, <2>6, <2>7, <2>8
<1>7. /\ Scan(buffer)[Len(buffer)].end = p + 3 * q
      /\ Scan(buffer)[Len(buffer)].types = types \o SubSeq(rest, 1, q)
  <2>1. Len(buffer) = p + 3 * q + r /\ q <= Len(rest) /\ (r > 0 => q < Len(rest))
    BY <1>1, <1>3, <1>4, <1>5
  <2> QED
    BY <1>5, <1>6, <2>1, ObjectsScan, ZenonT(60)
<1>8. SubSeq(rest, 1, q) = SubSeq(list, m + 1, m + q)
  <2>1. m + q <= Len(list)
    BY <1>1, <1>4
  <2> QED
    BY <1>1, <2>1, PartOfRest
<1>9. /\ m + q <= Len(list) /\ p + 3 * q <= Len(buffer) /\ Len(buffer) - (p + 3 * q) < 3
  BY <1>1, <1>4
<1> QED
  BY <1>7, <1>8, <1>9 DEF Found

\* A prefix is a part of the list from its start.
LEMMA PrefixIsPart ==
    ASSUME NEW S, NEW s \in Seq(S), NEW t \in Seq(S)
    PROVE  /\ IsPrefix(s, t) => s = SubSeq(t, 1, Len(s)) /\ Len(s) <= Len(t)
           /\ \A j \in 0 .. Len(t) : s = SubSeq(t, 1, j) => IsPrefix(s, t) /\ Len(s) = j
<1>1. PICK n : n = Len(s)
  OBVIOUS
<1>2. n \in Nat /\ Len(t) \in Nat /\ SubSeq(s, 1, n) = s
  BY <1>1
<1>3. IsPrefix(s, t) => s = SubSeq(t, 1, Len(s)) /\ Len(s) <= Len(t)
  BY <1>1, <1>2 DEF IsPrefix
<1>4. ASSUME NEW j \in 0 .. Len(t), s = SubSeq(t, 1, j) PROVE IsPrefix(s, t) /\ Len(s) = j
  <2>1. Len(s) = j
    BY <1>2, <1>4
  <2> QED
    BY <1>1, <1>2, <1>4, <2>1 DEF IsPrefix
<1> QED
  BY <1>3, <1>4

\* The browser has got the first j messages, and whole objects follow.
LEMMA DataGoesOn ==
    ASSUME IInv, TypeOK', tcp = "open", engineSent # <<>>, UNCHANGED <<ws, tcp, toEngine, far>>,
           NEW t \in Seq(RaceTypes), Send(t), hasStarted' = TRUE,
           NEW j \in 1 .. Len(engineSent), Relayed \o t = SubSeq(engineSent, 1, j),
           Follows(rawBuffer' \o stream', 0, j, engineSent), Len(rawBuffer') < 3
    PROVE  IInv'
<1>1. engine' = engine /\ engineSent' = engineSent /\ ws = "open"
  BY DEF far, IInv, InStep
<1>2. Relayed' = Relayed \o t /\ OneError' /\ \A e \in Errors : ~Heard(e)'
  BY <1>1, SaysRace DEF IInv
<1>3. Relayed' \in Seq(RaceTypes) /\ engineSent \in Seq(RaceTypes)
  <2>1. Relayed \in Seq(RaceTypes) /\ engineSent \in Seq(RaceTypes)
    BY RelayedTypes DEF IInv, TypeOK
  <2> QED
    BY <1>2, <2>1
<1>4. IsPrefix(Relayed', engineSent) /\ Len(Relayed') = j /\ Relayed' # <<>>
  <2>1. j \in 0 .. Len(engineSent) /\ j # 0
    BY <1>3
  <2>2. IsPrefix(Relayed', engineSent) /\ Len(Relayed') = j
    BY <1>2, <1>3, <2>1, PrefixIsPart
  <2>3. Relayed' = <<>> => Len(Relayed') = 0
    OBVIOUS
  <2> QED
    BY <2>1, <2>2, <2>3
<1>5. InStep'
  BY <1>1 DEF IInv, InStep
<1>6. Race'
  BY <1>1 DEF IInv, Race
<1>7. Underway'
  BY <1>1, <1>4 DEF Underway
<1>8. Told'
  <2>1. "rejected" \in Errors /\ "timeout" \in Errors
    BY DEF Errors
  <2> QED
    BY <1>1, <1>2, <1>4, <2>1, ToldHeardNext
<1> QED
  BY <1>2, <1>5, <1>6, <1>7, <1>8 DEF IInv

\* A piece has come while nothing of a race has been sent: it is the beginning of a rejection.
LEMMA PieceRejected ==
    ASSUME IInv, tcp = "open", stream # <<>>, engineSent = <<>>, NEW n \in 1 .. Len(stream)
    PROVE  Rejected(rawBuffer \o SubSeq(stream, 1, n))
<1>1. PICK r \in Rejections : ~hasStarted /\ rawBuffer = <<>> /\ stream = <<r, "LF">>
  BY DEF IInv, Underway
<1>2. PICK b, p : b = rawBuffer \o p /\ p = SubSeq(stream, 1, n)
  OBVIOUS
<1>3. stream \in Seq({r, "LF"}) /\ Len(stream) = 2 /\ stream[1] = r
  BY <1>1
<1>4. p \in Seq({r, "LF"}) /\ Len(p) = n /\ p[1] = r /\ n \in Nat /\ n >= 1
  BY <1>2, <1>3
<1>5. b = p
  BY <1>1, <1>2, <1>4
<1>6. r \in Range(b)
  <2>1. 1 \in DOMAIN b
    BY <1>4, <1>5
  <2> QED
    BY <1>4, <1>5, <2>1 DEF Range
<1>7. "lbrace" \notin Range(b)
  <2>1. \A i \in DOMAIN b : b[i] \in {r, "LF"}
    BY <1>4, <1>5
  <2>2. r # "lbrace"
    BY DEF Rejections
  <2> QED
    BY <2>1, <2>2 DEF Range
<1> QED
  BY <1>1, <1>2, <1>6, <1>7 DEF Rejected

\* Before its first object is complete the buffer of a race is its length alone, or holds a brace.
LEMMA PieceNotRejected ==
    ASSUME NEW T, NEW c \in Contents, NEW buffer \in Seq(T), Len(buffer) >= 1,
           \A k \in 1 .. Len(FirstOf(c)) : k <= Len(buffer) => buffer[k] = FirstOf(c)[k]
    PROVE  ~Rejected(buffer)
<1>1. Len(FirstOf(c)) \in Nat /\ Len(FirstOf(c)) >= 6 /\ FirstOf(c)[1] = "LEN" /\ FirstOf(c)[2] = "lbrace"
  BY FirstTokens
<1>2. CASE Len(buffer) = 1
  <2>1. buffer[1] = "LEN" /\ DOMAIN buffer = 1 .. 1
    BY <1>1, <1>2
  <2>2. Range(buffer) = {"LEN"}
    BY <2>1 DEF Range
  <2>3. "LEN" \notin Rejections
    BY DEF Rejections
  <2> QED
    BY <2>2, <2>3 DEF Rejected
<1>3. CASE Len(buffer) >= 2
  <2>1. buffer[2] = "lbrace" /\ 2 \in DOMAIN buffer
    BY <1>1, <1>3
  <2>2. "lbrace" \in Range(buffer)
    BY <2>1 DEF Range
  <2> QED
    BY <2>2 DEF Rejected
<1>4. Len(buffer) = 1 \/ Len(buffer) >= 2
  <2>1. PICK n : n = Len(buffer)
    OBVIOUS
  <2>2. n \in Nat /\ n >= 1
    BY <2>1
  <2>3. n = 1 \/ n >= 2
    BY <2>2
  <2> QED
    BY <2>1, <2>3
<1> QED
  BY <1>2, <1>3, <1>4

\* A piece is read: a rejection ends the session; of a race, the complete objects are relayed
\* and the rest is kept.
LEMMA DataKeeps ==
    ASSUME IInv, TypeOK', Data
    PROVE  IInv'
<1>1. tcp = "open" /\ stream # <<>> /\ UNCHANGED <<toEngine, far>>
  BY DEF Data
<1>2. PICK n \in 1 .. Min({ChunkMax, Len(stream)}) :
          LET buffer == rawBuffer \o SubSeq(stream, 1, n)
              found == Scan(buffer)[Len(buffer)]
          IN  \/ /\ Rejected(buffer)
                 /\ Send(<<"rejected">>) /\ Close /\ Destroy
                 /\ rawBuffer' = buffer /\ UNCHANGED hasStarted
              \/ /\ ~Rejected(buffer)
                 /\ stream' = SubSeq(stream, n + 1, Len(stream))
                 /\ rawBuffer' = Rest(buffer, found.end)
                 /\ Send(found.types)
                 /\ hasStarted' = (hasStarted \/ found.types # <<>>)
                 /\ TimeoutEnds(found.types)
                 /\ UNCHANGED <<ws, link>>
  BY DEF Data
<1>3. PICK buffer, found : buffer = rawBuffer \o SubSeq(stream, 1, n) /\ found = Scan(buffer)[Len(buffer)]
  OBVIOUS
<1>4. n \in 1 .. Len(stream) /\ buffer \in Seq(Tokens)
  BY <1>1, <1>3, PieceLength DEF IInv
<1>5. engineSent = <<>> => Rejected(buffer)
  BY <1>1, <1>3, <1>4, PieceRejected
<1>6. PICK whole : whole = rawBuffer \o stream
  OBVIOUS
<1>7. rawBuffer \in Seq(Tokens) /\ stream \in Seq(Tokens) /\ engineSent \in Seq(RaceTypes)
  BY DEF IInv, TypeOK
<1>8. /\ Len(buffer) \in Nat /\ Len(buffer) >= 1 /\ Len(buffer) <= Len(whole) /\ whole \in Seq(Tokens)
      /\ Len(buffer) = Len(rawBuffer) + n /\ \A k \in 1 .. Len(buffer) : buffer[k] = whole[k]
  <2>1. PICK z, kept, ahead, u : z = 0 /\ Moves(rawBuffer, stream, n, z, whole, buffer, kept, ahead, u)
    BY <1>3, <1>6 DEF Moves
  <2>2. z \in Nat /\ z <= Len(rawBuffer) + n
    BY <1>4, <1>7, <2>1
  <2>3. /\ whole \in Seq(Tokens) /\ Len(buffer) \in Nat /\ Len(buffer) = Len(rawBuffer) + n
        /\ Len(buffer) <= Len(whole) /\ \A k \in 1 .. Len(buffer) : buffer[k] = whole[k]
    <3>1. /\ rawBuffer \in Seq(Tokens) /\ stream \in Seq(Tokens) /\ n \in 1 .. Len(stream)
          /\ z \in Nat /\ z <= Len(rawBuffer) + n
          /\ Moves(rawBuffer, stream, n, z, whole, buffer, kept, ahead, u)
      BY <1>4, <1>7, <2>1, <2>2, Zenon
    <3> QED
      BY <3>1, PieceMoves
  <2>4. Len(buffer) >= 1
    BY <1>4, <1>7, <2>3
  <2> QED
    BY <2>3, <2>4
<1>9. CASE Rejected(buffer)
  <2>1. Send(<<"rejected">>) /\ Close /\ Destroy
    BY <1>2, <1>3, <1>9
  <2>2. engineSent = <<>>
    <3>1. ~hasStarted
      BY <1>9 DEF Rejected
    <3>2. SUFFICES ASSUME engineSent # <<>> PROVE FALSE
      OBVIOUS
    <3>3. PICK c \in Contents :
             /\ Follows(whole, Len(FirstOf(c)), 1, engineSent)
             /\ \A k \in 1 .. Len(FirstOf(c)) : whole[k] = FirstOf(c)[k]
      BY <1>1, <1>6, <3>1, <3>2 DEF IInv, Underway, FirstOf
    <3>4. \A k \in 1 .. Len(FirstOf(c)) : k <= Len(buffer) => buffer[k] = FirstOf(c)[k]
      BY <1>8, <3>3
    <3> QED
      BY <1>4, <1>8, <1>9, <3>4, PieceNotRejected
  <2>3. "rejected" \in Errors /\ "timeout" \in Errors /\ "timeout" # "rejected"
    BY DEF Errors
  <2>4. Relayed' = Relayed /\ OneError' /\ \A e \in Errors : Heard(e)' => Heard(e) \/ e = "rejected"
    BY <2>1, <2>3, SaysError DEF IInv
  <2>5. Heard("timeout") => Relayed = <<>>
    BY ToldHeard DEF IInv
  <2>6. tcp' = "destroyed"
    BY <2>1 DEF Destroy
  <2> QED
    BY <1>1, <2>2, <2>3, <2>4, <2>5, <2>6, LinkEnds
<1>10. CASE ~Rejected(buffer)
  <2>1. /\ stream' = SubSeq(stream, n + 1, Len(stream)) /\ rawBuffer' = Rest(buffer, found.end)
        /\ Send(found.types) /\ hasStarted' = (hasStarted \/ found.types # <<>>)
        /\ UNCHANGED <<ws, tcp>>
    BY <1>2, <1>3, <1>10 DEF link
  <2>2. engineSent # <<>>
    BY <1>5, <1>10
  <2>3. PICK g : g = Len(engineSent)
    OBVIOUS
  <2>4. /\ g \in Nat /\ g >= 2 /\ engineSent[1] = "LOBBY_STATE"
        /\ \A i \in 2 .. g : engineSent[i] \in Later
    BY <1>7, <2>2, <2>3 DEF IInv, Race, Later
  <2>5. found.types \in Seq(RaceTypes) /\ found.end \in Nat
    BY <1>3, <1>4, ScanTypes
  <2>6. PICK w : w = rawBuffer' \o stream'
    OBVIOUS
  <2>7. ASSUME found.end <= Len(buffer)
        PROVE  /\ w \in Seq(Tokens) /\ Len(w) = Len(whole) - found.end
               /\ \A k \in 1 .. Len(w) : w[k] = whole[found.end + k]
               /\ Len(rawBuffer') = Len(buffer) - found.end
    <3>1. PICK kept, ahead, e : kept = rawBuffer' /\ ahead = stream' /\ e = found.end
      OBVIOUS
    <3>2. Moves(rawBuffer, stream, n, e, whole, buffer, kept, ahead, w)
      BY <1>3, <1>6, <2>1, <2>6, <3>1 DEF Moves
    <3>3. e \in Nat /\ e <= Len(rawBuffer) + n
      BY <1>8, <2>5, <2>7, <3>1
    <3>4. /\ w \in Seq(Tokens) /\ Len(w) = Len(whole) - e
          /\ \A k \in 1 .. Len(w) : w[k] = whole[e + k]
          /\ Len(kept) = Len(buffer) - e
      BY <1>4, <1>7, <3>2, <3>3, PieceMoves
    <3> QED
      BY <3>1, <3>4
  <2>8. Relayed \in Seq(RaceTypes)
    BY RelayedTypes DEF IInv
  <2>9. ASSUME NEW m \in Nat, m >= 1, m <= g, NEW p \in Nat, p <= Len(buffer), Follows(whole, p, m, engineSent),
               NEW types \in Seq(RaceTypes), Between(Scan(buffer)[p], p, types),
               Relayed \o types = SubSeq(engineSent, 1, m), hasStarted \/ types # <<>>
        PROVE  IInv'
    <3>1. \A i \in m + 1 .. Len(engineSent) : engineSent[i] \in Later
      <4>1. ASSUME NEW i \in m + 1 .. Len(engineSent) PROVE i \in 2 .. g
        BY <2>3, <2>9
      <4> QED
        BY <2>4, <4>1
    <3>2. PICK q \in Nat :
             /\ m + q <= Len(engineSent)
             /\ Scan(buffer)[Len(buffer)].end = p + 3 * q
             /\ Scan(buffer)[Len(buffer)].types = types \o SubSeq(engineSent, m + 1, m + q)
             /\ p + 3 * q <= Len(buffer) /\ Len(buffer) - (p + 3 * q) < 3
      <4>1. /\ buffer \in Seq(Tokens) /\ whole \in Seq(Tokens) /\ Len(buffer) <= Len(whole)
            /\ \A k \in 1 .. Len(buffer) : buffer[k] = whole[k]
            /\ p \in Nat /\ p <= Len(buffer) /\ m \in Nat /\ engineSent \in Seq(RaceTypes) /\ m <= Len(engineSent)
            /\ Follows(whole, p, m, engineSent) /\ types \in Seq(RaceTypes) /\ Between(Scan(buffer)[p], p, types)
        BY <1>4, <1>7, <1>8, <2>3, <2>9
      <4> QED
        <5>1. PICK q \in Nat : Found(buffer, p, m, engineSent, types, q)
          BY <3>1, <4>1, ScanFollows
        <5> QED
          BY <5>1, Zenon DEF Found
    <3>3. PICK d, j, part : d = p + 3 * q /\ j = m + q /\ part = SubSeq(engineSent, m + 1, j)
      OBVIOUS
    <3>4. found.end = d /\ found.types = types \o part /\ d \in Nat /\ d <= Len(buffer) /\ Len(buffer) - d < 3
      <4>1. found.end = d /\ found.types = types \o part
        BY <1>3, <3>2, <3>3, Zenon
      <4>2. d \in Nat
        BY <3>3
      <4>3. d <= Len(buffer) /\ Len(buffer) - d < 3
        BY <3>2, <3>3, Zenon
      <4> QED
        BY <4>1, <4>2, <4>3
    <3>5. part \in Seq(RaceTypes)
      <4>1. ASSUME NEW i \in m + 1 .. j PROVE engineSent[i] \in RaceTypes
        <5>1. m + q <= g /\ j = m + q
          BY <2>3, <3>2, <3>3, Zenon
        <5>2. i \in 1 .. g
          BY <2>4, <4>1, <5>1
        <5>3. i \in 1 .. Len(engineSent)
          BY <2>3, <5>2
        <5> QED
          BY <1>7, <5>3
      <4>2. m + 1 \in Int /\ j \in Int
        BY <3>3
      <4> QED
        BY <3>3, <4>1, <4>2, SubSeqProperties
    <3>6. Relayed \o found.types = SubSeq(engineSent, 1, j)
      <4>1. (Relayed \o types) \o part = Relayed \o (types \o part)
        <5>1. types \in Seq(RaceTypes)
          BY Zenon
        <5> QED
          BY <2>8, <3>5, <5>1, ConcatAssociative, SMTT(30)
      <4>2. /\ 1 \in 1 .. Len(engineSent) + 1 /\ m \in 1 - 1 .. Len(engineSent)
            /\ j \in m .. Len(engineSent)
        <5>1. m + q <= g /\ j = m + q
          BY <2>3, <3>2, <3>3
        <5>2. 1 \in 1 .. g + 1 /\ m \in 1 - 1 .. g /\ j \in m .. g
          BY <2>4, <2>9, <5>1
        <5> QED
          BY <2>3, <5>2
      <4>3. SubSeq(engineSent, 1, m) \o SubSeq(engineSent, m + 1, j) = SubSeq(engineSent, 1, j)
        BY <1>7, <4>2, ConcatAdjacentSubSeq
      <4> QED
        BY <2>9, <3>3, <3>4, <4>1, <4>3, Zenon
    <3>7. hasStarted' = TRUE
      <4>1. CASE hasStarted
        BY <2>1, <4>1
      <4>2. CASE types # <<>>
        <5>1. found.types # <<>>
          <6>1. Len(types \o part) = Len(types) + Len(part) /\ Len(types) \in Nat /\ Len(part) \in Nat
            BY <3>5
          <6>2. Len(types) # 0
            BY <4>2
          <6> QED
            BY <3>4, <6>1, <6>2
        <5> QED
          BY <2>1, <5>1
      <4> QED
        BY <2>9, <4>1, <4>2
    <3>8. /\ w \in Seq(Tokens) /\ Len(w) = Len(whole) - d
          /\ \A k \in 1 .. Len(w) : w[k] = whole[d + k]
          /\ Len(rawBuffer') = Len(buffer) - d
      BY <2>7, <3>4
    <3>9. Follows(w, 0, m + q, engineSent)
      <4>1. whole \in Seq(Tokens) /\ w \in Seq(Tokens) /\ engineSent \in Seq(RaceTypes)
        BY <1>7, <1>8, <3>8, Zenon
      <4>2. m + q <= Len(engineSent) /\ Follows(whole, p, m, engineSent)
        BY <2>9, <3>2, Zenon
      <4>3. d \in Nat /\ d = p + 3 * q
        BY <3>3, <3>4, Zenon
      <4>4. Shrinks(whole, p, m, engineSent, q, w, d)
        BY <3>8, <4>2, <4>3, Zenon DEF Shrinks
      <4> QED
        BY <4>1, <4>3, <4>4, ListShrinks
    <3>10. Follows(rawBuffer' \o stream', 0, j, engineSent) /\ Len(rawBuffer') < 3
      BY <2>6, <3>3, <3>4, <3>8, <3>9
    <3>11. j \in 1 .. Len(engineSent)
      BY <2>3, <2>4, <2>9, <3>2, <3>3
    <3> QED
      BY <1>1, <2>1, <2>2, <2>5, <3>6, <3>7, <3>10, <3>11, DataGoesOn
  <2>10. CASE hasStarted
    <3>1. /\ Follows(whole, 0, Len(Relayed), engineSent) /\ Relayed # <<>> /\ IsPrefix(Relayed, engineSent)
      BY <1>1, <1>6, <2>10 DEF IInv, Underway, Told
    <3>2. PICK m, none, z : m = Len(Relayed) /\ none = <<>> /\ z = 0
      OBVIOUS
    <3>3. m \in Nat /\ m >= 1 /\ m <= g /\ Relayed = SubSeq(engineSent, 1, m)
      <4>1. Relayed = SubSeq(engineSent, 1, Len(Relayed)) /\ Len(Relayed) <= Len(engineSent)
        BY <1>7, <2>8, <3>1, PrefixIsPart
      <4>2. Len(Relayed) \in Nat /\ Len(Relayed) # 0
        BY <2>8, <3>1
      <4> QED
        BY <2>3, <3>2, <4>1, <4>2
    <3>4. Relayed \o none = SubSeq(engineSent, 1, m)
      BY <2>8, <3>2, <3>3
    <3>5. Between(Scan(buffer)[z], z, none)
      <4>1. Scan(buffer)[0] = Nothing
        BY <1>4, ScanRounds
      <4> QED
        BY <3>2, <4>1 DEF Between, Nothing
    <3>6. none \in Seq(RaceTypes) /\ z \in Nat /\ z <= Len(buffer) /\ Follows(whole, z, m, engineSent)
      BY <1>8, <3>1, <3>2
    <3> QED
      BY <2>9, <2>10, <3>3, <3>4, <3>5, <3>6
  <2>11. CASE ~hasStarted
    <3>1. PICK c \in Contents :
             /\ Follows(whole, Len(FirstOf(c)), 1, engineSent)
             /\ \A k \in 1 .. Len(FirstOf(c)) : whole[k] = FirstOf(c)[k]
             /\ Len(rawBuffer) < Len(FirstOf(c))
      BY <1>1, <1>6, <2>2, <2>11 DEF IInv, Underway, FirstOf
    <3>2. Relayed = <<>>
      BY <1>1, <2>11 DEF IInv, Told
    <3>3. PICK l, f : l = Len(f) /\ f = FirstOf(c)
      OBVIOUS
    <3>4. l \in Nat /\ l >= 6
      BY <3>3, FirstTokens
    <3>5. \A k \in 1 .. Len(FirstOf(c)) : k <= Len(buffer) => buffer[k] = FirstOf(c)[k]
      BY <1>8, <3>1
    <3>6. /\ Len(buffer) < l => found.end = 0 /\ found.types = <<>>
          /\ Len(buffer) >= l => Between(Scan(buffer)[l], l, <<"LOBBY_STATE">>)
      BY <1>3, <1>4, <3>3, <3>5, FirstScan
    <3>7. CASE Len(buffer) >= l
      <4>1. PICK one, m : one = <<"LOBBY_STATE">> /\ m = 1
        OBVIOUS
      <4>2. one \in Seq(RaceTypes) /\ one # <<>> /\ one[1] = "LOBBY_STATE" /\ Len(one) = 1
        <5>1. "LOBBY_STATE" \in RaceTypes
          BY DEF RaceTypes
        <5> QED
          BY <4>1, <5>1
      <4>3. Relayed \o one = SubSeq(engineSent, 1, m)
        <5>1. Relayed \o one = one
          BY <3>2, <4>2
        <5>2. PICK a : a = SubSeq(engineSent, 1, m)
          OBVIOUS
        <5>3. a \in Seq(RaceTypes) /\ Len(a) = 1 /\ a[1] = "LOBBY_STATE"
          BY <1>7, <2>3, <2>4, <4>1, <5>2
        <5>4. a = one
          BY <4>2, <5>3
        <5> QED
          BY <5>1, <5>2, <5>4
      <4>4. m \in Nat /\ m >= 1 /\ m <= g /\ l <= Len(buffer)
        BY <1>8, <2>4, <3>4, <3>7, <4>1
      <4>5. Follows(whole, l, m, engineSent) /\ Between(Scan(buffer)[l], l, one)
        BY <3>1, <3>3, <3>6, <3>7, <4>1
      <4> QED
        BY <2>9, <3>4, <4>2, <4>3, <4>4, <4>5
    <3>8. CASE Len(buffer) < l
      <4>1. found.end = 0 /\ found.types = <<>>
        BY <3>6, <3>8
      <4>2. /\ w \in Seq(Tokens) /\ Len(w) = Len(whole) - 0
            /\ \A k \in 1 .. Len(w) : w[k] = whole[0 + k]
            /\ Len(rawBuffer') = Len(buffer) - 0
        BY <1>8, <2>7, <4>1
      <4>3. w = whole /\ Len(rawBuffer') = Len(buffer)
        <5>1. Len(w) = Len(whole) /\ Len(whole) \in Nat /\ \A k \in 1 .. Len(w) : w[k] = whole[k]
          BY <1>8, <4>2
        <5>2. Len(rawBuffer') = Len(buffer)
          BY <1>8, <4>2
        <5> QED
          BY <1>8, <4>2, <5>1, <5>2, SeqEqual
      <4>4. engine' = engine /\ engineSent' = engineSent /\ ws = "open" /\ hasStarted' = FALSE
        BY <1>1, <2>1, <2>11, <4>1 DEF far, IInv, InStep
      <4>5. Relayed' = Relayed \o <<>> /\ OneError' /\ \A e \in Errors : ~Heard(e)'
        BY <2>1, <2>5, <4>1, <4>4, SaysRace DEF IInv
      <4>6. Relayed' = <<>>
        <5>1. Relayed \o <<>> = Relayed
          BY <2>8, ConcatEmptySeq
        <5> QED
          BY <3>2, <4>5, <5>1
      <4>7. InStep'
        BY <1>1, <2>1, <4>4 DEF IInv, InStep
      <4>8. Race'
        BY <4>4 DEF IInv, Race
      <4>9. Underway'
        <5>1. \E d \in Contents :
                 LET now == rawBuffer' \o stream'
                     first == <<"LEN">> \o StateObject(d)
                 IN  /\ Follows(now, Len(first), 1, engineSent')
                     /\ \A k \in 1 .. Len(first) : now[k] = first[k]
                     /\ Len(rawBuffer') < Len(first)
          BY <2>6, <3>1, <3>3, <3>8, <4>3, <4>4 DEF FirstOf
        <5> QED
          BY <2>2, <4>4, <5>1 DEF Underway
      <4>10. Told'
        <5>1. "rejected" \in Errors /\ "timeout" \in Errors
          BY DEF Errors
        <5>2. IsPrefix(Relayed', engineSent')
          BY <1>7, <4>4, <4>6, PrefixNothing
        <5> QED
          BY <4>5, <4>6, <5>1, <5>2, ToldHeardNext
      <4> QED
        BY <4>5, <4>7, <4>8, <4>9, <4>10 DEF IInv
    <3> QED
      BY <1>8, <3>4, <3>7, <3>8
  <2> QED
    BY <2>10, <2>11
<1> QED
  BY <1>9, <1>10

-----------------------------------------------------------------------------
(* The theorems. *)

\* A session starts with nothing sent.
LEMMA InitInvariant == Init => IInv
<1> SUFFICES ASSUME Init PROVE IInv
  OBVIOUS
<1>1. TypeOK
  BY InitTypes
<1>2. InStep /\ Race /\ Underway /\ OneError
  <2>1. InStep /\ Race /\ Underway
    BY DEF Init, InStep, Race, Underway
  <2>2. OneError
    BY DEF Init, OneError
  <2> QED
    BY <2>1, <2>2
<1>3. Told
  <2>1. Relayed = <<>>
    BY RaceOfNothing DEF Init, Relayed, RaceOf
  <2>2. IsPrefix(Relayed, engineSent)
    <3>1. engineSent \in Seq(RaceTypes)
      BY <1>1 DEF TypeOK
    <3> QED
      BY <2>1, <3>1, PrefixNothing
  <2>3. engineSent = <<>>
    BY DEF Init
  <2> QED
    BY <2>1, <2>2, <2>3, ToldHeard
<1> QED
  BY <1>1, <1>2, <1>3 DEF IInv

\* Every step keeps the invariant.
LEMMA NextInvariant ==
    ASSUME IInv, [Next]_vars
    PROVE  IInv'
<1>1. TypeOK'
  BY NextTypes DEF IInv
<1>2. CASE Connected
  BY <1>1, <1>2, ConnectedKeeps
<1>3. CASE Timeout
  BY <1>1, <1>3, TimeoutKeeps
<1>4. CASE Data
  BY <1>1, <1>4, DataKeeps
<1>5. CASE TcpError \/ TcpEnd \/ WsClose
  BY <1>1, <1>5, EndsKeep
<1>6. CASE Message
  BY <1>1, <1>6, MessageKeeps
<1>7. CASE Heartbeat \/ Idle \/ MessageAgain \/ EngineSeats \/ EngineLeaves \/ UNCHANGED vars
  BY <1>1, <1>7, OthersKeep
<1>8. CASE EngineRejects
  BY <1>1, <1>8, RejectsKeeps
<1>9. CASE EngineStarts
  BY <1>1, <1>9, StartsKeeps
<1>10. Progress = ObjectOf("PROGRESS_UPDATE") /\ Times = ObjectOf("RACE_RESULTS")
       /\ "PROGRESS_UPDATE" \in Later /\ "RACE_RESULTS" \in Later
  BY DEF Progress, Times, ObjectOf, KeyOf, Later
<1>11. engine \in {"racing", "finished"} => engineSent # <<>>
  BY DEF IInv, InStep
<1>12. CASE EngineUpdates
  <2>1. /\ engineSent # <<>> /\ tcp = "open" /\ Emits(Progress) /\ UNCHANGED engineFrame
        /\ engineSent' = Append(engineSent, "PROGRESS_UPDATE") /\ engine' \in {"racing", "finished"}
    BY <1>11, <1>12 DEF EngineUpdates
  <2> QED
    BY <1>1, <1>10, <2>1, SendsKeeps
<1>13. CASE EngineResults
  <2>1. /\ engineSent # <<>> /\ tcp = "open" /\ Emits(Times) /\ UNCHANGED engineFrame
        /\ engineSent' = Append(engineSent, "RACE_RESULTS") /\ engine' \in {"racing", "finished"}
    BY <1>11, <1>13 DEF EngineResults
  <2> QED
    BY <1>1, <1>10, <2>1, SendsKeeps
<1> QED
  BY <1>2, <1>3, <1>4, <1>5, <1>6, <1>7, <1>8, <1>9, <1>12, <1>13 DEF Next, Handlers, Engine, Over

\* The inductive invariant: what has been read and not yet relayed, with what is on its way, is
\* what the engine has sent and the browser has not got (the handler of 'data', its buffer and
\* its brace counter), and errors end a session.
THEOREM Invariance == Spec => []IInv
<1>1. IInv /\ [Next]_vars => IInv'
  BY NextInvariant
<1> QED
  BY <1>1, InitInvariant, PTL DEF Spec

\* Whatever the sentence of a race holds and however TCP cuts the stream, the browser gets the
\* engine's messages in order, each once, and has got every one when all has been read (the brace
\* counter of the handler of 'data').
THEOREM RelaysAll == Spec => []RelaysInOrder
<1>1. IInv => RelaysInOrder
  <2> SUFFICES ASSUME IInv PROVE RelaysInOrder
    OBVIOUS
  <2>1. IsPrefix(Relayed, engineSent)
    BY DEF IInv, Told
  <2>2. Relayed \in Seq(RaceTypes) /\ engineSent \in Seq(RaceTypes) /\ rawBuffer \in Seq(Tokens)
    BY RelayedTypes DEF IInv, TypeOK
  <2>3. Relayed = SubSeq(engineSent, 1, Len(Relayed)) /\ Len(Relayed) <= Len(engineSent)
    BY <2>1, <2>2, PrefixIsPart
  <2>4. PICK m, g, r : m = Len(Relayed) /\ g = Len(engineSent) /\ r = Len(rawBuffer)
    OBVIOUS
  <2>5. m \in Nat /\ g \in Nat /\ m <= g /\ r \in Nat
    BY <2>2, <2>3, <2>4
  <2>6. ASSUME tcp = "open", stream = <<>> PROVE g = m
    <3>1. rawBuffer \o stream = rawBuffer
      BY <2>2, <2>6, ConcatEmptySeq
    <3>2. CASE engineSent = <<>>
      BY <2>4, <2>5, <3>2
    <3>3. CASE engineSent # <<>> /\ ~hasStarted
      <4>1. PICK c \in Contents : Follows(rawBuffer, Len(FirstOf(c)), 1, engineSent) /\ r < Len(FirstOf(c))
        BY <2>4, <2>6, <3>1, <3>3 DEF IInv, Underway, FirstOf
      <4>2. PICK l : l = Len(FirstOf(c))
        OBVIOUS
      <4>3. l \in Nat /\ g >= 2
        BY <2>4, <3>3, <4>2, FirstTokens DEF IInv, Race
      <4>4. r = l + 3 * (g - 1) /\ r < l
        BY <2>4, <4>1, <4>2 DEF Follows
      <4> QED
        BY <2>5, <4>3, <4>4
    <3>4. CASE engineSent # <<>> /\ hasStarted
      <4>1. r = 0 + 3 * (g - m) /\ r < 3
        BY <2>4, <2>6, <3>1, <3>4 DEF IInv, Underway, Follows
      <4> QED
        BY <2>5, <4>1
    <3> QED
      BY <3>2, <3>3, <3>4
  <2>7. SubSeq(engineSent, 1, g) = engineSent
    BY <2>2, <2>4, SubSeqFull
  <2> QED
    BY <2>1, <2>3, <2>4, <2>6, <2>7 DEF RelaysInOrder
<1> QED
  BY <1>1, Invariance, PTL

\* A browser is told of at most one error, as the last thing it is told, and its session is being
\* closed (the rejection and the timeout in gateway.js, and the handler of 'error').
THEOREM OneErrorLast == Spec => []OneError
<1>1. IInv => OneError
  BY DEF IInv
<1> QED
  BY <1>1, Invariance, PTL

\* Who was told that the lobby has timed out got nothing of a race, and only who was turned away
\* is told so, whatever the sentence holds (hasStarted, and the test for a rejection).
THEOREM ToldApart == Spec => []LobbyOrRace
<1>1. IInv => LobbyOrRace
  <2> SUFFICES ASSUME IInv, NEW i \in DOMAIN toBrowser
               PROVE  /\ toBrowser[i] = "timeout" => Relayed = <<>>
                      /\ toBrowser[i] = "rejected" => engineSent = <<>>
    BY DEF LobbyOrRace
  <2>1. /\ Heard("rejected") => engineSent = <<>>
        /\ Heard("timeout") => Relayed = <<>>
    BY ToldHeard DEF IInv
  <2> QED
    BY <2>1 DEF Heard
<1> QED
  BY <1>1, Invariance, PTL
=============================================================================
