---------------------------- MODULE WordsProofs ----------------------------
(***************************************************************************)
(* Proofs about Words for every text: the loops are well defined, and the  *)
(* engine counts exactly the words into which the client splits a text.    *)
(* A loop over the characters is a function of the places passed, so what  *)
(* it computes is shown by induction over those places.                    *)
(***************************************************************************)
EXTENDS Words, LoopProofs, SequenceTheorems

-----------------------------------------------------------------------------
(* The loops of countWords, parseSentence and getRemainingChars. *)

Counts == [inWord : BOOLEAN, count : Nat]
Splits(T) == [words : Seq(Seq(T)), word : Seq(T)]

\* What the loop of countWords knows after each character.
LEMMA CountRounds ==
    ASSUME NEW T, NEW s \in Seq(T)
    PROVE  /\ CountUpTo(s) \in [0 .. Len(s) -> Counts]
           /\ CountUpTo(s)[0] = [inWord |-> FALSE, count |-> 0]
           /\ \A k \in 1 .. Len(s) :
                 CountUpTo(s)[k] =
                     IF s[k] \in Blanks THEN [inWord |-> FALSE, count |-> CountUpTo(s)[k - 1].count]
                     ELSE [inWord |-> TRUE, count |-> CountUpTo(s)[k - 1].count
                                + (IF CountUpTo(s)[k - 1].inWord THEN 0 ELSE 1)]
<1> DEFINE Next(a, k) ==
               IF s[k] \in Blanks THEN [inWord |-> FALSE, count |-> a.count]
               ELSE [inWord |-> TRUE, count |-> a.count + (IF a.inWord THEN 0 ELSE 1)]
           zero == [inWord |-> FALSE, count |-> 0]
           step == [p \in Counts \X (1 .. Len(s)) |-> Next(p[1], p[2])]
           Eqn(g) == g = [k \in 0 .. Len(s) |-> IF k = 0 THEN zero ELSE Next(g[k - 1], k)]
<1>1. step \in [Counts \X (1 .. Len(s)) -> Counts] /\ zero \in Counts /\ Len(s) \in Nat
  BY DEF Counts
<1>2. PICK f : Rounds(f, Counts, zero, Len(s), step)
  <2> HIDE DEF step, zero
  <2> QED
    BY <1>1, RoundsExist
<1>3. \A k \in 1 .. Len(s) : f[k] = Next(f[k - 1], k)
  <2> TAKE k \in 1 .. Len(s)
  <2>1. f[k] = step[<<f[k - 1], k>>] /\ f[k - 1] \in Counts
    <3>1. k - 1 \in 0 .. Len(s)
      BY <1>1
    <3> HIDE DEF step, zero
    <3> QED
      BY <1>2, <3>1 DEF Rounds
  <2> QED
    BY <2>1
<1>4. f \in [0 .. Len(s) -> Counts] /\ f[0] = zero
  BY <1>2 DEF Rounds
<1> HIDE DEF Next
<1>5. Eqn(f)
  BY <1>3, <1>4
<1>6. CountUpTo(s) = CHOOSE g : Eqn(g)
  BY DEF CountUpTo, Next
<1>7. Eqn(CountUpTo(s))
  <2> HIDE DEF Eqn
  <2> QED
    BY <1>5, <1>6
<1>8. PICK c : c = CountUpTo(s)
  OBVIOUS
<1>9. /\ c[0] = zero /\ \A k \in 1 .. Len(s) : c[k] = Next(c[k - 1], k)
      /\ c = [k \in 0 .. Len(s) |-> c[k]]
  <2> HIDE DEF zero
  <2> QED
    BY <1>1, <1>7, <1>8
<1>10. \A k \in 0 .. Len(s) : c[k] \in Counts
  <2>1. ASSUME NEW k \in 1 .. Len(s), c[k - 1] \in Counts PROVE c[k] \in Counts
    <3>1. PICK a : a = c[k - 1]
      OBVIOUS
    <3>2. a.count \in Nat /\ a.inWord \in BOOLEAN
      BY <2>1, <3>1 DEF Counts
    <3>3. Next(a, k) \in Counts
      BY <3>2 DEF Next, Counts
    <3> QED
      BY <1>9, <3>1, <3>3
  <2> HIDE DEF zero
  <2> QED
    BY <1>1, <1>9, <2>1, RoundsKeep
<1>11. c \in [0 .. Len(s) -> Counts]
  BY <1>9, <1>10
<1> QED
  BY <1>8, <1>9, <1>11 DEF Next

\* What the loop of parseSentence has after each character.
LEMMA SplitRounds ==
    ASSUME NEW T, NEW s \in Seq(T)
    PROVE  /\ SplitUpTo(s) \in [0 .. Len(s) -> Splits(T)]
           /\ SplitUpTo(s)[0] = [words |-> <<>>, word |-> <<>>]
           /\ \A k \in 1 .. Len(s) :
                 SplitUpTo(s)[k] =
                     IF s[k] \notin Delimiters
                     THEN [words |-> SplitUpTo(s)[k - 1].words,
                           word |-> Append(SplitUpTo(s)[k - 1].word, s[k])]
                     ELSE IF SplitUpTo(s)[k - 1].word = <<>> THEN SplitUpTo(s)[k - 1]
                     ELSE [words |-> Append(SplitUpTo(s)[k - 1].words, SplitUpTo(s)[k - 1].word),
                           word |-> <<>>]
<1> DEFINE Next(a, k) ==
               IF s[k] \notin Delimiters THEN [words |-> a.words, word |-> Append(a.word, s[k])]
               ELSE IF a.word = <<>> THEN a
               ELSE [words |-> Append(a.words, a.word), word |-> <<>>]
           zero == [words |-> <<>>, word |-> <<>>]
           step == [p \in Splits(T) \X (1 .. Len(s)) |-> Next(p[1], p[2])]
           Eqn(g) == g = [k \in 0 .. Len(s) |-> IF k = 0 THEN zero ELSE Next(g[k - 1], k)]
<1>1. Len(s) \in Nat /\ zero \in Splits(T)
  BY DEF Splits
<1>2. ASSUME NEW a \in Splits(T), NEW k \in 1 .. Len(s) PROVE Next(a, k) \in Splits(T)
  <2>1. a.words \in Seq(Seq(T)) /\ a.word \in Seq(T) /\ s[k] \in T
    BY DEF Splits
  <2>2. Append(a.word, s[k]) \in Seq(T) /\ Append(a.words, a.word) \in Seq(Seq(T))
    BY <2>1
  <2> QED
    BY <2>1, <2>2 DEF Splits
<1> HIDE DEF zero
<1>3. step \in [Splits(T) \X (1 .. Len(s)) -> Splits(T)]
  <2> HIDE DEF Next
  <2> QED
    BY <1>2
<1>4. PICK f : Rounds(f, Splits(T), zero, Len(s), step)
  <2> HIDE DEF step
  <2> QED
    BY <1>1, <1>3, RoundsExist
<1> HIDE DEF Next
<1>5. \A k \in 1 .. Len(s) : f[k] = Next(f[k - 1], k)
  <2> TAKE k \in 1 .. Len(s)
  <2>1. f[k] = step[<<f[k - 1], k>>] /\ f[k - 1] \in Splits(T)
    <3>1. k - 1 \in 0 .. Len(s)
      BY <1>1
    <3> HIDE DEF step
    <3> QED
      BY <1>4, <3>1 DEF Rounds
  <2> QED
    BY <2>1
<1>6. f \in [0 .. Len(s) -> Splits(T)] /\ f[0] = zero
  BY <1>4 DEF Rounds
<1>7. Eqn(f)
  BY <1>5, <1>6
<1>8. SplitUpTo(s) = CHOOSE g : Eqn(g)
  BY DEF SplitUpTo, Next, zero
<1>9. Eqn(SplitUpTo(s))
  <2> HIDE DEF Eqn
  <2> QED
    BY <1>7, <1>8
<1>10. PICK c : c = SplitUpTo(s)
  OBVIOUS
<1>11. /\ c[0] = zero /\ \A k \in 1 .. Len(s) : c[k] = Next(c[k - 1], k)
       /\ c = [k \in 0 .. Len(s) |-> c[k]]
  BY <1>1, <1>9, <1>10
<1>12. \A k \in 0 .. Len(s) : c[k] \in Splits(T)
  <2>1. \A k \in 1 .. Len(s) : c[k - 1] \in Splits(T) => c[k] \in Splits(T)
    BY <1>2, <1>11
  <2> QED
    BY <1>1, <1>11, <2>1, RoundsKeep
<1>13. c \in [0 .. Len(s) -> Splits(T)]
  BY <1>11, <1>12
<1> QED
  BY <1>10, <1>11, <1>13 DEF Next, zero

\* The characters of the first words, summed word by word.
LEMMA CharsRounds ==
    ASSUME NEW T, NEW ws \in Seq(Seq(T))
    PROVE  /\ CharsUpTo(ws) \in [0 .. Len(ws) -> Nat]
           /\ CharsUpTo(ws)[0] = 0
           /\ \A k \in 1 .. Len(ws) : CharsUpTo(ws)[k] = CharsUpTo(ws)[k - 1] + Len(ws[k])
<1> DEFINE Next(a, k) == a + Len(ws[k])
           step == [p \in Nat \X (1 .. Len(ws)) |-> Next(p[1], p[2])]
           Eqn(g) == g = [k \in 0 .. Len(ws) |-> IF k = 0 THEN 0 ELSE Next(g[k - 1], k)]
<1>1. Len(ws) \in Nat
  OBVIOUS
<1>2. ASSUME NEW a \in Nat, NEW k \in 1 .. Len(ws) PROVE Next(a, k) \in Nat
  <2>1. ws[k] \in Seq(T)
    OBVIOUS
  <2> QED
    BY <2>1
<1> HIDE DEF Next
<1>3. step \in [Nat \X (1 .. Len(ws)) -> Nat]
  BY <1>2
<1>4. PICK f : Rounds(f, Nat, 0, Len(ws), step)
  <2> HIDE DEF step
  <2> QED
    BY <1>1, <1>3, RoundsExist
<1>5. \A k \in 1 .. Len(ws) : f[k] = Next(f[k - 1], k)
  <2> TAKE k \in 1 .. Len(ws)
  <2>1. f[k] = step[<<f[k - 1], k>>] /\ f[k - 1] \in Nat
    <3>1. k - 1 \in 0 .. Len(ws)
      BY <1>1
    <3> HIDE DEF step
    <3> QED
      BY <1>4, <3>1 DEF Rounds
  <2> QED
    BY <2>1
<1>6. f \in [0 .. Len(ws) -> Nat] /\ f[0] = 0
  BY <1>4 DEF Rounds
<1>7. Eqn(f)
  BY <1>5, <1>6
<1>8. CharsUpTo(ws) = CHOOSE g : Eqn(g)
  BY DEF CharsUpTo, Next
<1>9. Eqn(CharsUpTo(ws))
  <2> HIDE DEF Eqn
  <2> QED
    BY <1>7, <1>8
<1>10. PICK c : c = CharsUpTo(ws)
  OBVIOUS
<1>11. /\ c[0] = 0 /\ \A k \in 1 .. Len(ws) : c[k] = Next(c[k - 1], k)
       /\ c = [k \in 0 .. Len(ws) |-> c[k]]
  <2>1. c = [k \in 0 .. Len(ws) |-> IF k = 0 THEN 0 ELSE Next(c[k - 1], k)]
    BY <1>9, <1>10
  <2>2. PICK n : n = Len(ws)
    OBVIOUS
  <2>3. \A k \in 0 .. n : c[k] = IF k = 0 THEN 0 ELSE Next(c[k - 1], k)
    BY <2>1, <2>2, Zenon
  <2>4. 0 \in 0 .. n /\ \A k \in 1 .. n : k \in 0 .. n /\ k # 0
    BY <1>1, <2>2
  <2>5. c[0] = 0 /\ \A k \in 1 .. n : c[k] = Next(c[k - 1], k)
    BY <2>3, <2>4
  <2>6. c = [k \in 0 .. n |-> c[k]]
    BY <2>1, <2>2, <2>3, Zenon
  <2> QED
    BY <2>2, <2>5, <2>6
<1>12. \A k \in 0 .. Len(ws) : c[k] \in Nat
  <2>1. \A k \in 1 .. Len(ws) : c[k - 1] \in Nat => c[k] \in Nat
    BY <1>2, <1>11
  <2>2. PICK X, n : X = Nat /\ n = Len(ws)
    OBVIOUS
  <2>3. c[0] \in X /\ n \in Nat
    BY <1>1, <1>11, <2>2
  <2>5. \A k \in 1 .. n : c[k - 1] \in X => c[k] \in X
    BY <2>1, <2>2
  <2>4. \A k \in 0 .. n : c[k] \in X
    BY <2>3, <2>5, RoundsKeep
  <2> QED
    BY <2>2, <2>4
<1>13. c \in [0 .. Len(ws) -> Nat]
  BY <1>11, <1>12
<1> QED
  BY <1>10, <1>11, <1>13 DEF Next

-----------------------------------------------------------------------------
(* The two programs agree on the words of a text. *)

\* Both loops are in a word at the same characters, and one has begun as many words as the
\* other has collected, the open one counted; no collected word is empty.
LEMMA LoopsInStep ==
    ASSUME NEW T, NEW s \in Seq(T), NEW k \in 0 .. Len(s)
    PROVE  LET c == CountUpTo(s)[k]
               p == SplitUpTo(s)[k]
           IN  /\ c.inWord <=> p.word # <<>>
               /\ c.count = Len(p.words) + (IF p.word = <<>> THEN 0 ELSE 1)
               /\ \A i \in 1 .. Len(p.words) : p.words[i] # <<>>
<1>1. PICK c, p : c = CountUpTo(s) /\ p = SplitUpTo(s)
  OBVIOUS
<1>2. /\ c \in [0 .. Len(s) -> Counts] /\ c[0] = [inWord |-> FALSE, count |-> 0]
      /\ \A m \in 1 .. Len(s) :
            c[m] = IF s[m] \in Blanks THEN [inWord |-> FALSE, count |-> c[m - 1].count]
                   ELSE [inWord |-> TRUE, count |-> c[m - 1].count + (IF c[m - 1].inWord THEN 0 ELSE 1)]
  BY <1>1, CountRounds
<1>3. /\ p \in [0 .. Len(s) -> Splits(T)] /\ p[0] = [words |-> <<>>, word |-> <<>>]
      /\ \A m \in 1 .. Len(s) :
            p[m] = IF s[m] \notin Delimiters
                   THEN [words |-> p[m - 1].words, word |-> Append(p[m - 1].word, s[m])]
                   ELSE IF p[m - 1].word = <<>> THEN p[m - 1]
                   ELSE [words |-> Append(p[m - 1].words, p[m - 1].word), word |-> <<>>]
  BY <1>1, SplitRounds
<1> DEFINE Inv(m) == /\ c[m].inWord <=> p[m].word # <<>>
                     /\ c[m].count = Len(p[m].words) + (IF p[m].word = <<>> THEN 0 ELSE 1)
                     /\ \A i \in 1 .. Len(p[m].words) : p[m].words[i] # <<>>
           S == {m \in Nat : m <= Len(s) => Inv(m)}
<1>4. Inv(0)
  BY <1>2, <1>3
<1>5. ASSUME NEW m \in 1 .. Len(s), Inv(m - 1) PROVE Inv(m)
  <2>1. PICK d, q : d = c[m - 1] /\ q = p[m - 1]
    OBVIOUS
  <2>2. d \in Counts /\ q \in Splits(T) /\ s[m] \in T
    <3>1. m - 1 \in 0 .. Len(s)
      OBVIOUS
    <3> QED
      BY <1>2, <1>3, <2>1, <3>1
  <2>3. q.words \in Seq(Seq(T)) /\ q.word \in Seq(T) /\ d.count \in Nat /\ d.inWord \in BOOLEAN
    BY <2>2 DEF Counts, Splits
  <2>4. /\ d.inWord <=> q.word # <<>>
        /\ d.count = Len(q.words) + (IF q.word = <<>> THEN 0 ELSE 1)
        /\ \A i \in 1 .. Len(q.words) : q.words[i] # <<>>
    BY <1>5, <2>1
  <2>5. s[m] \in Blanks <=> s[m] \in Delimiters
    BY DEF Blanks, Delimiters
  <2>6. CASE s[m] \notin Delimiters
    <3>1. c[m] = [inWord |-> TRUE, count |-> d.count + (IF d.inWord THEN 0 ELSE 1)]
      BY <1>2, <2>1, <2>5, <2>6
    <3>2. p[m] = [words |-> q.words, word |-> Append(q.word, s[m])]
      BY <1>3, <2>1, <2>6
    <3>3. Append(q.word, s[m]) # <<>>
      <4>1. PICK w : w = Append(q.word, s[m])
        OBVIOUS
      <4>2. Len(w) = Len(q.word) + 1 /\ Len(q.word) \in Nat
        BY <2>2, <2>3, <4>1
      <4>3. Len(w) # 0
        BY <4>2
      <4>4. w # <<>>
        BY <4>3
      <4> QED
        BY <4>1, <4>4
    <3>4. /\ c[m].inWord /\ c[m].count = d.count + (IF d.inWord THEN 0 ELSE 1)
          /\ p[m].words = q.words /\ p[m].word # <<>>
      BY <3>1, <3>2, <3>3
    <3>5. c[m].count = Len(q.words) + 1
      <4>1. CASE q.word = <<>>
        <5>1. d.count = Len(q.words) + 0 /\ ~d.inWord
          BY <2>4, <4>1
        <5>2. Len(q.words) \in Nat
          BY <2>3
        <5> QED
          BY <3>4, <5>1, <5>2
      <4>2. CASE q.word # <<>>
        <5>1. d.count = Len(q.words) + 1 /\ d.inWord
          BY <2>4, <4>2
        <5> QED
          BY <2>3, <3>4, <5>1
      <4> QED
        BY <4>1, <4>2
    <3> QED
      BY <2>4, <3>4, <3>5
  <2>7. CASE s[m] \in Delimiters /\ q.word = <<>>
    <3>1. c[m] = [inWord |-> FALSE, count |-> d.count] /\ p[m] = q
      BY <1>2, <1>3, <2>1, <2>5, <2>7
    <3> QED
      BY <2>3, <2>4, <2>7, <3>1
  <2>8. CASE s[m] \in Delimiters /\ q.word # <<>>
    <3>1. c[m] = [inWord |-> FALSE, count |-> d.count]
      BY <1>2, <2>1, <2>5, <2>8
    <3>2. PICK w : w = Append(q.words, q.word)
      OBVIOUS
    <3>3. p[m] = [words |-> w, word |-> <<>>]
      BY <1>3, <2>1, <2>8, <3>2
    <3>4. Len(w) = Len(q.words) + 1 /\ \A i \in 1 .. Len(w) : w[i] # <<>>
      <4>1. Len(w) = Len(q.words) + 1 /\ w[Len(q.words) + 1] = q.word /\ Len(q.words) \in Nat
        BY <2>3, <3>2
      <4>2. ASSUME NEW i \in 1 .. Len(w) PROVE w[i] # <<>>
        <5>1. CASE i = Len(q.words) + 1
          BY <2>8, <4>1, <5>1
        <5>2. CASE i # Len(q.words) + 1
          <6>1. i \in 1 .. Len(q.words)
            BY <4>1, <5>2
          <6>2. w[i] = q.words[i]
            BY <2>3, <3>2, <6>1
          <6> QED
            BY <2>4, <6>1, <6>2
        <5> QED
          BY <5>1, <5>2
      <4> QED
        BY <4>1, <4>2
    <3> QED
      BY <2>3, <2>4, <2>8, <3>1, <3>3, <3>4
  <2> QED
    BY <2>6, <2>7, <2>8
<1>6. Nat \subseteq S
  <2> HIDE DEF Inv
  <2>1. 0 \in S
    BY <1>4
  <2>2. ASSUME NEW m \in Nat, m \in S PROVE m + 1 \in S
    <3> SUFFICES ASSUME m + 1 <= Len(s) PROVE Inv(m + 1)
      OBVIOUS
    <3>1. PICK l : l = m + 1
      OBVIOUS
    <3>2. l \in 1 .. Len(s) /\ l - 1 = m /\ Inv(l - 1)
      BY <2>2, <3>1
    <3> QED
      BY <1>5, <3>1, <3>2
  <2> HIDE DEF S
  <2> QED
    BY <2>1, <2>2, SetInduction
<1>7. Inv(k)
  <2>1. k \in Nat /\ k <= Len(s)
    OBVIOUS
  <2> HIDE DEF Inv
  <2> QED
    BY <1>6, <2>1
<1> QED
  BY <1>1, <1>7

\* The engine counts as many words in a sentence as the client splits it into, for every
\* text: a race can be finished with as many words as there are, and with no fewer.  None
\* of the client's words is empty.
THEOREM WordsAgree ==
    ASSUME NEW T, NEW s \in Seq(T)
    PROVE  /\ parseSentence(s) \in Seq(Seq(T))
           /\ countWords(s) = Len(parseSentence(s))
           /\ \A i \in 1 .. Len(parseSentence(s)) : parseSentence(s)[i] # <<>>
<1>1. PICK p, c, n : n = Len(s) /\ p = SplitUpTo(s)[n] /\ c = CountUpTo(s)[n]
  OBVIOUS
<1>2. n \in 0 .. Len(s)
  BY <1>1
<1>3. p \in Splits(T) /\ c \in Counts
  BY <1>1, <1>2, SplitRounds, CountRounds
<1>4. /\ c.inWord <=> p.word # <<>>
      /\ c.count = Len(p.words) + (IF p.word = <<>> THEN 0 ELSE 1)
      /\ \A i \in 1 .. Len(p.words) : p.words[i] # <<>>
  BY <1>1, <1>2, LoopsInStep
<1>5. p.words \in Seq(Seq(T)) /\ p.word \in Seq(T)
  BY <1>3 DEF Splits
<1>6. countWords(s) = c.count
  BY <1>1 DEF countWords
<1>7. CASE p.word = <<>>
  <2>1. parseSentence(s) = p.words
    BY <1>1, <1>7 DEF parseSentence
  <2>2. c.count = Len(p.words)
    BY <1>4, <1>5, <1>7
  <2> QED
    BY <1>4, <1>5, <1>6, <2>1, <2>2
<1>8. CASE p.word # <<>>
  <2>1. PICK w : w = Append(p.words, p.word)
    OBVIOUS
  <2>2. parseSentence(s) = w
    BY <1>1, <1>8, <2>1 DEF parseSentence
  <2>3. w \in Seq(Seq(T)) /\ Len(w) = Len(p.words) + 1 /\ \A i \in 1 .. Len(w) : w[i] # <<>>
    BY <1>4, <1>5, <1>8, <2>1
  <2> QED
    BY <1>4, <1>5, <1>6, <1>8, <2>2, <2>3
<1> QED
  BY <1>7, <1>8

-----------------------------------------------------------------------------
(* The sentence of a line. *)

\* A line is cut in front of its first line end: what is left is the characters before it.
LEMMA CutBefore ==
    ASSUME NEW T, NEW line \in Seq(T)
    PROVE  /\ CutAtLineEnd(line) \in Seq(T) /\ Len(CutAtLineEnd(line)) <= Len(line)
           /\ \A i \in 1 .. Len(CutAtLineEnd(line)) : CutAtLineEnd(line)[i] = line[i]
           /\ \A i \in 1 .. Len(line) :
                 (\A j \in 1 .. i : line[j] \notin {"CR", "LF"}) => i <= Len(CutAtLineEnd(line))
<1> DEFINE ends == {i \in DOMAIN line : line[i] \in {"CR", "LF"}}
<1>1. CASE ends = {}
  BY <1>1 DEF CutAtLineEnd
<1>2. CASE ends # {}
  <2>1. PICK e : e = CHOOSE i \in ends : \A j \in ends : i <= j
    OBVIOUS
  <2>2. e \in ends /\ \A j \in ends : e <= j
    <3>1. ends \in SUBSET Nat
      OBVIOUS
    <3> HIDE DEF ends
    <3>2. \E i \in ends : \A j \in ends : i <= j
      BY <1>2, <3>1, LeastExists
    <3> QED
      BY <2>1, <3>2
  <2>3. e \in 1 .. Len(line) /\ line[e] \in {"CR", "LF"}
    BY <2>2
  <2>4. PICK c : c = SubSeq(line, 1, e - 1)
    OBVIOUS
  <2>5. CutAtLineEnd(line) = c
    BY <1>2, <2>1, <2>4 DEF CutAtLineEnd
  <2>6. c \in Seq(T) /\ Len(c) = e - 1 /\ \A i \in 1 .. e - 1 : c[i] = line[i]
    BY <2>3, <2>4
  <2> QED
    BY <2>3, <2>5, <2>6
<1> QED
  BY <1>1, <1>2

\* A text with a character that is no blank has a word.
LEMMA SomeWord ==
    ASSUME NEW T, NEW s \in Seq(T), NEW k \in 1 .. Len(s), s[k] \notin Blanks
    PROVE  countWords(s) > 0
<1>1. PICK c, n : c = CountUpTo(s) /\ n = Len(s)
  OBVIOUS
<1>2. /\ c \in [0 .. n -> Counts] /\ n \in Nat
      /\ \A m \in 1 .. n :
            c[m] = IF s[m] \in Blanks THEN [inWord |-> FALSE, count |-> c[m - 1].count]
                   ELSE [inWord |-> TRUE, count |-> c[m - 1].count + (IF c[m - 1].inWord THEN 0 ELSE 1)]
  <2>1. n \in Nat
    BY <1>1
  <2>2. c \in [0 .. n -> Counts]
    BY <1>1, CountRounds
  <2>3. \A m \in 1 .. n :
           c[m] = IF s[m] \in Blanks THEN [inWord |-> FALSE, count |-> c[m - 1].count]
                  ELSE [inWord |-> TRUE, count |-> c[m - 1].count + (IF c[m - 1].inWord THEN 0 ELSE 1)]
    BY <1>1, CountRounds
  <2> QED
    BY <2>1, <2>2, <2>3
<1>3. c[0] = [inWord |-> FALSE, count |-> 0]
  BY <1>1, CountRounds
<1> DEFINE S == {m \in Nat : m <= n =>
                    /\ c[m].inWord => c[m].count > 0
                    /\ k <= m => c[m].count > 0}
<1>4. 0 \in S
  BY <1>1, <1>3
<1>5. ASSUME NEW m \in Nat, m \in S PROVE m + 1 \in S
  <2>1. SUFFICES ASSUME m + 1 <= n
                 PROVE  (c[m + 1].inWord => c[m + 1].count > 0) /\ (k <= m + 1 => c[m + 1].count > 0)
    OBVIOUS
  <2>2. PICK b, a : b = c[m] /\ a = c[m + 1]
    OBVIOUS
  <2>3. PICK j : j = m + 1
    OBVIOUS
  <2>4. j \in 1 .. n /\ j - 1 = m /\ m \in 0 .. n /\ j \in 0 .. n /\ m <= n
    BY <1>2, <2>1, <2>3
  <2>5. b.count \in Nat /\ (b.inWord => b.count > 0) /\ (k <= m => b.count > 0)
    BY <1>2, <1>5, <2>2, <2>4 DEF Counts
  <2>6. a = IF s[j] \in Blanks THEN [inWord |-> FALSE, count |-> b.count]
            ELSE [inWord |-> TRUE, count |-> b.count + (IF b.inWord THEN 0 ELSE 1)]
    BY <1>2, <2>2, <2>3, <2>4
  <2>7. (k <= j => a.count > 0) /\ (a.inWord => a.count > 0)
    <3>1. CASE s[j] \in Blanks
      <4>1. a.count = b.count /\ a.inWord = FALSE
        BY <2>6, <3>1
      <4>2. k # j /\ k \in Nat
        BY <3>1
      <4> QED
        BY <2>3, <2>4, <2>5, <4>1, <4>2
    <3>2. CASE s[j] \notin Blanks
      <4>1. a.count = b.count + (IF b.inWord THEN 0 ELSE 1)
        BY <2>6, <3>2
      <4> QED
        BY <2>5, <4>1
    <3> QED
      BY <3>1, <3>2
  <2> QED
    BY <2>2, <2>3, <2>7
<1>6. n \in S
  <2>1. n \in Nat /\ \A m \in Nat : m \in S => m + 1 \in S
    BY <1>2, <1>5
  <2> HIDE DEF S
  <2> QED
    BY <1>4, <2>1, SetInduction
<1>7. c[n].count > 0
  BY <1>1, <1>2, <1>6
<1> QED
  BY <1>1, <1>7 DEF countWords
=============================================================================
