------------------------------- MODULE Words -------------------------------
(***************************************************************************)
(* The text functions of the two C programs: how the lines of the input    *)
(* file become sentences (readFileLines, validateLine, the cut at the line *)
(* end), how the engine counts the words of a sentence (countWords) and    *)
(* how the client splits it (parseSentence, a loop over strtok_r).         *)
(*                                                                         *)
(* A text is a sequence of characters.  Letters stands for what isalpha    *)
(* accepts; every other character but the separators is punctuation.       *)
(*                                                                         *)
(* A definition whose comment starts with "Fault:" is no part of the       *)
(* specification: it is a plausible mistake in the one that follows.       *)
(***************************************************************************)
EXTENDS Integers, Sequences, SequencesExt

CONSTANT Letters    \* the characters isalpha() accepts

\* The delimiters of strtok_r in parseSentence.
Delimiters == {"SP", "CR", "LF", "TAB"}

\* Fault: an engine that does not take a tab for the end of a word.
BlanksWithoutTab == {"SP", "CR", "LF"}

\* The characters between words for countWords, a chain of comparisons of its own.
Blanks == {"SP", "CR", "LF", "TAB"}

\* isalpha() accepts no white space.
ASSUME WordsAssumption == Letters \cap Blanks = {}

\* A loop over the characters; a word begins at a character that is no blank and does not
\* follow one that is none.
CountUpTo(s) ==
    LET counted[k \in 0 .. Len(s)] ==
            IF k = 0 THEN [inWord |-> FALSE, count |-> 0]
            ELSE LET before == counted[k - 1] IN
                 IF s[k] \in Blanks THEN [inWord |-> FALSE, count |-> before.count]
                 ELSE [inWord |-> TRUE, count |-> before.count + (IF before.inWord THEN 0 ELSE 1)]
    IN  counted
countWords(s) == CountUpTo(s)[Len(s)].count

\* strtok_r skips delimiters, then takes everything up to the next one; parseSentence
\* collects the words until there are no more.
SplitUpTo(s) ==
    LET split[k \in 0 .. Len(s)] ==
            IF k = 0 THEN [words |-> <<>>, word |-> <<>>]
            ELSE LET before == split[k - 1] IN
                 IF s[k] \notin Delimiters
                 THEN [words |-> before.words, word |-> Append(before.word, s[k])]
                 ELSE IF before.word = <<>> THEN before
                 ELSE [words |-> Append(before.words, before.word), word |-> <<>>]
    IN  split
parseSentence(s) ==
    LET all == SplitUpTo(s)[Len(s)]
    IN  IF all.word = <<>> THEN all.words ELSE Append(all.words, all.word)

\* The characters of the first k words.
CharsUpTo(ws) ==
    LET chars[k \in 0 .. Len(ws)] == IF k = 0 THEN 0 ELSE chars[k - 1] + Len(ws[k])
    IN  chars

\* Fault: every line with a character in it is taken.
AnyLine(line) == line # <<>>

\* A line of the input file is used only if it has a letter.
validateLine(line) == \E i \in DOMAIN line : line[i] \in Letters

\* getRandomSentenceCached cuts a line at its first line-end character.
CutAtLineEnd(line) ==
    LET ends == {i \in DOMAIN line : line[i] \in {"CR", "LF"}}
    IN  IF ends = {} THEN line
        ELSE SubSeq(line, 1, (CHOOSE i \in ends : \A j \in ends : i <= j) - 1)

\* The sentences a race can get from a file.
SentencesOf(lines) == {CutAtLineEnd(l) : l \in {k \in lines : validateLine(k)}}
============================================================================
