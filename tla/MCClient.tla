----------------------------- MODULE MCClient -----------------------------
(* Instances of Client for TLC: the file's lines and the keys of the player. *)
EXTENDS Client

\* Two words with a tab between them and a blank at the end; a line without a letter, which is never used;
\* a carriage return in front, which leaves an empty sentence.
MCLines == {<<"w", "TAB", "s", "SP", "CR", "LF">>, <<"1", "LF">>, <<"CR", "s", "LF">>}

MCKeys == {<<"w">>, <<"s">>, <<"SP">>, <<"BS">>, <<"LF">>, <<"ESC", "[", "B">>}

\* One sentence and the keys that matter for escape sequences.
OneLine == {<<"w", "SP", "s", "LF">>}
FewKeys == {<<"w">>, <<"ESC", "[", "B">>}

MCTimes == {-1, 0, 1, 2}
===========================================================================
