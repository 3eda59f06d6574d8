----------------------------- MODULE MCSession -----------------------------
(* Instances of Session for TLC: sentences that look like the end of their object. *)
EXTENDS Session

\* An escaped quote with a brace behind it; an escaped backslash at the end; a rejection's
\* word and a brace.
MCContents ==
    {<<"backslash", "quote", "rbrace">>, <<"lbrace", "backslash", "backslash">>, <<"ERROR:", "rbrace">>}
=============================================================================
