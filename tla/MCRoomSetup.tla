---------------------------- MODULE MCRoomSetup ----------------------------
(* Instances of RoomSetup for TLC: what the input file may hold. *)
EXTENDS RoomSetup

\* A file without a usable line (a number and an empty line), and one with a usable one.
MCFiles ==
    {{<<"1", "LF">>, <<"LF">>},
     {<<"LF">>, <<"w", "TAB", "s", "CR", "LF">>}}

\* They are files of the kind that the proof that rooms are playable speaks of.
ASSUME MCFilesEndOnce == LinesEndOnce
=============================================================================
