------------------------------ MODULE MCRace ------------------------------
(* Small instances of Race for TLC. *)
EXTENDS Race, TLC

\* Players are interchangeable: no step tells one slot from another.
Symmetry == Permutations(Players)
===========================================================================
