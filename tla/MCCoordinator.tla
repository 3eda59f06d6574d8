--------------------------- MODULE MCCoordinator ---------------------------
(* Instances of Coordinator for TLC. *)
EXTENDS Coordinator, TLC

\* Rooms, connections and codes are interchangeable.
Symmetry == Permutations(Rooms) \cup Permutations(Conns) \cup Permutations(Codes)
=============================================================================
