--------------------------- MODULE MCUndoDatabase ---------------------------
(* A small instance of UndoDatabase for TLC. *)
EXTENDS UndoDatabase, TLC

Symmetry == Permutations(Types) \cup Permutations(Values)
============================================================================
