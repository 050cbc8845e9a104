--------------------------- MODULE MCOfflineQueue ---------------------------
(* Small instances of OfflineQueue for TLC. *)
EXTENDS OfflineQueue, TLC

\* Actions are interchangeable; tabs are not, only some resolve conflicts.
Symmetry == Permutations(Actions)
=============================================================================
