------------------------- MODULE MCRefreshRotation -------------------------
(* Small instances of RefreshRotation for TLC. *)
EXTENDS RefreshRotation, TLC

\* Requests are interchangeable: no definition names one of them.
RequestSymmetry == Permutations(Requests)
=============================================================================
