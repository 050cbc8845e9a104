-------------------------- MODULE MCAccountSessions --------------------------
(* Small instances of AccountSessions for TLC. *)
EXTENDS AccountSessions, TLC

\* Handlers, and token pairs, are interchangeable.
Symmetry == Permutations(Handlers) \cup Permutations(Pairs)
=============================================================================
