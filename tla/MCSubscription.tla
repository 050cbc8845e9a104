--------------------------- MODULE MCSubscription ---------------------------
(* Small instances of Subscription for TLC. *)
EXTENDS Subscription, TLC

\* Handlers, and manual requests, are interchangeable.
SlotSymmetry == Permutations(Handlers) \cup Permutations(Manual)
=============================================================================
