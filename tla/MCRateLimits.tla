---------------------------- MODULE MCRateLimits ----------------------------
(* Small instances of RateLimits for TLC. *)
EXTENDS RateLimits, TLC

\* Arrivals are interchangeable.
ArrivalSymmetry == Permutations(Arrivals)
=============================================================================
