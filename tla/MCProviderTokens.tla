-------------------------- MODULE MCProviderTokens --------------------------
(* A small instance of ProviderTokens for TLC. *)
EXTENDS ProviderTokens, TLC

\* Callers are interchangeable: no definition names one of them.
WorkerSymmetry == Permutations(Workers)
=============================================================================
