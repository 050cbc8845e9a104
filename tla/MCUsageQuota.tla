---------------------------- MODULE MCUsageQuota ----------------------------
(* Small instances of UsageQuota for TLC. *)
EXTENDS UsageQuota, TLC

\* Requests are interchangeable: no definition names one of them.
RequestSymmetry == Permutations(Requests)
=============================================================================
