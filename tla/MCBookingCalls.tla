--------------------------- MODULE MCBookingCalls ---------------------------
(* Small instances of BookingCalls for TLC. *)
EXTENDS BookingCalls, TLC

\* A slot and one that overlaps it.
TwoSlots == {<<1, 3>>, <<2, 4>>}

\* Calls are interchangeable: no definition names one of them.
CallSymmetry == Permutations(Calls)
=============================================================================
