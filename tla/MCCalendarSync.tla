--------------------------- MODULE MCCalendarSync ---------------------------
(* Small instances of CalendarSync for TLC. *)
EXTENDS CalendarSync
=============================================================================
