-------------------------- MODULE MCSessionRefresh --------------------------
(* A small instance of SessionRefresh for TLC.  The run checks liveness,   *)
(* so the symmetry of requests and of server processes is not used.        *)
EXTENDS SessionRefresh, TLC
=============================================================================
