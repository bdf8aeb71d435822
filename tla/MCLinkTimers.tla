---------------------------- MODULE MCLinkTimers ----------------------------
(* The program's intervals and timeouts, in seconds. *)
EXTENDS LinkTimers
=============================================================================
