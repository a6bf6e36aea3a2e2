---------------------------- MODULE MCWaitlists ----------------------------
(* An instance of Waitlists small enough for TLC. *)
EXTENDS Waitlists

CONSTANTS u1, u2
=============================================================================
