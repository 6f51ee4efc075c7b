----------------------------- MODULE MCAttempts -----------------------------
(* An instance of Attempts in which the last wait overflows its type. *)
EXTENDS Attempts
=============================================================================
