------------------------------ MODULE MCWorker ------------------------------
(* Instances of Worker: the clients are model values. *)
EXTENDS Worker
CONSTANTS k1, k2, k3, k4, k5, poll, g1, g2, hb, rq, ws
=============================================================================
