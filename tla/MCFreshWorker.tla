---------------------------- MODULE MCFreshWorker ----------------------------
(* A worker restarting next to one that appends and compacts. *)
EXTENDS FreshWorker, TLC

CONSTANTS w1, w2, t1, t2

OneThreadEach == (t1 :> w1) @@ (t2 :> w2)
=============================================================================
