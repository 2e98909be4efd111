---------------------------- MODULE MCRemoteStore ----------------------------
(* Small instances of RemoteStore. *)
EXTENDS RemoteStore, TLC

CONSTANTS w1, w2, v1, v2

TwoWorkers == {w1, w2}
TwoValues == {v1, v2}
Symmetric == Permutations(TwoWorkers) \cup Permutations(TwoValues)

=============================================================================
