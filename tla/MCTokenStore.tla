---------------------------- MODULE MCTokenStore ----------------------------
(* Small instances of TokenStore. *)
EXTENDS TokenStore, TLC

CONSTANTS w1, w2, t1, t2, v1, v2

\* Two sync workers with one request thread each.
TwoWorkers == (t1 :> w1) @@ (t2 :> w2)

\* The development server: two request threads in one process.
TwoThreads == (t1 :> w1) @@ (t2 :> w1)

\* The two values are interchangeable, and so are the two workers, each
\* taken together with its thread.
Symmetry ==
    {p \in Permutations({v1, v2, w1, w2, t1, t2}) :
        /\ {p[v1], p[v2]} = {v1, v2}
        /\ \A t \in {t1, t2} : p[t] \in {t1, t2} /\ TwoWorkers[p[t]] = p[TwoWorkers[t]]}
=============================================================================
