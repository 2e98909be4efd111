----------------------------- MODULE FreshWorker -----------------------------
(***************************************************************************)
(* TokenStore with the history of each worker's start: what a token store  *)
(* opened on the shared files (TokenStore.__init__ and load(), which take  *)
(* no lock) sees while other workers append to and compact those files.    *)
(***************************************************************************)
EXTENDS TokenStore

VARIABLE
    promisedAtStart     \* tokens acknowledged when the worker's load() began

freshVars == <<vars, promisedAtStart>>

FreshInit == Init /\ promisedAtStart = [w \in Workers |-> {}]

\* load() opens the snapshot: from here on it should find what was saved.
Opens(w) == up[w] = "down" /\ up'[w] = "loading"

FreshNext ==
    /\ Next
    /\ promisedAtStart' =
         [w \in Workers |-> IF Opens(w) THEN acked
                            ELSE IF up'[w] = "down" THEN {} ELSE promisedAtStart[w]]

FreshSpec == FreshInit /\ [][FreshNext]_freshVars

\* A fresh TokenStore resolves every token whose save was acknowledged before
\* it was opened.
FreshStoreComplete ==
    \A w \in Workers : up[w] = "up" => promisedAtStart[w] \ glued \subseteq reverse[w]

=============================================================================
