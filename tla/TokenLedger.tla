----------------------------- MODULE TokenLedger -----------------------------
(***************************************************************************)
(* What a token store promises (src/src/anonymize.py): "exact original     *)
(* value can be recovered by anyone with access to `store`".  A token is   *)
(* recorded before it is promised, and what is recorded stays recorded     *)
(* unless the storage itself is damaged.  TokenStore implements this with  *)
(* a snapshot, a log and a lock shared by several processes, RemoteStore   *)
(* with two secrets of Vault or two hashes of Redis.                       *)
(***************************************************************************)
CONSTANT Tokens

VARIABLES
    durable,    \* tokens a process started now can resolve
    promised,   \* tokens whose save was acknowledged
    damaged     \* tokens written to a damaged place of the storage

vars == <<durable, promised, damaged>>

Init ==
    /\ durable = {}
    /\ promised = {}
    /\ damaged = {}

\* A batch reaches the storage; it may hold tokens already there.
Record(S) ==
    /\ durable' = durable \cup S
    /\ UNCHANGED <<promised, damaged>>

\* The storage drops some of S, now known to be damaged.
Damage(S) ==
    /\ damaged' = damaged \cup S
    /\ durable \ S \subseteq durable'
    /\ durable' \subseteq durable
    /\ UNCHANGED promised

\* The writer of a batch is told that it is saved.
Promise(S) ==
    /\ S \subseteq durable \cup damaged
    /\ promised' = promised \cup S
    /\ UNCHANGED <<durable, damaged>>

Next == \E S \in SUBSET Tokens : Record(S) \/ Damage(S) \/ Promise(S)

Spec == Init /\ [][Next]_vars

\* The same promise of a storage that does all of it in one transaction: a
\* batch is recorded, D is found damaged, and P is promised after the fact.
Transact(D, P) ==
    /\ damaged' = damaged \cup D
    /\ durable \ D \subseteq durable'
    /\ durable' \subseteq Tokens
    /\ P \subseteq durable' \cup damaged'
    /\ promised' = promised \cup P

NextTransact == \E D, P \in SUBSET Tokens : Transact(D, P)

SpecTransact == Init /\ [][NextTransact]_vars

=============================================================================
