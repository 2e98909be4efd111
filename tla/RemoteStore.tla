----------------------------- MODULE RemoteStore -----------------------------
(***************************************************************************)
(* TokenStore (src/src/anonymize.py) on a backend reached over the         *)
(* network.  On Vault, save() takes its fallback: lock, load, merge, write *)
(* two secrets one after the other, unlock; the lock is a secret with a    *)
(* time limit, written by check-and-set.  On Redis, save() sends the       *)
(* pending entries in one transaction and takes no lock at all.            *)
(*                                                                         *)
(* Simplifications:                                                        *)
(*  - every value has one type, so a token stands for its value, and the   *)
(*    forward and the reverse map are the sets of values they hold;        *)
(*  - a gunicorn worker serves one request at a time; every request saves  *)
(*    (save_every_n_calls = 1; TokenStore has the debounce);               *)
(*  - the version that check-and-set compares is the set of workers whose  *)
(*    last read of the lock is still current;                              *)
(*  - one tick of time is half of the lock's time limit; a waiter polls    *)
(*    (every 0.05 to 0.5 s) many times in one tick, a holder may be slow.  *)
(***************************************************************************)
EXTENDS Naturals, FiniteSets

CONSTANTS
    Workers,        \* worker processes sharing the backend
    Values,         \* original PII values
    Nobody,         \* the owner of a free lock
    TTL,            \* ttl_s, in ticks
    AcquireTimeout, \* acquire_timeout_s, in ticks
    MaxFaults       \* bound: crashes, failed calls and failovers in a behaviour

ASSUME NobodyAssumption == Nobody \notin Workers
ASSUME LimitsAssumption ==
    /\ TTL \in Nat
    /\ AcquireTimeout \in Nat
    /\ TTL < AcquireTimeout
    /\ MaxFaults \in Nat

VARIABLES
    backend,    \* "vault" or "redis"
    \* the shared storage
    fwd,        \* values in the forward secret or hash
    rev,        \* values in the reverse secret or hash
    replica,    \* Redis: what the replica that Sentinel would promote holds
    lock,       \* Vault: the lock secret, its owner and its age in ticks
    current,    \* workers that have read the lock's latest version
    \* each worker
    pc,         \* where it is
    mem,        \* _forward and _reverse
    pending,    \* _pending_forward and _pending_reverse
    image,      \* what load() returned inside the section
    waited,     \* ticks since it entered lock_for_save()
    \* history
    acked,      \* values whose save was reported written
    excused,    \* values that a fault or a lock taken over has cut from a map
    shared,     \* workers whose present section overlaps an overdue one
    contended,  \* workers that waited on while the lock was written
    faults

store == <<fwd, rev, replica>>
locking == <<lock, current>>
worker == <<mem, pending, image, waited>>
history == <<acked, excused, shared, contended>>
vars == <<backend, store, locking, pc, worker, history, faults>>

Section == {"loadF", "loadR", "writeF", "writeR", "unlock", "release"}
Phases == {"down", "starting", "idle", "hset", "acquire", "take"} \cup Section
InSection(w) == pc[w] \in Section

Empty == [f |-> {}, r |-> {}]
Free == [owner |-> Nobody, age |-> 0]

\* Faulty variant: a lock is free only when its holder has released it.
IsFreeOnRelease(l) == l.owner = Nobody

\* _VaultLockContext.__enter__: no record, no owner, or an old record.
IsFree(l) == l.owner = Nobody \/ l.age > TTL

\* {**remote, **own}
Merged(w) == [f |-> image[w].f \cup mem[w].f, r |-> image[w].r \cup mem[w].r]

\* Values that a worker has in a section under way and will write.
InFlight == {v \in Values : \E w \in Workers : pc[w] = "writeR" /\ v \in Merged(w).r}

\* A token can be resolved, and is given again, when it has both entries.
Ledger == INSTANCE TokenLedger WITH
    Tokens <- Values, durable <- fwd \cap rev, promised <- acked, damaged <- excused

At(w, from, to) == pc[w] = from /\ pc' = [pc EXCEPT ![w] = to]

-----------------------------------------------------------------------------
Init ==
    /\ backend \in {"vault", "redis"}
    /\ fwd = {}
    /\ rev = {}
    /\ replica = Empty
    /\ lock = Free
    /\ current = {}
    /\ pc = [w \in Workers |-> "down"]
    /\ mem = [w \in Workers |-> Empty]
    /\ pending = [w \in Workers |-> {}]
    /\ image = [w \in Workers |-> Empty]
    /\ waited = [w \in Workers |-> 0]
    /\ acked = {}
    /\ excused = {}
    /\ shared = {}
    /\ contended = {}
    /\ faults = 0

\* TokenStore.__init__ calls load(), which takes no lock: first one map...
StartForward(w) ==
    /\ At(w, "down", "starting")
    /\ mem' = [mem EXCEPT ![w].f = fwd]
    /\ UNCHANGED <<backend, store, locking, pending, image, waited, history, faults>>

\* ... then the other.
StartReverse(w) ==
    /\ At(w, "starting", "idle")
    /\ mem' = [mem EXCEPT ![w].r = rev]
    /\ UNCHANGED <<backend, store, locking, pending, image, waited, history, faults>>

\* A request: get_or_create_token for its value, then save().  Vault's
\* save_incremental() is the inherited one, which returns False.
Request(w, v) ==
    /\ At(w, "idle", IF backend = "redis" THEN "hset" ELSE "acquire")
    /\ IF v \in mem[w].f
       THEN UNCHANGED <<mem, pending>>
       ELSE /\ mem' = [mem EXCEPT ![w] = [f |-> @.f \cup {v}, r |-> @.r \cup {v}]]
            /\ pending' = [pending EXCEPT ![w] = @ \cup {v}]
    /\ waited' = [waited EXCEPT ![w] = 0]
    /\ contended' = contended \ {w}
    /\ UNCHANGED <<backend, store, locking, image, acked, excused, shared, faults>>

-----------------------------------------------------------------------------
(* Redis                                                                   *)

\* Faulty variant: the transaction sends the forward entries alone.
HSetForward(w) ==
    /\ At(w, "hset", "idle")
    /\ fwd' = fwd \cup pending[w]
    /\ acked' = acked \cup pending[w]
    /\ pending' = [pending EXCEPT ![w] = {}]
    /\ UNCHANGED <<backend, rev, replica, locking, mem, image, waited, excused, shared,
                   contended, faults>>

\* Two HSETs in one MULTI, then the sent entries leave the pending ones.
HSet(w) ==
    /\ At(w, "hset", "idle")
    /\ fwd' = fwd \cup pending[w]
    /\ rev' = rev \cup pending[w]
    /\ acked' = acked \cup pending[w]
    /\ pending' = [pending EXCEPT ![w] = {}]
    /\ UNCHANGED <<backend, replica, locking, mem, image, waited, excused, shared,
                   contended, faults>>

\* Asynchronous replication, a whole transaction at a time.
Replicate ==
    /\ backend = "redis"
    /\ replica # [f |-> fwd, r |-> rev]
    /\ replica' = [f |-> fwd, r |-> rev]
    /\ UNCHANGED <<backend, fwd, rev, locking, pc, worker, history, faults>>

\* Sentinel promotes the replica: what had not reached it is gone.
Failover ==
    /\ backend = "redis"
    /\ faults < MaxFaults
    /\ fwd' = replica.f
    /\ rev' = replica.r
    /\ excused' = excused \cup (fwd \ replica.f) \cup (rev \ replica.r)
    /\ faults' = faults + 1
    /\ UNCHANGED <<backend, replica, locking, pc, worker, acked, shared, contended>>

-----------------------------------------------------------------------------
(* Vault: the lock                                                         *)

\* The lock is read and found free.
ReadFree(w) ==
    /\ IsFree(lock)
    /\ At(w, "acquire", "take")
    /\ current' = current \cup {w}
    /\ UNCHANGED <<backend, store, lock, worker, history, faults>>

\* The lock is read and found held, and the deadline has passed: TimeoutError.
GiveUp(w) ==
    /\ ~IsFree(lock)
    /\ waited[w] >= AcquireTimeout
    /\ At(w, "acquire", "idle")
    /\ UNCHANGED <<backend, store, locking, worker, history, faults>>

Others(w) == {x \in Workers \ {w} : InSection(x)}
Waiting == {x \in Workers : pc[x] \in {"acquire", "take"}}

\* Faulty variant: the lock is written without comparing versions.
CanWriteAlways(w) == TRUE

\* create_or_update_secret with cas = the version this worker has read.
CanWrite(w) == w \in current

\* Every write of the lock makes a new version, which no one has read.
WriteLock(record) ==
    /\ lock' = record
    /\ current' = {}
    /\ contended' = Waiting'

\* The check-and-set succeeds: the worker holds the lock.
Take(w) ==
    /\ CanWrite(w)
    /\ At(w, "take", "loadF")
    /\ WriteLock([owner |-> w, age |-> 0])
    /\ shared' = IF lock.age > TTL \/ Others(w) \cap shared # {}
                 THEN shared \cup Others(w) \cup {w}
                 ELSE shared \ {w}
    /\ waited' = [waited EXCEPT ![w] = 0]
    /\ UNCHANGED <<backend, store, mem, pending, image, acked, excused, faults>>

\* The check-and-set is refused: again, unless the deadline has passed.
TakeRefused(w) ==
    /\ ~CanWrite(w)
    /\ At(w, "take", IF waited[w] >= AcquireTimeout THEN "idle" ELSE "acquire")
    /\ UNCHANGED <<backend, store, locking, worker, history, faults>>

\* The write of the lock raises for another reason, and the worker takes itself
\* for refused.  Applied with its answer lost, it leaves the worker to wait for
\* a lock that has its own name on it.
TakeFails(w) ==
    /\ faults < MaxFaults
    /\ CanWrite(w)
    /\ At(w, "take", IF waited[w] >= AcquireTimeout THEN "idle" ELSE "acquire")
    /\ WriteLock([owner |-> w, age |-> 0]) \/ UNCHANGED <<locking, contended>>
    /\ faults' = faults + 1
    /\ UNCHANGED <<backend, store, worker, acked, excused, shared>>

\* Faulty variant: a worker gives up only after its time limit has passed by.
TickPastLimit ==
    /\ backend = "vault"
    /\ lock.owner # Nobody
    /\ ~IsFree(lock) \/ Waiting = {}
    /\ \A w \in Waiting : pc[w] = "acquire" /\ waited[w] <= AcquireTimeout
    /\ lock.age <= TTL \/ Waiting # {}
    /\ lock' = [lock EXCEPT !.age = IF @ > TTL THEN @ ELSE @ + 1]
    /\ waited' = [w \in Workers |-> IF w \in Waiting THEN waited[w] + 1 ELSE waited[w]]
    /\ UNCHANGED <<backend, store, current, pc, mem, pending, image, history, faults>>

\* Time passes: never past a waiter that has a free lock, a refusal or a
\* deadline before it.
Tick ==
    /\ backend = "vault"
    /\ lock.owner # Nobody
    /\ ~IsFree(lock) \/ Waiting = {}
    /\ \A w \in Waiting : pc[w] = "acquire" /\ waited[w] < AcquireTimeout
    /\ lock.age <= TTL \/ Waiting # {}
    /\ lock' = [lock EXCEPT !.age = IF @ > TTL THEN @ ELSE @ + 1]
    /\ waited' = [w \in Workers |-> IF w \in Waiting THEN waited[w] + 1 ELSE waited[w]]
    /\ UNCHANGED <<backend, store, current, pc, mem, pending, image, history, faults>>

-----------------------------------------------------------------------------
(* Vault: load, merge, write                                               *)

LoadForward(w) ==
    /\ At(w, "loadF", "loadR")
    /\ image' = [image EXCEPT ![w].f = fwd]
    /\ UNCHANGED <<backend, store, locking, mem, pending, waited, history, faults>>

LoadReverse(w) ==
    /\ At(w, "loadR", "writeF")
    /\ image' = [image EXCEPT ![w].r = rev]
    /\ UNCHANGED <<backend, store, locking, mem, pending, waited, history, faults>>

\* Faulty variant: a worker writes what it holds, not merged with the rest.
WriteForwardBlind(w) ==
    /\ At(w, "writeF", "writeR")
    /\ fwd' = mem[w].f
    /\ UNCHANGED <<backend, rev, replica, locking, worker, history, faults>>

\* Entries a write drops are excused only if the section was shared.
WriteForward(w) ==
    /\ At(w, "writeF", "writeR")
    /\ fwd' = Merged(w).f
    /\ excused' = IF w \in shared THEN excused \cup (fwd \ fwd') ELSE excused
    /\ UNCHANGED <<backend, rev, replica, locking, worker, acked, shared, contended, faults>>

\* Faulty variant: the second secret is written without the merge.
WriteReverseBlind(w) ==
    /\ At(w, "writeR", "unlock")
    /\ rev' = mem[w].r
    /\ mem' = [mem EXCEPT ![w] = Merged(w)]
    /\ pending' = [pending EXCEPT ![w] = {}]
    /\ image' = [image EXCEPT ![w] = Empty]
    /\ acked' = acked \cup mem[w].r
    /\ excused' = IF w \in shared THEN excused \cup (rev \ rev') ELSE excused
    /\ UNCHANGED <<backend, fwd, replica, locking, waited, shared, contended, faults>>

\* The second secret completes the save; the merged maps are adopted.
WriteReverse(w) ==
    /\ At(w, "writeR", "unlock")
    /\ rev' = Merged(w).r
    /\ mem' = [mem EXCEPT ![w] = Merged(w)]
    /\ pending' = [pending EXCEPT ![w] = {}]
    /\ image' = [image EXCEPT ![w] = Empty]
    /\ acked' = acked \cup Merged(w).r
    /\ excused' = IF w \in shared THEN excused \cup (rev \ rev') ELSE excused
    /\ UNCHANGED <<backend, fwd, replica, locking, waited, shared, contended, faults>>

\* _VaultLockContext.__exit__: whose lock is it now?
ReadOwner(w) ==
    /\ At(w, "unlock", IF lock.owner = w THEN "release" ELSE "idle")
    /\ current' = IF lock.owner = w THEN current \cup {w} ELSE current
    /\ UNCHANGED <<backend, store, lock, worker, history, faults>>

\* The release is a check-and-set too, and a refused one is swallowed.
Release(w) ==
    /\ At(w, "release", "idle")
    /\ IF CanWrite(w) THEN WriteLock(Free) ELSE UNCHANGED <<locking, contended>>
    /\ UNCHANGED <<backend, store, worker, acked, excused, shared, faults>>

-----------------------------------------------------------------------------
(* Faults                                                                  *)

\* Entries in the forward secret that this worker will not follow with
\* their reverse entries.
Cut(w) == IF pc[w] = "writeR" THEN fwd \ rev ELSE {}

\* A call raises and changed nothing: before the lock is taken and after it was
\* read at the end, the exception leaves save(); inside the section __exit__
\* runs first; that of the release is swallowed.
CallFails(w) ==
    /\ faults < MaxFaults
    /\ pc[w] \in {"hset", "acquire", "loadF", "loadR", "writeF", "writeR", "unlock",
                 "release"}
    /\ pc' = [pc EXCEPT ![w] =
                IF @ \in {"loadF", "loadR", "writeF", "writeR"} THEN "unlock" ELSE "idle"]
    /\ image' = [image EXCEPT ![w] = Empty]
    /\ excused' = excused \cup Cut(w)
    /\ faults' = faults + 1
    /\ UNCHANGED <<backend, store, locking, mem, pending, waited, acked, shared, contended>>

\* A write of the entries is applied, but its call raises: the worker keeps
\* them pending, and a first secret is not followed by the second.
WriteUnheard(w) ==
    /\ faults < MaxFaults
    /\ \/ /\ At(w, "hset", "idle")
          /\ fwd' = fwd \cup pending[w]
          /\ rev' = rev \cup pending[w]
          /\ UNCHANGED excused
       \/ /\ At(w, "writeF", "unlock")
          /\ fwd' = Merged(w).f
          /\ rev' = rev
          /\ excused' = excused \cup (fwd' \ rev) \cup (IF w \in shared THEN fwd \ fwd' ELSE {})
       \/ /\ At(w, "writeR", "unlock")
          /\ fwd' = fwd
          /\ rev' = Merged(w).r
          /\ excused' = IF w \in shared THEN excused \cup (rev \ rev') ELSE excused
    /\ image' = [image EXCEPT ![w] = Empty]
    /\ faults' = faults + 1
    /\ UNCHANGED <<backend, replica, locking, mem, pending, waited, acked, shared, contended>>

Crash(w) ==
    /\ faults < MaxFaults
    /\ pc[w] # "down"
    /\ pc' = [pc EXCEPT ![w] = "down"]
    /\ mem' = [mem EXCEPT ![w] = Empty]
    /\ pending' = [pending EXCEPT ![w] = {}]
    /\ image' = [image EXCEPT ![w] = Empty]
    /\ waited' = [waited EXCEPT ![w] = 0]
    /\ current' = current \ {w}
    /\ excused' = excused \cup Cut(w)
    /\ faults' = faults + 1
    /\ UNCHANGED <<backend, store, lock, acked, shared, contended>>

Step(w) ==
    \/ StartForward(w) \/ StartReverse(w)
    \/ HSet(w)
    \/ ReadFree(w) \/ GiveUp(w) \/ Take(w) \/ TakeRefused(w)
    \/ LoadForward(w) \/ LoadReverse(w) \/ WriteForward(w) \/ WriteReverse(w)
    \/ ReadOwner(w) \/ Release(w)

Next ==
    \/ \E w \in Workers : Step(w)
    \/ \E w \in Workers : TakeFails(w) \/ CallFails(w) \/ WriteUnheard(w) \/ Crash(w)
    \/ \E w \in Workers, v \in Values : Request(w, v)
    \/ Replicate
    \/ Failover
    \/ Tick

Spec == Init /\ [][Next]_vars

-----------------------------------------------------------------------------
(* Properties                                                              *)

\* Type invariant of the storage, the lock and the workers.
TypeOK ==
    /\ backend \in {"vault", "redis"}
    /\ fwd \subseteq Values
    /\ rev \subseteq Values
    /\ replica \in [f : SUBSET Values, r : SUBSET Values]
    /\ lock \in [owner : Workers \cup {Nobody}, age : 0 .. TTL + 1]
    /\ current \subseteq Workers
    /\ pc \in [Workers -> Phases]
    /\ mem \in [Workers -> [f : SUBSET Values, r : SUBSET Values]]
    /\ pending \in [Workers -> SUBSET Values]
    /\ image \in [Workers -> [f : SUBSET Values, r : SUBSET Values]]
    /\ waited \in [Workers -> 0 .. AcquireTimeout]
    /\ acked \subseteq Values
    /\ excused \subseteq Values
    /\ shared \subseteq Workers
    /\ contended \subseteq Workers
    /\ faults \in 0 .. MaxFaults

\* Of the workers between taking the lock and letting it go, at most one has
\* not been overtaken: it is the one the lock names (check-and-set,
\* anonymize.py:201-206; staleness, :199).
OneHolder ==
    \A w, x \in Workers :
        InSection(w) /\ InSection(x) /\ w # x => {w, x} \subseteq shared

\* What a save reported written stays in both maps, so that any worker answers
\* with it and can resolve it, unless an overtaken holder or a failover erased it
\* (anonymize.py:1030-1042, :683-717).
SavedStays == acked \subseteq (fwd \cap rev) \cup excused

\* A token a worker would answer with can be resolved: by the worker, or by
\* any other through the storage, or it is about to be written; only a save
\* cut between its two secrets, a lock taken over or a failover leaves a
\* forward entry without its reverse entry (anonymize.py:811-816).
AnswersResolve ==
    \A w \in Workers : mem[w].f \subseteq mem[w].r \cup rev \cup InFlight \cup excused

\* The same of what is stored: a forward entry has its reverse entry.
StoredResolve == fwd \subseteq rev \cup InFlight \cup excused

\* A lock is only given up by its owner: a holder whose lock was taken over
\* does not release its successor's (anonymize.py:224-249).
ReleasesOwnLock ==
    [][\A w \in Workers :
        lock.owner = w /\ lock'.owner = Nobody => pc[w] = "release"]_vars

\* The time limit is below the waiting time, so a holder that died makes no
\* one give up: a TimeoutError means that the lock was written meanwhile
\* (anonymize.py:170-171, :217-222).
NoNeedlessTimeout ==
    [][\A w \in Workers :
        /\ pc[w] \in {"acquire", "take"}
        /\ pc'[w] = "idle"
        /\ faults' = faults
        => w \in contended]_vars

\* The remote store keeps the promise of TokenLedger: a save that is reported
\* has both entries of a token stored, and no later save, of any worker,
\* drops one that was (anonymize.py:683-717, :1030-1042).
ImplementsLedger == Ledger!SpecTransact

=============================================================================
