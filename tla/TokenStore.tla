------------------------------ MODULE TokenStore ------------------------------
(***************************************************************************)
(* The reversible token store of REDACT (src/src/anonymize.py) on its      *)
(* default backend, the JSON snapshot plus write-ahead log of              *)
(* FileStorageProvider.  Several gunicorn workers, each with its own       *)
(* TokenStore object and one or more request threads, share the files.     *)
(*                                                                         *)
(* Simplifications:                                                        *)
(*  - a token is the pair <<value, type>>: the code's token is the type    *)
(*    name followed by a keyed digest of the value, computed under one     *)
(*    key and taken to be free of collisions;                              *)
(*  - the reverse map is the set of tokens it resolves, since              *)
(*    get_or_create_token stores under a token the value it was made of;   *)
(*  - a line of the log is what replaying it contributes, so a line that   *)
(*    does not parse as JSON is NoEntries;                                 *)
(*  - a crash kills a worker process, not the machine: what was written    *)
(*    to a file stays written.                                             *)
(***************************************************************************)
EXTENDS Naturals, Sequences, FiniteSets

CONSTANTS
    Workers,            \* worker processes sharing the store's files
    Threads,            \* request threads of all workers
    Owner,              \* the worker a thread runs in
    Values,             \* original PII values
    Types,              \* PII types a detector may give a value
    SaveEvery,          \* save_every_n_calls
    CompactAt,          \* wal_compact_threshold_lines
    ValuesPerRequest,   \* bound: values tokenized by one request
    MaxFaults,          \* bound: crashes, failed and torn writes in a behaviour
    NoThread            \* the flock is free

ASSUME OwnerAssumption == Owner \in [Threads -> Workers]
ASSUME SaveEveryAssumption == SaveEvery \in Nat \ {0}
ASSUME CompactAtAssumption == CompactAt \in Nat \ {0}
ASSUME NoThreadAssumption == NoThread \notin Threads
ASSUME BoundsAssumption == ValuesPerRequest \in Nat /\ MaxFaults \in Nat

VARIABLES
    \* the TokenStore object of each worker
    up,         \* "down", "loading" (snapshot read, log not yet) or "up"
    forward,    \* _forward: value -> token
    reverse,    \* _reverse: the tokens it resolves
    pending,    \* _pending_forward and _pending_reverse
    calls,      \* _calls_since_save
    \* each request thread
    pc,         \* where it is in TokenStore.save()
    carried,    \* tokens in the response it is building
    batch,      \* the pending entries this save() took
    image,      \* what its compact() loaded
    \* the shared files
    snapshot,   \* token_store.json
    wal,        \* token_store.json.wal, one batch per line
    tornTail,   \* the last line of the log lacks its newline
    flock,      \* the thread that holds token_store.json.lock
    \* history
    acked,      \* tokens of the batches save_incremental() returned True for
    released,   \* tokens a worker has answered with since it started
    glued,      \* tokens of complete lines joined with a torn one
    overdue,    \* saves a worker has begun that no good save made up for:
                \* under way, or failed
    covers,     \* how many of these, the oldest ones, the batch of a thread
                \* makes up for
    faults      \* crashes and write failures so far

store == <<forward, reverse, pending, calls>>
thread == <<pc, carried, batch, image>>
files == <<snapshot, wal, tornTail>>
history == <<acked, released, glued, overdue, covers>>
vars == <<up, store, thread, files, flock, history, faults>>

Tokens == Values \X Types
EmptyDict == [v \in {} |-> v]
NoEntries == [f |-> EmptyDict, r |-> {}]

\* dict.update: the entries of e replace those of d.
Updated(d, e) ==
    [k \in DOMAIN d \cup DOMAIN e |-> IF k \in DOMAIN e THEN e[k] ELSE d[k]]

\* A forward map that the lines of a log leave on top of base, each line
\* overriding the ones before it.
LinesWith(lines, v) == {i \in DOMAIN lines : v \in DOMAIN lines[i].f}
LastLineWith(lines, v) ==
    CHOOSE i \in LinesWith(lines, v) : \A j \in LinesWith(lines, v) : j <= i
ReplayForward(base, lines) ==
    [v \in DOMAIN base \cup UNION {DOMAIN lines[i].f : i \in DOMAIN lines} |->
        IF LinesWith(lines, v) = {} THEN base[v]
        ELSE lines[LastLineWith(lines, v)].f[v]]
ReplayReverse(base, lines) == base \cup UNION {lines[i].r : i \in DOMAIN lines}

\* Faulty variant: compaction folds in the snapshot alone.
LoadWithoutLog(snap, lines) == snap

\* FileStorageProvider.load(): the snapshot with the log replayed on top.
Load(snap, lines) ==
    [f |-> ReplayForward(snap.f, lines), r |-> ReplayReverse(snap.r, lines)]

\* What a process started now could detokenize.
Recoverable == ReplayReverse(snapshot.r, wal)

\* The promise the store implements.
Ledger == INSTANCE TokenLedger WITH
    durable <- Recoverable, promised <- acked, damaged <- glued

-----------------------------------------------------------------------------
Init ==
    /\ up = [w \in Workers |-> "down"]
    /\ forward = [w \in Workers |-> EmptyDict]
    /\ reverse = [w \in Workers |-> {}]
    /\ pending = [w \in Workers |-> NoEntries]
    /\ calls = [w \in Workers |-> 0]
    /\ pc = [t \in Threads |-> "serving"]
    /\ carried = [t \in Threads |-> {}]
    /\ batch = [t \in Threads |-> NoEntries]
    /\ image = [t \in Threads |-> NoEntries]
    /\ snapshot = NoEntries
    /\ wal = <<>>
    /\ tornTail = FALSE
    /\ flock = NoThread
    /\ acked = {}
    /\ released = [w \in Workers |-> {}]
    /\ glued = {}
    /\ overdue = [w \in Workers |-> 0]
    /\ covers = [t \in Threads |-> 0]
    /\ faults = 0

-----------------------------------------------------------------------------
(* TokenStore.__init__: load() without the file lock, the snapshot first   *)
(* and the log after it.                                                   *)

LoadSnapshot(w) ==
    /\ up[w] = "down"
    /\ up' = [up EXCEPT ![w] = "loading"]
    /\ forward' = [forward EXCEPT ![w] = snapshot.f]
    /\ reverse' = [reverse EXCEPT ![w] = snapshot.r]
    /\ UNCHANGED <<pending, calls, thread, files, flock, history, faults>>

LoadWal(w) ==
    /\ up[w] = "loading"
    /\ up' = [up EXCEPT ![w] = "up"]
    /\ forward' = [forward EXCEPT ![w] = ReplayForward(@, wal)]
    /\ reverse' = [reverse EXCEPT ![w] = ReplayReverse(@, wal)]
    /\ UNCHANGED <<pending, calls, thread, files, flock, history, faults>>

-----------------------------------------------------------------------------
(* One request: get_or_create_token for its values, then one save().       *)

\* Faulty variant: the value itself is given back on a repeated request.
ValueFor(w, v, ty) ==
    IF v \in DOMAIN forward[w] THEN v ELSE <<v, ty>>

\* The token a worker answers with for a value: the one it has, whatever
\* type it was minted under, or a fresh one.
TokenFor(w, v, ty) ==
    IF v \in DOMAIN forward[w] THEN forward[w][v] ELSE <<v, ty>>

Mint(t, v, ty) ==
    LET w == Owner[t]
        token == TokenFor(w, v, ty)
        new == [x \in {v} |-> token]
    IN  /\ up[w] = "up"
        /\ pc[t] = "serving"
        /\ Cardinality(carried[t]) < ValuesPerRequest
        /\ carried' = [carried EXCEPT ![t] = @ \cup {token}]
        /\ IF v \in DOMAIN forward[w]
           THEN UNCHANGED <<forward, reverse, pending>>
           ELSE /\ forward' = [forward EXCEPT ![w] = Updated(@, new)]
                /\ reverse' = [reverse EXCEPT ![w] = @ \cup {token}]
                /\ pending' = [pending EXCEPT
                                 ![w] = [f |-> Updated(@.f, new), r |-> @.r \cup {token}]]
        /\ UNCHANGED <<up, calls, pc, batch, image, files, flock, history, faults>>

\* Faulty variant: the call being made is not counted.
SaveOverdue(w) == calls[w] >= SaveEvery

SaveDue(w) == calls[w] + 1 >= SaveEvery

\* save() short-circuited by the debounce; the response goes out.
SkipSave(t) ==
    LET w == Owner[t]
    IN  /\ up[w] = "up"
        /\ pc[t] = "serving"
        /\ ~SaveDue(w)
        /\ calls' = [calls EXCEPT ![w] = @ + 1]
        /\ carried' = [carried EXCEPT ![t] = {}]
        /\ released' = [released EXCEPT ![w] = @ \cup carried[t]]
        /\ UNCHANGED <<up, forward, reverse, pending, pc, batch, image, files,
                       flock, acked, glued, overdue, covers, faults>>

\* save() takes the pending entries; with none, save_incremental() is done.
BeginSave(t) ==
    LET w == Owner[t]
    IN  /\ up[w] = "up"
        /\ pc[t] = "serving"
        /\ SaveDue(w)
        /\ calls' = [calls EXCEPT ![w] = 0]
        /\ batch' = [batch EXCEPT ![t] = pending[w]]
        /\ pc' = [pc EXCEPT ![t] = IF pending[w].r = {} THEN "acking" ELSE "locking"]
        /\ overdue' = [overdue EXCEPT ![w] = @ + 1]
        /\ covers' = [covers EXCEPT ![t] = overdue[w] + 1]
        /\ UNCHANGED <<up, forward, reverse, pending, carried, image, files,
                       flock, acked, released, glued, faults>>

\* Faulty variant: the lock is taken without waiting for its holder.
FlockIgnored == TRUE

FlockFree == flock = NoThread

AcquireFlock(t) ==
    /\ pc[t] = "locking"
    /\ FlockFree
    /\ flock' = t
    /\ pc' = [pc EXCEPT ![t] = "appending"]
    /\ UNCHANGED <<up, store, carried, batch, image, files, history, faults>>

\* Faulty variant: the log is opened with "w".
WrittenAfresh(b) == <<b>>

\* The log after line b is written at its end: behind a line without its
\* newline the two become one line, which no longer parses.
Written(b) ==
    IF tornTail THEN [wal EXCEPT ![Len(wal)] = NoEntries] ELSE Append(wal, b)

AppendLine(t) ==
    /\ pc[t] = "appending"
    /\ wal' = Written(batch[t])
    /\ tornTail' = FALSE
    /\ glued' = IF tornTail THEN glued \cup batch[t].r \cup wal[Len(wal)].r ELSE glued
    /\ pc' = [pc EXCEPT ![t] = IF Len(wal') >= CompactAt THEN "loading" ELSE "unlocking"]
    /\ UNCHANGED <<up, store, carried, batch, image, snapshot, flock,
                   acked, released, overdue, covers, faults>>

\* compact(), called with the lock held.
CompactLoad(t) ==
    /\ pc[t] = "loading"
    /\ image' = [image EXCEPT ![t] = Load(snapshot, wal)]
    /\ pc' = [pc EXCEPT ![t] = "writing"]
    /\ UNCHANGED <<up, store, carried, batch, files, flock, history, faults>>

CompactWrite(t) ==
    /\ pc[t] = "writing"
    /\ snapshot' = image[t]
    /\ image' = [image EXCEPT ![t] = NoEntries]
    /\ pc' = [pc EXCEPT ![t] = "removing"]
    /\ UNCHANGED <<up, store, carried, batch, wal, tornTail, flock, history, faults>>

CompactRemove(t) ==
    /\ pc[t] = "removing"
    /\ wal' = <<>>
    /\ tornTail' = FALSE
    /\ pc' = [pc EXCEPT ![t] = "unlocking"]
    /\ UNCHANGED <<up, store, carried, batch, image, snapshot, flock, history, faults>>

\* Faulty variant: the lock is never given back.
KeepFlock(t) ==
    /\ pc[t] = "unlocking"
    /\ pc' = [pc EXCEPT ![t] = "acking"]
    /\ UNCHANGED <<up, store, carried, batch, image, files, flock, history, faults>>

ReleaseFlock(t) ==
    /\ pc[t] = "unlocking"
    /\ flock' = NoThread
    /\ pc' = [pc EXCEPT ![t] = "acking"]
    /\ UNCHANGED <<up, store, carried, batch, image, files, history, faults>>

\* Faulty variant: everything pending is dropped, saved or not.
NonePending(b, saved) == NoEntries

\* The pending entries left once those of a batch are saved.
StillPending(b, saved) ==
    [f |-> [v \in DOMAIN b.f \ DOMAIN saved.f |-> b.f[v]], r |-> b.r \ saved.r]

\* save_incremental() returned True: only this batch leaves the pending
\* entries, and the response goes out.  The batch made up for every save begun
\* before it, not for those begun since.
AckSave(t) ==
    LET w == Owner[t]
        Left(n) == IF n < covers[t] THEN 0 ELSE n - covers[t]
    IN  /\ pc[t] = "acking"
        /\ pending' = [pending EXCEPT ![w] = StillPending(@, batch[t])]
        /\ acked' = acked \cup batch[t].r
        /\ released' = [released EXCEPT ![w] = @ \cup carried[t]]
        /\ overdue' = [overdue EXCEPT ![w] = Left(@)]
        /\ covers' = [u \in Threads |-> IF Owner[u] = w THEN Left(covers[u]) ELSE covers[u]]
        /\ pc' = [pc EXCEPT ![t] = "serving"]
        /\ carried' = [carried EXCEPT ![t] = {}]
        /\ batch' = [batch EXCEPT ![t] = NoEntries]
        /\ UNCHANGED <<up, forward, reverse, calls, image, files, flock, glued, faults>>

-----------------------------------------------------------------------------
(* Faults.                                                                 *)

\* save_incremental() raises: the with block releases the lock, the request
\* is answered with an error, the entries stay pending.
Abandon(t) ==
    /\ faults < MaxFaults
    /\ faults' = faults + 1
    /\ covers' = [covers EXCEPT ![t] = 0]
    /\ flock' = NoThread
    /\ pc' = [pc EXCEPT ![t] = "serving"]
    /\ carried' = [carried EXCEPT ![t] = {}]
    /\ batch' = [batch EXCEPT ![t] = NoEntries]
    /\ image' = [image EXCEPT ![t] = NoEntries]
    /\ UNCHANGED <<up, store, snapshot, acked, released, overdue>>

\* The write fails before its first byte.
FailAppend(t) ==
    /\ pc[t] = "appending"
    /\ Abandon(t)
    /\ UNCHANGED <<wal, tornTail, glued>>

\* The write stops part way: inside the line, or just before its newline.
TearAppend(t) ==
    /\ pc[t] = "appending"
    /\ \E b \in {NoEntries, batch[t]} : wal' = Written(b)
    /\ tornTail' = TRUE
    /\ glued' = IF tornTail THEN glued \cup wal[Len(wal)].r ELSE glued
    /\ Abandon(t)

\* compact() raises: its temporary file is removed, the snapshot untouched.
FailCompact(t) ==
    /\ pc[t] \in {"loading", "writing", "removing"}
    /\ Abandon(t)
    /\ UNCHANGED <<wal, tornTail, glued>>

\* A worker dies; its memory and its flock go with it.  A process killed
\* inside a write is TearAppend or FailAppend followed by Crash.
ThreadsOf(w) == {t \in Threads : Owner[t] = w}

Crash(w) ==
    LET Cleared(fn, val) == [t \in Threads |-> IF Owner[t] = w THEN val ELSE fn[t]]
    IN  /\ up[w] # "down"
        /\ faults < MaxFaults
        /\ faults' = faults + 1
        /\ up' = [up EXCEPT ![w] = "down"]
        /\ forward' = [forward EXCEPT ![w] = EmptyDict]
        /\ reverse' = [reverse EXCEPT ![w] = {}]
        /\ pending' = [pending EXCEPT ![w] = NoEntries]
        /\ calls' = [calls EXCEPT ![w] = 0]
        /\ pc' = Cleared(pc, "serving")
        /\ carried' = Cleared(carried, {})
        /\ batch' = Cleared(batch, NoEntries)
        /\ image' = Cleared(image, NoEntries)
        /\ flock' = IF flock \in ThreadsOf(w) THEN NoThread ELSE flock
        /\ released' = [released EXCEPT ![w] = {}]
        /\ overdue' = [overdue EXCEPT ![w] = 0]
        /\ covers' = Cleared(covers, 0)
        /\ UNCHANGED <<files, acked, glued>>

-----------------------------------------------------------------------------
Next ==
    \/ \E w \in Workers : LoadSnapshot(w) \/ LoadWal(w) \/ Crash(w)
    \/ \E t \in Threads :
        \/ \E v \in Values, ty \in Types : Mint(t, v, ty)
        \/ SkipSave(t)
        \/ BeginSave(t)
        \/ AcquireFlock(t)
        \/ AppendLine(t)
        \/ CompactLoad(t)
        \/ CompactWrite(t)
        \/ CompactRemove(t)
        \/ ReleaseFlock(t)
        \/ AckSave(t)
        \/ FailAppend(t)
        \/ TearAppend(t)
        \/ FailCompact(t)

Spec == Init /\ [][Next]_vars

\* The steps of a save() that no other process can hold up.
SaveStep(t) ==
    AppendLine(t) \/ CompactLoad(t) \/ CompactWrite(t) \/ CompactRemove(t)
        \/ ReleaseFlock(t) \/ AckSave(t)

\* A runnable thread is eventually run; a thread blocked in flock() gets the
\* lock if it is free again and again.
Fairness ==
    \A t \in Threads : WF_vars(SaveStep(t)) /\ SF_vars(AcquireFlock(t))

FairSpec == Spec /\ Fairness

-----------------------------------------------------------------------------
Dicts == UNION {[S -> Tokens] : S \in SUBSET Values}
Batches == [f : Dicts, r : SUBSET Tokens]

\* Every variable has its type.
TypeOK ==
    /\ up \in [Workers -> {"down", "loading", "up"}]
    /\ forward \in [Workers -> Dicts]
    /\ reverse \in [Workers -> SUBSET Tokens]
    /\ pending \in [Workers -> Batches]
    /\ calls \in [Workers -> Nat]
    /\ pc \in [Threads -> {"serving", "locking", "appending", "loading", "writing",
                           "removing", "unlocking", "acking"}]
    /\ carried \in [Threads -> SUBSET Tokens]
    /\ batch \in [Threads -> Batches]
    /\ image \in [Threads -> Batches]
    /\ snapshot \in Batches
    /\ wal \in Seq(Batches)
    /\ tornTail \in BOOLEAN
    /\ flock \in Threads \cup {NoThread}
    /\ acked \in SUBSET Tokens
    /\ released \in [Workers -> SUBSET Tokens]
    /\ glued \in SUBSET Tokens
    /\ overdue \in [Workers -> Nat]
    /\ covers \in [Threads -> Nat]
    /\ faults \in Nat

\* A token whose save was acknowledged survives every crash, restart and
\* compaction of any worker, unless its line was joined with a torn one.
AckedSurvive == acked \subseteq Recoverable \cup glued

\* The same without the exception: what load()'s comment promises, that a
\* crash in an append loses at most the one incomplete batch.
AckedAlwaysRecoverable == acked \subseteq Recoverable

\* A token a worker would answer with again without minting it is on disk or
\* still waiting to be saved: no save, failed save or race of two threads
\* drops it in between.
NothingForgotten ==
    \A w \in Workers : \A v \in DOMAIN forward[w] :
        forward[w][v] \in Recoverable \cup pending[w].r \cup glued

\* A worker dying now loses the answered tokens of at most SaveEvery - 1
\* requests, and of SaveEvery - 1 more for every save that is still under way
\* or has failed and was begun after the last good one.
DebounceLossBound ==
    \A w \in Workers :
        Cardinality(released[w] \ (Recoverable \cup glued)) <=
            ValuesPerRequest * (SaveEvery - 1) * (1 + overdue[w])

\* No step makes a recoverable token unrecoverable, except writing behind a
\* torn line.
RecoverableForever == [][Recoverable \ glued' \subseteq Recoverable']_vars

\* The store implements the promise of TokenLedger: a token is on disk before
\* its save is acknowledged, and only writing behind a torn line damages it.
ImplementsLedger == Ledger!Spec

\* A save() that is waiting for the lock or holds it always ends.
SaveEnds == \A t \in Threads : (pc[t] # "serving") ~> (pc[t] = "serving")

=============================================================================
