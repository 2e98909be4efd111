# A TLA+ verification project for REDACT

REDACT takes security log lines, detects personal data in them, replaces it
(redaction, one-way pseudonyms, reversible tokens) and records what it did. This
directory holds TLA+ modules that model its stateful parts, TLC configurations that
model-check them on small instances, and theorems that the TLA+ proof system (TLAPS)
proves for every instance. `PROJECT.json` lists components, runs, mutants, the map
from definitions to source lines, findings, hazards and theorems.

Paths below are those of the repository, whose own top directory is called `src/`
here: `src/src/anonymize.py` is the repository's `src/anonymize.py`.

## 1. The system

| Component | State | Operations | Interacts with |
|---|---|---|---|
| Token store (`anonymize.py`) | per process: forward and reverse map, pending entries, call counter; shared: snapshot file, write-ahead log, lock file | load, get_or_create_token, save (debounced, incremental), compact, resolve | every gunicorn worker through the files; `service.py`, `pipeline.py` as callers |
| Redis and Vault providers (`anonymize.py`) | Redis: two hashes and what a replica has of them; Vault: a forward and a reverse secret, a lock secret with owner, age and version | load, save, save_incremental, lock_for_save | `TokenStore.save()`: its incremental path on Redis, its lock-load-merge-save fallback on Vault |
| Policy (`anonymize.py`, `policy_watcher.py`, `policy_audit.py`) | three sets of types per process, last known hash, log of changes | load_policy, check_now (poller thread and admin endpoint), append to the log | the policy file an operator edits; `anonymize_by_policy()` in the request thread |
| Service (`service.py`) | one token store, one policy watcher, one sampler per worker process | /anonymize, /detokenize, /admin/* | all of the above |
| Span transformation (`anonymize.py`) | none | dedup_spans, redact, pseudonymize, tokenize, anonymize_by_policy | policy, token store |
| Queue consumer (`queue_consumer.py`) | position in the list or partition, the documents of one event | the Redis loop, the Kafka loop, process_event, index_document | Redis or Kafka, redact-service, OpenSearch |
| Schema trust (`schema_trust*.py`) | the declared types, loaded at import; the sampler's bounded queue and its counters | load_schema_trust, maybe_sample (request thread), _process_one (daemon thread) | detection, which trusts declared fields; the audit log |
| Audit (`audit.py`) | none | build_audit_event | the service |
| Drift check (`drift.py`, `fields.py`) | none | field_stats, compare, compare_all | the weekly tasks |
| Scheduled tasks (`airflow_tasks.py`, `infra/dags/`) | two current key files, one directory of retired keys, the gauges on the Pushgateway | a chain of five tasks with retries: sample, drift check, push, two key rotations | Airflow, Prometheus, the keys the service reads |
| Detection ensemble (`detect.py`, `fields.py`, `flattened_names.py`) | none that changes | four recognisers, the field gate, schema-aware detection, offsets mapped back | the service |
| Language layers, field policy, employee list (`es_*`, `fr_*`, `ru_*`, `id_*`, `lang_layers.py`, `field_policy.py`, `employee_name_filter.py`) | none that changes | text to spans | neither the service nor the queue consumer calls them |
| Conformal fusion (`pccf*.py`), format-preserving encryption, evaluation and batch scripts | none that is shared | | |
| Deployment (`docker-compose.yml`, `Dockerfile`, `infra/`) | | | gunicorn sync workers, each with its own poller and sampler thread; the development server has threads |

### What is hard here

* **Interleaving.** Several worker processes append to one log and compact it; the
  only thing between them is `flock()` on a sibling file, and `load()` does not take
  it. In one process, a poller thread replaces the policy a request thread is using,
  and in the development server several request threads share one `TokenStore`.
* **Crashes and partial failure.** A worker dies inside an append, between the new
  snapshot and the removal of the log, or with unsaved tokens in memory. Indexing
  fails after some of an event's documents.
* **Ordering and redelivery.** A commit of one message covers the ones before it; a
  consumer that lost its partition goes on; messages are delivered again.
* **Stale state.** A hash that was read before the file it stands for, a policy that
  is looked up twice for one span, offsets into a line from which pieces were cut.
* **Time limits and retries.** A Vault lock is taken from a slow holder, a lost answer
  makes a worker wait for its own lock, a weekly task is tried again half way through
  a key rotation while the next run has begun.
* **Limits.** The sampler's queue is full, a drift rate is exactly at its threshold.
* **Progress.** Saves wait for one lock, workers must converge on one policy, the
  queues must drain, a run must end.

`PROJECT.json` lists each of these at its line ("hazards"), with the properties that
would catch it going wrong or the reason why none does yet.

### What makes each component correct

* Token store: what was acknowledged can always be resolved from the files; what a
  worker would answer without minting again is saved or still pending; a crash loses
  a bounded number of requests' tokens; a save ends.
* Policy: no canonical type is ever let through; the log names the policy in force;
  workers converge to the file.
* Queue: no message disappears without a reason; delivering twice writes once; every
  message gets to its end.
* Providers: what a save reported written stays in both maps; a token a worker would
  answer with can be resolved; one holder at a time, unless one outlived the limit; no
  worker frees another's lock; a dead holder makes no one give up.
* Spans: every typed span that was found begins under a span of its type that is replaced,
  and what lies under both is gone from the answer, but for the tail of a span that another
  type's is nested in; disjoint spans are each replaced once, by a token made of the text they
  cover, and the rest stays; a declared field is covered; the field gate loses only what it cuts
  out and makes nothing up.
* Sampling: the request never waits; no sample disappears uncounted; a drift that was
  counted is reported; an exception does not end the sampling.
* Weekly tasks: a key that was in use is kept; no run goes on over an empty key file; the
  gauges show what the last pushed check flagged; a run ends.

## 2. Modules

| Module | Models | Checked by |
|---|---|---|
| `TokenLedger` | the promise of a token store, abstractly: record, then promise; only damage takes away | refined by `TokenStore` and `RemoteStore` |
| `TokenStore` | `TokenStore` with `FileStorageProvider`, workers, threads, crashes, failed and torn writes | `store`, `store_threads`, `store_torn` |
| `FreshWorker` | `TokenStore` plus the history of each worker's start | `store_fresh` |
| `TokenStoreProofs` | type correctness and durability of `TokenStore`, its refinement of `TokenLedger`, that a save goes on | TLAPS |
| `TokenStoreMemory` | that `TokenStore` forgets nothing between memory and disk, and what a crash may lose | TLAPS |
| `PolicyReload` | policy file, import, watcher, log of changes, the request that uses the policy | `policy`, `policy_audit`, `policy_stale` |
| `PolicyReloadProofs` | type correctness, fail-closed policy and the log of `PolicyReload`, that checks approach the file | TLAPS |
| `QueueConsumer` | both consumer loops and `process_event()` | `queue`, `queue_lost` |
| `QueueConsumerProofs` | all safety properties of `QueueConsumer`, that the consumers go on | TLAPS |
| `RemoteStore` | `TokenStore` with `VaultStorageProvider` and `RedisStorageProvider` | `remote` |
| `RemoteStoreProofs` | all properties of `RemoteStore`, its refinement of `TokenLedger` | TLAPS |
| `SpanDetection` | operators only: recognisers, fields, field gate, schema trust, `dedup_spans()`, rewriting | through `RequestPath`, `WeeklyTasks` |
| `RequestPath` | the `/anonymize` handler composed with detection and rewriting, and the sampler's thread | `request` |
| `SpanDetectionProofs` | lemmas about the operators of `SpanDetection`, for lines of any length | TLAPS |
| `RequestPathProofs` | all safety properties of `RequestPath` (`NeverWaits`, which is about ENABLED, by its guards), that the sampling goes on | TLAPS |
| `WeeklyTasks` | the weekly DAG, drift check, push, key rotations, retries, overlapping runs | `weekly` |
| `WeeklyTasksProofs` | all safety properties of `WeeklyTasks`, that a run goes on | TLAPS |
| `MCTokenStore`, `MCFreshWorker`, `MCPolicyReload`, `MCQueueConsumer`, `MCRemoteStore`, `MCRequestPath`, `MCWeeklyTasks` | the small instances | |

### TokenStore

One worker is one process with one `TokenStore` object (`forward`, `reverse`,
`pending`, `calls`); threads belong to workers through the constant `Owner`. The three
files are `snapshot`, `wal` (a sequence of batches, `NoEntries` for a line that does
not parse) with `tornTail` for a last line without newline, and `flock`.

| Action | Code |
|---|---|
| `LoadSnapshot`, `LoadWal` | `TokenStore.__init__` calling `load()`: two reads, no lock |
| `Mint` | `get_or_create_token()` for one value of a request |
| `SkipSave`, `BeginSave` | `save()` up to the copy of the pending entries: debounced or not; an empty batch goes straight to the acknowledgement |
| `AcquireFlock`, `AppendLine`, `CompactLoad`, `CompactWrite`, `CompactRemove`, `ReleaseFlock` | `save_incremental()` and `compact()`: every file operation is a step of its own |
| `AckSave` | the rest of `save()`: the batch leaves the pending entries, the response goes out |
| `FailAppend`, `TearAppend`, `FailCompact` | an exception in the section: the lock is released, the request fails, the entries stay pending |
| `Crash` | the process dies at any point; a torn write is `TearAppend` followed by `Crash` |

Tokens are pairs of value and type, so the digest is taken to be free of collisions.
History variables (`acked`, `released`, `glued`, `overdue`, `covers`) state properties only
and guard nothing. `overdue` counts the saves of a worker that are under way or failed and
that no good save has made up for; `covers` says how many of these, the oldest ones, the
batch of a save under way includes.

The properties: `AckedSurvive` and `RecoverableForever` (durability), `NothingForgotten`
(no save, failed save or race drops an entry between memory and disk),
`DebounceLossBound` (the comment in `service.py:259-271` says a crash loses at most
`save_every_n_calls - 1` requests; with saves that failed or are still under way the bound
is that many again for each of those, whichever thread began them), `SaveEnds`, and the
refinement `ImplementsLedger`.

The exception `glued` in them is a finding: see section 6.

### PolicyReload

A worker's life is `Import` (`load_policy()` in `service.py:47`), `StartWatcher` (the
watcher hashes the file), then checks and requests that interleave. `check_now()` is
split where it reads the file: `HashFile`, then one of `ReloadMissing`,
`ReloadAccepted`, `ReloadRejected`, `ReloadFails`, then the append to the log, which
may fail. `ReloadFails` is every exception but `PolicyConfigError`, which leaves `check_now()`
and is caught by the poll loop: the file went away between `exists()` and `open()`, it is not
text (`Malformed` stands for this and for the structures that are rejected), or it cannot
be read, which may happen with any file (at most `MaxFaults` times).
A request is split span by span in the two loops that consult the policy.

`load_policy()` assigns three module globals without a lock. CPython 3.12, the
interpreter of the image, switches threads at calls and at backward jumps; the three
assignments hold neither, nor do the three membership tests of one span, so each is
one step. On an interpreter that may switch anywhere this would no longer hold.

### QueueConsumer

The transport is chosen in `Init`, as `main()` does. The Kafka client is modelled by
what the loop relies on: it fetches batches, its position moves past a message before
the loop body sees it, `commit()` commits the position, and the coordinator may take
the partition away. A Redis list gives a message away for good. The documents of a
message are records that carry the index (with its date), the part and the id, so
that overwriting and duplicating are different things.

### RemoteStore

Every value has one type here, so a token stands for its value and each map is the set of
values it holds: `fwd` and `rev` in the backend, `mem` in a worker. The backend is
chosen in `Init`. A gunicorn worker serves one request at a time, and every request saves;
the debounce is in `TokenStore`.

| Action | Code |
|---|---|
| `StartForward`, `StartReverse` | `TokenStore.__init__` calling `load()`: two reads, no lock |
| `Request` | `get_or_create_token()` and the start of `save()` |
| `HSet`, `Replicate`, `Failover` | Redis: the transaction of `save_incremental()`; the replica; Sentinel's promotion of a replica that lags |
| `ReadFree`, `GiveUp`, `Take`, `TakeRefused`, `TakeFails` | `_VaultLockContext.__enter__`: read, decide, check-and-set; refused, or failed with the write applied or not (every exception counts as a lost race); time limit |
| `LoadForward`, `LoadReverse`, `WriteForward`, `WriteReverse` | load, merge and the two writes of `TokenStore.save()`'s fallback |
| `ReadOwner`, `Release` | `__exit__`: only the owner frees the lock, by check-and-set, and a refusal is swallowed |
| `Tick` | the lock ages, the waiters wait |
| `CallFails`, `WriteUnheard`, `Crash` | a call raises and changed nothing; a write of a secret or the transaction is applied and raises all the same; a worker dies |

The version that check-and-set compares is `current`, the workers whose last read of the
lock is still the latest. `shared` marks sections that overlap one that outlived the time
limit, `contended` the workers that waited on while the lock was written, `excused` the
values that a fault or a takeover cut from a map: what the properties except is thereby
tied to its cause. The refinement `ImplementsLedger` reads `TokenLedger` with a token durable
when both its entries are stored, promised when a save of it was reported, damaged when
`excused`. Here one step of the backend may do what is three steps of a ledger (a `HSET` that
records and is answered, a failover that drops), so it is `SpecTransact` that is implemented: the
same promise, kept by one transaction. The model never calls Redis's full `save()` or its lock: its
`save_incremental()` returns true or raises, so `TokenStore.save()` does not get there.

### SpanDetection and RequestPath

A line is a sequence of cells, each a stretch of text that the code tells apart only by
what recognises it (a field name, an address, a name, a high-entropy token, ...), and a
recogniser is what it finds among cells. On this data `SpanDetection` translates all of
the control: the merging order of `detect_all()`, `extract_fields()`, the location of a
field's value with its moving cursor and second search, the field gate with its skip and
its cut, splicing and mapping back, `load_schema_trust()` and the trusted fields,
`dedup_spans()`, and the replacement from right to left with Python's slices (a slice past
the end is short, never an error). Its loops are recursive functions, none of its operators is
RECURSIVE. No word of a line is part of two e-mail addresses: of `a@b@c` the patterns find the
first address only, and the model does not read such lines.

The pattern and Presidio differ on e-mail addresses, and the model keeps that: the pattern stops
behind the second label of the host (`Emails`), Presidio takes all of it (`LongEmails`, with the
cell `lab` for what follows), and an IP address or a number before the @ is a span of its own
inside the address. `SyslogFields` reads a message of a known wording by its places (sshd's user
and address, the user of su and systemd-logind, the address of dhclient and NetworkManager)
and every other one as key=value pairs. A high-entropy token is what `_TOKEN_RE` takes for one, `=` and
the key in front of it included. Not read as they are in the code: CloudTrail's JSON, the syslog messages of cron,
of Wi-Fi and of failing units (their fields are a command or a unit's name, and no property turns on
them), and CREDIT_CARD and MRN, which are found by one pattern on one token as SSN and IP are and have no cell of their own.

`RequestPath` runs a worker on it: `Receive`, then for each declared field `NotSampled` or
`Sampled`, then `Offer` with `CountOffer` (the count follows the put, as in the code) or
`Drop`, then `Answer` and `Reply`. The sampler's thread is `Get`, `Check`, `AppendEvent`,
and the two places where an exception hits it, `CheckFails` and `AppendFails`. What the
detection makes of a request's line depends on the line alone and is computed in `Init`.

### WeeklyTasks

Runs of the DAG start in order and overlap freely (nothing sets `max_active_runs`). A
task is a step or, for the rotations, three or four: `ReadKey` (the old key is read and
the file it retires to opened, hence emptied) or `ReadNoKey`, `Retire`, `Truncate`,
`WriteKey`. `Fail` ends an attempt anywhere, `Retry` begins the task from its start, at a
later second. A key is a number, a file's content a key, empty or absent, and
`retired` is indexed by the time stamp in the file's name, which both kinds of key share.
`field_stats()` counts, for each log type and field that `extract_fields()` finds in a window,
the entries and those whose value has a span of a critical type; key=value pairs and syslog
fields are read by the operators of `SpanDetection`. A push replaces all gauges of the job, and
an attempt may fail behind it (`Failing`): the retry pushes again.
`compare()` and `compare_all()` work on the field statistics of two windows; the
comparison is exact except at equality, where floating-point rounding decides and `low` is
the set of fields it decides downwards.

## 3. Runs

| Run | Expect | Instance | What it shows |
|---|---|---|---|
| `store` | pass | 2 workers with 1 thread each, 2 values, save every 2 calls, compact at 2 lines, 2 faults | durability, no forgotten entry, bounded loss, refinement |
| `store_threads` | pass | 1 worker with 2 threads, 2 values, save every 2 calls, 1 fault | two saves of one process, bounded loss with both under way; every save ends |
| `store_torn` | violation of `AckedAlwaysRecoverable` | as `store` | an acknowledged batch is lost behind a torn line |
| `store_fresh` | violation of `FreshStoreComplete` | 2 workers, no faults | a store opened during a compaction is incomplete |
| `policy` | pass | 1 worker, 2 types, 6 kinds of file, 3 edits, 1 fault | nothing let through, log and policy agree, convergence |
| `policy_audit` | violation of `AuditTellsAction` | 1 worker, 1 edit | an event names a method that was not used |
| `policy_stale` | violation of `Converge` | 1 worker, 1 edit | an edit during start is never loaded |
| `queue` | pass | 2 consumers, 3 messages, batches of 2, 1 audit event, 1 midnight, 2 disruptions | nothing lost without a reason, no duplicates, all handled |
| `queue_lost` | violation of `CommittedIsWritten` | 1 consumer, 3 messages, no disruptions | a commit passes over a message that raised |
| `remote` | pass | 2 workers, 2 values, time limit 2 ticks, waiting time 3, 1 fault; both backends; symmetric in workers and values | saves are kept, answers resolve, the lock is safe up to its time limit, refinement |
| `request` | pass | lines of up to 3 segments out of 15, and syslog messages, 2 log types and none, 9 schema-trust files of which 2 are refused, a queue of 1, 2 requests, 1 exception | rewriting, field gate, schema trust, sampling |
| `weekly` | pass | 2 runs, 1 retry, 1 tick of the clock, 2 faults, threshold 1/2, at least 2 entries | keys, gauges, and that runs end |

**Why the bounds are enough to meet the cases.** Two values and a compaction at two
lines make every run compact with a line of another worker in the log; two faults are
a torn append and a crash, or two failed saves, in one behaviour. Saving every second
call makes both outcomes of the debounce happen. Two values are one per request of
each worker and both workers may mint the same one. Workers share nothing in
`PolicyReload` except the file and the set of log entries, so one worker shows all its
interleavings with the operator; three edits allow a file to change and change back
around the two reads. In `queue`, batches of two leave a second message in the hands
of a consumer that has lost its partition, and two disruptions are a revocation and a
crash. In `remote`, a time limit of two ticks below a waiting time of three is the code's
order (10 s, 15 s) at its smallest with a tick on each side of the limit; one fault is a crash, a
failed call, a lost answer (of the lock's write or of a secret's) or a failover, and a takeover by time needs no fault, so that two
things can go wrong in one save. In `request`, three segments are the least that put a
covered field, an uncovered one and loose text in one line in any order, with a repeated
field name or value; a queue of one is full with one sample waiting while another is
at work. In `weekly`, two runs are what an overlap takes, two faults what a retry
of a rotation of each takes, and one retry instead of the code's two differs only in how
often the same attempt is made. Deadlock is checked in the `store` and `remote` runs. In `policy` a
worker never starts on a file it rejects, and in the others the work is finite (the queue is empty, the
requests are answered, the runs have ended), so there it is not.

**Fairness.** `store_threads`: weak fairness of the steps of a save, which nothing
blocks once the lock is held, and strong fairness of taking the lock, since a blocked
`flock()` competes with other threads each time it is free; the kernel's queue for the
lock gives at least this. `policy`: weak fairness of start and check, because gunicorn
starts every worker and the poller thread loops for ever (its loop catches every
exception). Requests and edits are not fair. `queue`: weak fairness of a running
consumer's loop. Nothing makes a dead consumer restart (the compose service has no
restart policy), so `EveryMessageHandled` excuses behaviours in which all are dead at
some moment. `request`: weak fairness of the handler and of the sampler's thread, each a
thread of one process that nothing blocks. `weekly`: weak fairness of each run's steps;
Airflow makes a retry that is due, a failure is never fair. `remote` checks no liveness:
Vault's lock has no queue and promises none.

**Mutants.** Every property of a passing run has a faulty variant of a mapped definition
(marked "Faulty variant" in the modules) under which TLC finds it violated: a lock taken
without waiting, a log opened for writing instead of appending, pending entries cleared
wholesale, a compaction that forgets the log, a policy check that accepts a missing
type, a poller that dies, an offset committed early, ids drawn afresh on redelivery, a
lock written without check-and-set, a secret written without the merge, spans applied from
the left, a field located only behind the last one, an old key that is not written out.

## 4. Proofs

`TokenStoreProofs` proves `TypeCorrect == Spec => []TypeOK` for any finite or infinite
sets of workers, threads, values and types. It rests on the assumptions declared in
`TokenStore` (`OwnerAssumption`, `SaveEveryAssumption`, `CompactAtAssumption`,
`NoThreadAssumption`, `BoundsAssumption`), which TLC evaluates in every run.

It also proves three theorems from one inductive invariant. `AckedSurvive`
is not inductive: that a compaction may replace the snapshot and remove the log depends
on who holds the lock, on what the compaction read, and on what the snapshot already
holds when the log goes. The invariant `DurableInv` adds

* `TornTailHasLine`: a torn last line is a line;
* `HolderOwnsLock`: a thread in the locked section holds the lock, so there is one;
* `ImageCurrent`: what a compaction read is still all that is recoverable;
* `SnapshotComplete`: once the snapshot is written, it alone resolves every token
  the log does;
* `BatchOnDisk`: a thread past its append has its batch on disk (or glued).

Every conjunct was checked with TLC on the `store` instance before it was proved. The
proof has a step for each action and, under it, one for each conjunct it can disturb. From it

* `AckedTokensSurvive`: `Spec => []AckedSurvive`;
* `RecoverableStays`: `Spec => RecoverableForever`;
* `StoreImplementsLedger`: `Spec => Ledger!Spec`.

`PolicyReloadProofs` proves `PolicyTypeCorrect`, `NoSpanUntouched`
(`Spec => []EverySpanHandled`) and `LogNamesPolicyAlways` (`Spec => []LogNamesPolicy`) from
one invariant, `ReloadInv`, under `FileStatesAssumption`, `NoPolicyAssumption` and
`BuiltinAssumption` (the built-in policy covers every canonical type). `EverySpanHandled`
speaks of what was applied, so it needs `PoliciesAccepted`: every policy in force was
accepted. `LogNamesPolicy` speaks of idle workers; between the reload and its append
to the log the policy is explained by the check under way (`LogFollowsPolicy`), and a
worker that has no watcher yet by the file it started on (`ImportInForce`).

`TokenStoreMemory` proves `NothingIsForgotten` (`Spec => []NothingForgotten`) from `DurableInv` and
one more invariant. The end of a save takes the entries of its batch out of the
pending ones, forward entries by value and reverse entries by token, and the two must stay
a pair although another thread of the worker has added entries meanwhile. So `MemoryInv`
says that pending entries and batches are `Exact` (each token under its own value) and
both `PartOf` the worker's dictionary, hence agree with each other; that a worker still
starting has neither; and that the files map values to tokens they resolve
(`FilesFiled`), so that a restarted worker knows nothing that is not on disk.

It also proves `LossIsBounded` (`Spec => []DebounceLossBound`), for any number of threads per
worker, any cadence and any number of values per request. A set of lost tokens can only be bounded by saying which
request brought each of them: `LossInv` assigns every answered token that is not on
disk to an *epoch*, the stretch of calls between two saves of its worker. There are
`1 + overdue[w]` epochs, each brings at most `SaveEvery - 1` requests' tokens (`CallsBelowLimit`:
the call that reaches the limit saves before it is answered), every token of an epoch is
on disk or pending, and the batch of a save under way has the epochs it covers; when it is on
disk they no longer count, also when the saves of two threads end in the other order.

`RemoteStoreProofs` proves all eight properties of `RemoteStore` from `IInv`, under
`NobodyAssumption` and `LimitsAssumption` (the time limit is below the waiting time):

* `LockInv`: of the sections that are not `shared`, there is one and the lock names it; what
  a worker of `current` read of the lock is still so. Check-and-set gives exclusion only
  through this: a worker that may write has read the latest version, which was free.
* `DataInv`: a holder that was not overtaken has loaded all there is (`ImageCurrent`), so what
  its merge writes only adds; a reverse entry has its forward entry; what a replica holds
  is paired.
* `WaitExplained`: a waiter that nobody disturbed has waited no longer than the lock is old,
  so it finds the lock stale before its own deadline.

`RemoteImplementsLedger` (`Spec => Ledger!SpecTransact`) needs what no single property says:
that a token with both entries keeps both at *every* step, acknowledged or not, but for what a
fault excuses (`PairsStay`). A write of one secret by a holder that was not overtaken only adds,
because its merge has all there is; that of an overtaken one drops what it did not read, which
is then excused.

`QueueConsumerProofs` proves all three safety properties of `QueueConsumer`, on both transports, under
`MessageAssumption`, `KindAssumption`, `QueueBoundsAssumption` and `NobodyAssumption`. `WritingInv`
is the core of `DoneOrExplained`: what a consumer has still to write is the end of one of the
two answers a message can have, and the beginning is in OpenSearch. `PassedInv` says that
the client's position is only past messages that are explained or in hand, because
every way out of the loop body is one or the other; the commit is behind the position. `KafkaIds` gives a
document's id from its message and part; on Redis ids are random, and `RedisHands`,
`RedisFresh` and `RedisParts` say that a message is in one pair of hands and each part
written once.

`WeeklyTasksProofs` proves all four safety properties of `WeeklyTasks`, for any windows and thresholds. `KeptInv`:
every issued key is in a current or a retired file or excused, and the one a run is about to truncate is already retired. `ClockInv` counts the
retries that have still to happen, each paid for by a fault, so that time stamps stay
bounded. `ResultInv` is the lemma that the two comparisons agree on any two windows.

`RequestPathProofs` proves type correctness, `SamplesConserved` and `DriftReported` for any
requests and any queue, whatever the detection finds: nothing in them depends on it. Its
other theorems are about what the detection finds and what becomes of it, for every line,
every log type and every schema-trust file, under `RequestLines` (a line is a sequence of
cells, and no word of it is part of two e-mail addresses). The invariant `WorkInv` says that what
the handler works with is what the operators give for its request; from there the
proofs are about the operators, and `SpanDetectionProofs` has what they need: how far a
loop, as a recursive function, has come after each of its elements; that `Sorted`, `Arranged` and `Chosen` give
the elements they should, in order.

* `GateHidesOnlyCuts` (`GateLosesOnly`) and `GateMakesNothingUp` (`GateAddsNothing`). The positions that
  splicing keeps increase, so a recogniser's finding on the spliced line is one on
  the line itself unless a cut falls inside it or at its edge: a stretch of kept cells that is
  together in the line is together in what is left of it, and the converse holds if no cut
  lies between. A run of names can only be extended or cut short at a cut. The field
  name in front of a value is cut with it, hence never left dangling.
* `DeclaredAreCovered` (`DeclaredCovered`). The cursor of the search may be anywhere when a declared
  field's turn comes. If the value occurs once, the search finds that place ahead of the cursor
  or, in its second pass from the start of the line, behind it; what a step found stays
  among the found to the loop's end.
* `RewritingIsExact` (`RewriteExact`). `DedupSpans` keeps all of a sequence of spans that do not overlap,
  and orders it. `Applied` then replaces from the right: by induction on the spans done, what
  stands left of the last replaced one is still the line itself, so the offsets of the next
  point at their own text (`ReplacedOneMore`), and what stands right of it is the end of the
  line with each span there replaced once (`Joined`).
* `FindingsDoNotReturn` (`FoundIsGone`). Here spans of different types do overlap, and one is replaced inside
  the text of the other. `DedupSpansCover` says that whatever `DedupSpans` drops begins within a kept span
  of its type that starts no later. `RewriteGone` says what the replacements make of a kept span in which no other
  one is nested: those that start behind it leave the line as it was up to their own start, so the span finds
  its own cells, and takes out what is left of them; the later replacements, further left, put nothing of
  the line back (`ReplacedOut`, `ReplacedCell`). A span that ends inside it, on the other hand, is replaced first by
  something of another length and moves its end: that is the exception, `EndMoved`.

### Progress, without fairness

The five liveness properties are TLC's: `~>` under fairness is beyond the prover. But what makes each of
them true is safety, and that is proved for every instance. It is always the same pair.
A *variant*: a number (or a few, in lexicographic order) that every fair step lowers and that no other actor
raises (but for what is named below). And *nothing stuck*: while the property's goal is not reached, the guard of a fair step is
true. What TLC alone checks is then the last step, from the two to `~>`, on small instances.

| Property | Variant | Nothing stuck |
|---|---|---|
| `SaveEnds` | `SavesAdvanceAlways`: at most seven steps of a save are left | `NoSaveStallsAlways`: the lock is free or its holder is inside the region |
| `UnracedConverge` | `ChecksApproachAlways`: at most five steps to loading a file that is left alone and can be read | `ChecksSettleAlways`: a worker with no check to make runs on the file |
| `EveryMessageHandled` | `ConsumersAdvanceAlways`: messages ahead, then steps on the present one | `NothingStuckAlways`: if no consumer can go on, all is explained |
| `SamplesDrain` | `WorkAdvancesAlways`: three steps for each sample queued, and as many for each still to be offered | `NobodyWaitsAlways`: a full queue stops no request, an empty one only the thread |
| `RunEnds` | `RunsAdvanceAlways`: tasks, then retries, then steps of the attempt | `RunsNeverStall`: no run waits for another |

* `SaveEnds`. `HolderInside`: whoever holds the lock is inside the locked region, since every way out of it, by
  an error or by the death of the worker, gives the lock back. The rest of a save waits for nothing.
* `UnracedConverge`. `KnownInForce`: a worker without a race runs on what its watcher last hashed, if that is accepted.
  The variant counts a check under way that hashed an earlier content with the whole check that must follow.
  A check that fails to read the file begins again, so it says nothing of that step; such failures come to an end, as edits do.
* `EveryMessageHandled`. `HolderRuns`: the member that holds the partition is not dead. If no consumer has a
  step, its position is past the last message, or nobody holds the partition and the committed offset is; `DoneOrExplained`
  does the rest. The variant says nothing of a step in which the partition changes hands or something breaks; there
  are finitely many of these in a behaviour (a bound of the model).
* `RunEnds`. `RotationSteps`: only a rotation stands between its first and its last step. `RunsNeverStall`
  assumes that there is a window of data for the check to look at (`Windows # {}`).
* `SamplesDrain`. `OffersInv`: a sample is put only while a field is left to offer. Neither side's steps
  touch the other's number, but for the one sample that a put adds.

The guards that "nothing stuck" names are written out (`CanStep`, `CheckGoesOn`, `HandlerCanStep`,
`SamplerCanStep`): that each is the guard of its action is read off the action, not proved.
`HandlerCanStep` is what `NeverWaits` says with ENABLED.

## 5. Only model-checked, and not modelled

**Only model-checked.**

* Liveness (`SaveEnds`, `UnracedConverge`, `EveryMessageHandled`, `SamplesDrain`, `RunEnds`): the step
  from a variant and "nothing stuck", both proved (section 4), to `~>` under fairness. Where the variant can be raised,
  by an edit, a revocation or another request, that these come to an end is in TLC's hands too.
* `NeverWaits`, as it is written with ENABLED; `NobodyWaitsAlways` proves it of the guards.
* What the recognisers find is a definition of the model (section 2), not something proved.

**Left out of the modules.** Of `TokenStore`: `save(force=True)` and a direct `compact()`, which nothing in
the program calls; a machine crash that loses written bytes (there is no `fsync`); the
`FileNotFoundError` of a log removed between `exists()` and `open()`, which only keeps
a worker from starting. Of `RemoteStore`: Redis's full `save()` and its lock, which
`TokenStore.save()` does not reach; several types per value; the debounce. Of `PolicyReload`: metrics, the length of the log.
Of `QueueConsumer`: several partitions (a commit covers each of them in the
same way), the failover between OpenSearch nodes, undecodable bytes in the topic. Of
`SpanDetection`: CloudTrail's JSON (its fields are paths into a document; schema trust
refuses it), the syslog messages of cron, Wi-Fi and failing units, the patterns themselves. Of `WeeklyTasks`: the sample for human review, which is
only read and written out.

**Not modelled at all**, with reasons in `PROJECT.json`. The language layers, `field_policy.py`
and the employee list: standalone modules outside the service's path, pure functions from text to
spans whose content is regular expressions and word lists. Conformal fusion and the `validation/` tree:
research code over real numbers and data sets, most of the repository's lines; there is no state and no
interleaving in it. Format-preserving encryption: a wrapper of a cipher library. Batch
scripts: sequential, the token store saved once at the end. Deployment files: read for the
process structure. The pages and metrics of the service: formatting. This is why the share of mapped lines is
small: what has state, order, failure or offsets is modelled, and the rest of the lines are not of that kind.

## 6. Findings

1. `store_torn` (`anonymize.py:497`): an append behind a torn line joins the two, and a
   complete, acknowledged batch is lost with the torn one. The comment at 421-428 says
   at most the incomplete batch is. One worker is enough: the trace has it tear an append, keep the
   entries pending and append them again, behind its own torn line, in the save it then acknowledges.
2. `store_fresh` (`anonymize.py:888`): a store opened while another worker compacts may
   lack tokens that were saved long before. Nothing is lost on disk.
3. `policy_audit` (`service.py:542`): the audit event's method is looked up after the
   transformation and may name another policy's.
4. `policy_stale` (`policy_watcher.py:89`): an edit between the load at import and the
   watcher's first hash is never loaded.
5. `queue_lost` (`queue_consumer.py:467`): the next commit passes over a message that
   raised, which is then never redelivered.

### Observations

Behaviour met while modelling that has no run of its own: it is disclosed in the repository,
contradicts none of its statements clearly, or is excepted by a property above.

* The field gate skips the NER model when no uncovered field value has letters, without
  looking at text outside the fields (`detect.py:755-761`): a name in loose text of such a line
  is not looked for. It is the second disjunct of `GateLosesOnly`.
* A hit across a cut is mapped back with the offset of its first piece, so its end falls short
  (`build_ner_candidate`'s docstring discloses such joined text as a risk). `FoundIsGone` is about the span as it was
  mapped back, not about the text it should stand for; that such hits lie at a cut is `GateAddsNothing`.
* `dedup_spans()` keeps the first of the spans of one type, not the longest: of `user@company.co.uk` the pattern's
  span ends behind `co`, Presidio's longer one of the same start is dropped, and `.uk` stays in the answer.
  `FoundIsGone` promises the start of a found span and what lies under it and the kept one.
* An IP address or a number in front of the @ of an e-mail address is a span inside the address's. It is
  replaced first, by something longer or shorter, the end of the address's span then points
  elsewhere, and the end of the host may stay in the answer: `EndMoved` in `FoundIsGone`. The docstring of `dedup_spans()` warns of such
  collisions and leaves them to its callers; `/anonymize` does nothing about them.
* With two threads in a process, the tokens of more requests than `save_every_n_calls - 1` are at risk while a save is
  under way: a thread that comes in between counts from zero again. `DebounceLossBound` counts such saves.
* Cutting a trusted value out of a line leaves `key=` without a value, which the model may
  report as a person (`detect.py:635-662` describes it for the gate): `Dangling`.
* When a value occurs twice in a line, the trusted span may be at the wrong place:
  `DeclaredCovered` speaks of values that occur once.
* `maybe_sample()` counts a sample after putting it, so processed may for a moment exceed
  enqueued; and a full queue drops the new sample, while the
  comment at `schema_trust_sampler.py:33` speaks of "the oldest excess sample".
* On Redis, `save_incremental()` clears the pending entries when the primary has them; what a
  failover loses is never sent again by the worker that still holds it (`excused` in `SavedStays`).
* Both kinds of key retire to one directory under a time stamp of a second, so two
  rotations in one second lose a key (`excused` in `KeyPreserved`).
* The drift check comes before the rotations in one chain: a check that fails for good keeps
  the keys from being rotated that week. A field with too few entries vanishes from the Pushgateway.
* A schema-trust file with a type that the policy does not know is refused at start; accepted, such a
  span would stay in the text untouched (the mutant of `FoundIsGone`).

## 7. Plan

Done, in this order: `TokenStore` with `TokenLedger`, `PolicyReload`, `QueueConsumer`, `RemoteStore`,
`SpanDetection` with `RequestPath`, `WeeklyTasks`, and the proofs of section 4. What is left, by worth:

1. `PolicyReload` composed with the span loop of `RequestPath`, so that a reload falls between two spans
   of a line with overlapping hits.
2. CloudTrail's nested fields in `SpanDetection`, with the drift check over them.
3. Several partitions in `QueueConsumer`, with a rebalance that moves one of two.
