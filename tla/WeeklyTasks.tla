----------------------------- MODULE WeeklyTasks -----------------------------
(***************************************************************************)
(* The weekly Airflow DAG (src/infra/dags/redact_weekly_validation.py) and *)
(* its tasks (src/src/airflow_tasks.py, drift.py): sample, check the       *)
(* fields for drift, push the result to the Pushgateway, rotate the        *)
(* pseudonymization key, rotate the token key.  A task that fails is tried *)
(* again after a delay; runs of the DAG may overlap, for nothing in it     *)
(* limits the active runs.                                                 *)
(*                                                                         *)
(* Simplifications: a key is a number, and a new key is a new number; a    *)
(* time stamp is the clock's second; the windows of log entries are given  *)
(* by their field statistics; the sample that a human reviews is not kept. *)
(***************************************************************************)
EXTENDS SpanDetection

CONSTANTS
    NumRuns,        \* bound: DAG runs, in the order they start
    Windows,        \* field statistics that a window of entries may have
    ThresholdNum,   \* threshold, as a fraction
    ThresholdDen,
    MinSampleSize,  \* MIN_SAMPLE_SIZE
    Retries,        \* retries
    MaxClock,       \* bound: seconds that pass by themselves
    MaxFaults       \* bound: failed attempts

ASSUME WeeklyBounds ==
    /\ NumRuns \in Nat \ {0}
    /\ ThresholdNum \in Nat /\ ThresholdDen \in Nat \ {0}
    /\ MinSampleSize \in Nat \ {0}
    /\ Retries \in Nat /\ MaxClock \in Nat /\ MaxFaults \in Nat

VARIABLES
    clock,      \* seconds
    key,        \* what each current key file holds
    retired,    \* what each file of retired_keys_dir holds, by its time stamp
    issued,     \* history: keys that have stood in a current key file
    excused,    \* history: keys lost to one name twice or to two runs at once
    result,     \* what each run's check returned (XCom), until it is pulled
    gateway,    \* the gauges of the group on the Pushgateway: flag by field
    lastFlagged, \* history: flagged_detail of the run they are of
    task,       \* the task each run is at
    step,       \* where in it
    attempt,    \* attempts of this task that failed
    stamp,      \* timestamp of the rotation
    held,       \* old_key
    faults

files == <<key, retired, issued, excused>>
drift == <<result, gateway, lastFlagged>>
local == <<task, step, attempt, stamp, held>>
vars == <<clock, files, drift, local, faults>>

Runs == 1 .. NumRuns
Kinds == {"pseudo", "token"}
Tasks == <<"check", "push", "pseudo", "token", "success">>
Steps == {"begin", "retire", "truncate", "write", "delay", "failed"}
Idle == {"waiting", "success"}

\* The contents of a file that holds no key.
NoFile == -1
EmptyFile == 0
Stamps == 0 .. MaxClock + MaxFaults

NextKey == Cardinality(issued) + 1

\* A file is written over that should not have held a key any more.
Losing(content) == excused \cup ({content} \cap issued)

-----------------------------------------------------------------------------
(* drift.py                                                                *)

CriticalTypes == {"PERSON", "EMAIL", "SSN", "CREDIT_CARD", "MRN"}

IsCritical(value) ==
    \E h \in ToSet(ScanRegex(value) \o ScanFlattened(value) \o ScanNer(value)) :
        h.type \in CriticalTypes

\* field_stats, of a window of entries: how many have a field of their log
\* type, and in how many of them its value is critical.
FieldStats(entries, fields) ==
    LET Having(log_type, name) ==
            {x \in UNION {{i} \X ToSet(ExtractFields(log_type, entries[i].log)) :
                             i \in {j \in DOMAIN entries : entries[j].log_type = log_type}} :
               x[2].name = name}
    IN [f \in fields |->
          [total |-> Cardinality(Having(f[1], f[2])),
           hits |-> Cardinality({x \in Having(f[1], f[2]) : IsCritical(x[2].value)})]]

Sufficient(b, c) == b.total >= MinSampleSize /\ c.total >= MinSampleSize

AbsDiff(m, n) == IF m >= n THEN m - n ELSE n - m

\* abs(c_rate - b_rate) >= threshold in floating point: exact unless the two
\* sides are equal, when the rounding of the rates decides; it makes the
\* fields in "low" come out below.
Moved(b, c, low) ==
    LET change == AbsDiff(c.hits * b.total, b.hits * c.total) * ThresholdDen
        limit == ThresholdNum * b.total * c.total
    IN change > limit \/ (change = limit /\ ~low)

Compared(base, current) ==
    {f \in DOMAIN base : Sufficient(base[f], current[f])}

\* compare: the flagged fields.
Compare(base, current, low) ==
    {f \in Compared(base, current) : Moved(base[f], current[f], f \in low)}

\* Faulty variant: compare_all has a comparison of its own.
CompareAllStrict(base, current, low) ==
    [f \in Compared(base, current) |-> Moved(base[f], current[f], TRUE)]

\* compare_all: every field with data enough, flagged or not.
CompareAll(base, current, low) ==
    [f \in Compared(base, current) |-> Moved(base[f], current[f], f \in low)]

\* check_taxonomy_drift, of any two windows.
Outlooks ==
    {[flagged |-> Compare(p[1], p[2], low), all |-> CompareAll(p[1], p[2], low)] :
        p \in Windows \X Windows, low \in SUBSET UNION {DOMAIN w : w \in Windows}}

-----------------------------------------------------------------------------
NoResult == [flagged |-> {}, all |-> <<>>]

Init ==
    /\ clock = 0
    /\ \E k \in {NoFile, 1} :
        /\ key = [kind \in Kinds |-> IF kind = "pseudo" THEN k ELSE IF k = 1 THEN 2 ELSE k]
        /\ issued = IF k = 1 THEN {1, 2} ELSE {}
    /\ retired = [t \in Stamps |-> NoFile]
    /\ excused = {}
    /\ result = [r \in Runs |-> NoResult]
    /\ gateway = <<>>
    /\ lastFlagged = {}
    /\ task = [r \in Runs |-> "waiting"]
    /\ step = [r \in Runs |-> "begin"]
    /\ attempt = [r \in Runs |-> 0]
    /\ stamp = [r \in Runs |-> 0]
    /\ held = [r \in Runs |-> NoFile]
    /\ faults = 0

At(r, t, s) == task[r] = t /\ step[r] = s
Goto(r, s) == step' = [step EXCEPT ![r] = s] /\ UNCHANGED <<task, attempt>>

After(t) == Tasks[1 + CHOOSE i \in DOMAIN Tasks : Tasks[i] = t]

\* The locals of an attempt go with it.
Leave(r) ==
    /\ held' = [held EXCEPT ![r] = NoFile]
    /\ stamp' = [stamp EXCEPT ![r] = 0]

\* A task has returned, and the next one in the chain is due.
Done(r) ==
    /\ task' = [task EXCEPT ![r] = After(@)]
    /\ step' = [step EXCEPT ![r] = "begin"]
    /\ attempt' = [attempt EXCEPT ![r] = 0]

\* The schedule, or an operator, starts a run, whatever became of the one
\* before.  sample_medium_confidence_hits only reads: it leaves nothing behind.
StartRun(r) ==
    /\ task[r] = "waiting"
    /\ \A earlier \in 1 .. r - 1 : task[earlier] # "waiting"
    /\ task' = [task EXCEPT ![r] = "check"]
    /\ UNCHANGED <<clock, files, drift, step, attempt, stamp, held, faults>>

Check(r) ==
    /\ At(r, "check", "begin")
    /\ \E outlook \in Outlooks : result' = [result EXCEPT ![r] = outlook]
    /\ Done(r)
    /\ UNCHANGED <<clock, files, gateway, lastFlagged, stamp, held, faults>>

\* No Pushgateway is configured, when the DAG is parsed for this task:
\* nothing is pushed, and the task succeeds.
PushNothing(r) ==
    /\ At(r, "push", "begin")
    /\ result' = [result EXCEPT ![r] = NoResult]
    /\ Done(r)
    /\ UNCHANGED <<clock, files, gateway, lastFlagged, stamp, held, faults>>

\* Faulty variant: the gauges are added to those the gateway holds.
PushAdding(r) ==
    /\ At(r, "push", "begin")
    /\ gateway' = [f \in DOMAIN result[r].all \cup DOMAIN gateway |->
                      IF f \in DOMAIN result[r].all THEN result[r].all[f] ELSE gateway[f]]
    /\ lastFlagged' = result[r].flagged
    /\ result' = [result EXCEPT ![r] = NoResult]
    /\ Done(r)
    /\ UNCHANGED <<clock, files, stamp, held, faults>>

\* push_to_gateway replaces the gauges of the group.
Pushed(r) == gateway' = result[r].all /\ lastFlagged' = result[r].flagged

Push(r) ==
    /\ At(r, "push", "begin")
    /\ Pushed(r)
    /\ result' = [result EXCEPT ![r] = NoResult]
    /\ Done(r)
    /\ UNCHANGED <<clock, files, stamp, held, faults>>

-----------------------------------------------------------------------------
(* rotate_pseudonymization_key, and rotate_token_key through it            *)

\* Without a current key there is nothing to retire: timestamp goes unused.
ReadNoKey(r) ==
    /\ task[r] \in Kinds /\ step[r] = "begin"
    /\ key[task[r]] = NoFile
    /\ Goto(r, "truncate")
    /\ UNCHANGED <<clock, files, drift, stamp, held, faults>>

\* The old key is read, and the file it is retired to is opened for writing:
\* an older one of that name is gone.
ReadKey(r) ==
    /\ task[r] \in Kinds /\ step[r] = "begin"
    /\ key[task[r]] # NoFile
    /\ stamp' = [stamp EXCEPT ![r] = clock]
    /\ held' = [held EXCEPT ![r] = key[task[r]]]
    /\ retired' = [retired EXCEPT ![clock] = EmptyFile]
    /\ excused' = Losing(retired[clock])
    /\ Goto(r, "retire")
    /\ UNCHANGED <<clock, key, issued, drift, faults>>

\* Faulty variant: the old key is not written out.
RetireNothing(r) ==
    /\ task[r] \in Kinds /\ step[r] = "retire"
    /\ Goto(r, "truncate")
    /\ UNCHANGED <<clock, files, drift, stamp, held, faults>>

Retire(r) ==
    /\ task[r] \in Kinds /\ step[r] = "retire"
    /\ retired' = [retired EXCEPT ![stamp[r]] = held[r]]
    /\ excused' = Losing(retired[stamp[r]])
    /\ stamp' = [stamp EXCEPT ![r] = 0]
    /\ Goto(r, "truncate")
    /\ UNCHANGED <<clock, key, issued, drift, held, faults>>

\* The current key file is opened for writing...
Truncate(r) ==
    /\ task[r] \in Kinds /\ step[r] = "truncate"
    /\ key' = [key EXCEPT ![task[r]] = EmptyFile]
    /\ excused' = IF key[task[r]] # held[r] THEN Losing(key[task[r]]) ELSE excused
    /\ Goto(r, "write")
    /\ UNCHANGED <<clock, retired, issued, drift, stamp, held, faults>>

\* ... and the new key written.
WriteKey(r) ==
    /\ task[r] \in Kinds /\ step[r] = "write"
    /\ key' = [key EXCEPT ![task[r]] = NextKey]
    /\ issued' = issued \cup {NextKey}
    /\ excused' = Losing(key[task[r]])
    /\ Leave(r)
    /\ Done(r)
    /\ UNCHANGED <<clock, retired, drift, faults>>

-----------------------------------------------------------------------------
(* Failures and time                                                       *)

\* A push may have reached the gateway before its attempt fails.
Failing(r) ==
    /\ task[r] \notin Idle /\ step[r] \notin {"delay", "failed"}
    /\ faults < MaxFaults
    /\ faults' = faults + 1
    /\ \/ UNCHANGED <<gateway, lastFlagged>>
       \/ At(r, "push", "begin") /\ Pushed(r)
    /\ Leave(r)
    /\ UNCHANGED <<clock, files, result>>

TryAgain(r) ==
    /\ attempt' = [attempt EXCEPT ![r] = @ + 1]
    /\ step' = [step EXCEPT ![r] = "delay"]
    /\ UNCHANGED task

\* Faulty variant: after the retries the next task is due all the same.
FailOn(r) ==
    /\ Failing(r)
    /\ IF attempt[r] < Retries THEN TryAgain(r) ELSE Done(r)

\* Faulty variant: one retry too many.
FailLate(r) ==
    /\ Failing(r)
    /\ IF attempt[r] <= Retries
       THEN TryAgain(r)
       ELSE step' = [step EXCEPT ![r] = "failed"] /\ UNCHANGED <<task, attempt>>

\* An attempt raises, or its process dies: after the retries the run has
\* failed.  Missing windows and a Pushgateway that does not answer end here.
Fail(r) ==
    /\ Failing(r)
    /\ IF attempt[r] < Retries
       THEN TryAgain(r)
       ELSE step' = [step EXCEPT ![r] = "failed"] /\ UNCHANGED <<task, attempt>>

\* Faulty variant: the last retry is scheduled and never made.
RetryUnlessLast(r) ==
    /\ step[r] = "delay" /\ attempt[r] < Retries
    /\ clock' = clock + 1
    /\ Goto(r, "begin")
    /\ UNCHANGED <<files, drift, stamp, held, faults>>

\* retry_delay later, never in the second of the failure.
Retry(r) ==
    /\ step[r] = "delay"
    /\ clock' = clock + 1
    /\ Goto(r, "begin")
    /\ UNCHANGED <<files, drift, stamp, held, faults>>

Tick ==
    /\ clock < MaxClock
    /\ clock' = clock + 1
    /\ UNCHANGED <<files, drift, local, faults>>

Step(r) ==
    \/ Check(r) \/ PushNothing(r) \/ Push(r)
    \/ ReadNoKey(r) \/ ReadKey(r) \/ Retire(r) \/ Truncate(r) \/ WriteKey(r)
    \/ Retry(r)

Next == (\E r \in Runs : StartRun(r) \/ Step(r) \/ Fail(r)) \/ Tick

\* Airflow carries on a run it has started.
Spec == Init /\ [][Next]_vars /\ \A r \in Runs : WF_vars(Step(r))

-----------------------------------------------------------------------------
(* Properties                                                              *)

Contents == {NoFile, EmptyFile} \cup 1 .. NextKey

\* Type invariant of the key files and the runs.
TypeOK ==
    /\ clock \in Stamps
    /\ key \in [Kinds -> Contents]
    /\ retired \in [Stamps -> Contents]
    /\ task \in [Runs -> ToSet(Tasks) \cup {"waiting"}]
    /\ step \in [Runs -> Steps]
    /\ attempt \in [Runs -> 0 .. Retries]
    /\ stamp \in [Runs -> Stamps]
    /\ held \in [Runs -> Contents]
    /\ faults \in 0 .. MaxFaults

\* Keys that can still be found.
Found == {key[kind] : kind \in Kinds} \cup {retired[t] : t \in Stamps}
         \cup {held[r] : r \in {x \in Runs : step[x] = "retire"}}

\* A key that was in use is kept: it is current, retired or about to be,
\* unless two rotations had one time stamp or two runs rotated at once
\* (airflow_tasks.py:163-170, :178-188).
KeyPreserved == issued \subseteq Found \cup excused

\* A key file is empty only while a run is at its rotation, waits to try it
\* again or has failed there: no run goes on to the next task, and none ends,
\* over a key file it has left empty (airflow_tasks.py:185-187;
\* redact_weekly_validation.py:30, :102).
EmptyIsPassing ==
    \A kind \in Kinds : key[kind] = EmptyFile => \E r \in Runs : task[r] = kind

\* What the Pushgateway shows as flagged is what drift.compare flagged in the
\* last run that pushed: the two comparisons agree, and no field stays flagged
\* by an older run (drift.py:78-146; airflow_tasks.py:63-68, :101-109).
AlertsMatchCompare == {f \in DOMAIN gateway : gateway[f]} = lastFlagged

\* A run that has started ends, in success or at a task that used up its
\* retries (redact_weekly_validation.py:30, :102).
RunEnds ==
    \A r \in Runs : task[r] = "check" ~> task[r] = "success" \/ step[r] = "failed"

=============================================================================
