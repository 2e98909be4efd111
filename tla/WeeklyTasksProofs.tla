--------------------------- MODULE WeeklyTasksProofs ---------------------------
(***************************************************************************)
(* Proofs about WeeklyTasks, for any number of overlapping runs, any       *)
(* windows, thresholds and retries, and any number of failures.            *)
(***************************************************************************)
EXTENDS WeeklyTasks, FiniteSetTheorems, TLAPS

-----------------------------------------------------------------------------
(* The inductive invariant.                                                *)

\* Every key has its number.
IssuedInv == IsFiniteSet(issued) /\ issued \subseteq 1 .. Cardinality(issued)

\* What a current key file or a run holds is no key, or one that was issued.
KnownInv ==
    /\ \A kind \in Kinds : key[kind] \in issued \cup {NoFile, EmptyFile}
    /\ \A r \in Runs : held[r] \in issued \cup {NoFile, EmptyFile}

\* Time passes by itself, or with a retry, which a failure came before.
Delayed == {r \in Runs : step[r] = "delay"}
ClockInv ==
    /\ IsFiniteSet(Delayed)
    /\ Cardinality(Delayed) <= faults
    /\ clock + Cardinality(Delayed) <= MaxClock + faults

\* A run holds an old key only while it rotates.
HeldInv == \A r \in Runs : step[r] \notin {"retire", "truncate", "write"} => held[r] = NoFile

\* A key is in a file, and the one that a run is about to write over is in
\* a retired file.
Current == {key[kind] : kind \in Kinds}
Retired == {retired[t] : t \in Stamps}
KeptInv ==
    /\ issued \subseteq Current \cup Retired \cup excused
    /\ \A r \in Runs :
          step[r] = "truncate" /\ held[r] \in issued => held[r] \in Retired \cup excused

\* The two comparisons of a check agree.
Agree(outlook) == {f \in DOMAIN outlook.all : outlook.all[f]} = outlook.flagged
ResultInv == \A r \in Runs : Agree(result[r])

IInv == /\ TypeOK /\ IssuedInv /\ KnownInv /\ ClockInv /\ HeldInv /\ KeptInv
        /\ EmptyIsPassing /\ ResultInv /\ AlertsMatchCompare

-----------------------------------------------------------------------------
(* Lemmas                                                                  *)

\* The tasks, by name, and their chain.
LEMMA TaskChain ==
    /\ ToSet(Tasks) = {"check", "push", "pseudo", "token", "success"}
    /\ After("check") = "push" /\ After("push") = "pseudo"
    /\ After("pseudo") = "token" /\ After("token") = "success"
<1>1. DOMAIN Tasks = 1 .. 5
  BY DEF Tasks
<1>2. Tasks[1] = "check" /\ Tasks[2] = "push" /\ Tasks[3] = "pseudo"
      /\ Tasks[4] = "token" /\ Tasks[5] = "success"
  BY DEF Tasks
<1>3. ToSet(Tasks) = {"check", "push", "pseudo", "token", "success"}
  BY <1>1, <1>2 DEF ToSet
<1>4. ASSUME NEW n \in 1 .. 4 PROVE After(Tasks[n]) = Tasks[n + 1]
  <2>1. \E i \in DOMAIN Tasks : Tasks[i] = Tasks[n]
    BY <1>1
  <2>2. \A i \in DOMAIN Tasks : Tasks[i] = Tasks[n] => i = n
    BY <1>1, <1>2
  <2>3. (CHOOSE i \in DOMAIN Tasks : Tasks[i] = Tasks[n]) = n
    BY <2>2
  <2>4. Tasks[1 + n] = Tasks[n + 1]
    OBVIOUS
  <2> QED
    BY <2>3, <2>4 DEF After
<1> QED
  BY <1>2, <1>3, <1>4

\* A new key has a number, and no content of a file gets lost from Contents.
LEMMA NewKey ==
    ASSUME IssuedInv
    PROVE  /\ NextKey \in Nat \ {0} /\ NextKey \notin issued
           /\ IsFiniteSet(issued \cup {NextKey})
           /\ NextKey <= Cardinality(issued \cup {NextKey}) + 1
<1>1. Cardinality(issued) \in Nat
  BY FS_CardinalityType DEF IssuedInv
<1>2. /\ IsFiniteSet(issued \cup {NextKey})
      /\ Cardinality(issued \cup {NextKey}) =
            IF NextKey \in issued THEN Cardinality(issued) ELSE Cardinality(issued) + 1
  BY FS_AddElement DEF IssuedInv
<1>3. NextKey \notin issued
  BY <1>1 DEF IssuedInv, NextKey
<1> QED
  BY <1>1, <1>2, <1>3 DEF NextKey

\* Contents only grows.
LEMMA ContentsGrow ==
    ASSUME IssuedInv, issued' \in {issued, issued \cup {NextKey}}
    PROVE  Contents \subseteq Contents'
<1>1. CASE issued' = issued
  BY <1>1 DEF Contents, NextKey
<1>2. CASE issued' = issued \cup {NextKey}
  <2>1. NextKey' = Cardinality(issued \cup {NextKey}) + 1
    BY <1>2 DEF NextKey
  <2>2. NextKey <= NextKey' /\ NextKey \in Nat \ {0} /\ NextKey' \in Nat
    BY <2>1, NewKey
  <2>3. 1 .. NextKey \subseteq 1 .. NextKey'
    BY <2>2
  <2> QED
    BY <2>3 DEF Contents
<1> QED
  BY <1>1, <1>2

\* The key that is written is among the new contents.
LEMMA WrittenKey ==
    ASSUME IssuedInv, issued' = issued \cup {NextKey}
    PROVE  NextKey \in Contents'
<1>1. NextKey' = Cardinality(issued \cup {NextKey}) + 1
  BY DEF NextKey
<1>2. NextKey <= NextKey' /\ NextKey \in Nat \ {0} /\ NextKey' \in Nat
  BY <1>1, NewKey, FS_CardinalityType
<1> QED
  BY <1>2 DEF Contents

\* Every step keeps the types.
LEMMA TypeStep ==
    TypeOK /\ IssuedInv /\ ClockInv /\ [Next]_vars => TypeOK'
<1> SUFFICES ASSUME TypeOK /\ IssuedInv /\ ClockInv, [Next]_vars PROVE TypeOK'
  OBVIOUS
<1>1. ASSUME NEW r \in Runs, StartRun(r) PROVE TypeOK'
  BY <1>1, TaskChain DEF TypeOK, Contents, NextKey, StartRun, files
<1>2. ASSUME NEW r \in Runs, Check(r) PROVE TypeOK'
  BY <1>2, TaskChain, WeeklyBounds DEF TypeOK, Contents, NextKey, Check, files, Done, At
<1>3. ASSUME NEW r \in Runs, PushNothing(r) PROVE TypeOK'
  BY <1>3, TaskChain, WeeklyBounds DEF TypeOK, Contents, NextKey, PushNothing, files, Done, At
<1>4. ASSUME NEW r \in Runs, Push(r) PROVE TypeOK'
  BY <1>4, TaskChain, WeeklyBounds DEF TypeOK, Contents, NextKey, Push, files, Done, At
<1>5. ASSUME NEW r \in Runs, ReadNoKey(r) PROVE TypeOK'
  BY <1>5 DEF TypeOK, Steps, Contents, NextKey, ReadNoKey, files, Goto
<1>6. ASSUME NEW r \in Runs, ReadKey(r) PROVE TypeOK'
  BY <1>6 DEF TypeOK, Steps, Contents, NextKey, ReadKey, Goto
<1>7. ASSUME NEW r \in Runs, Retire(r) PROVE TypeOK'
  BY <1>7, WeeklyBounds DEF TypeOK, Steps, Contents, NextKey, Stamps, Retire, Goto
<1>8. ASSUME NEW r \in Runs, Truncate(r) PROVE TypeOK'
  BY <1>8 DEF TypeOK, Steps, Contents, NextKey, Truncate, Goto
<1>9. ASSUME NEW r \in Runs, WriteKey(r) PROVE TypeOK'
  <2>1. Contents \subseteq Contents' /\ NextKey \in Contents'
    BY <1>9, ContentsGrow, WrittenKey DEF WriteKey
  <2>2. key' \in [Kinds -> Contents'] /\ retired' \in [Stamps -> Contents']
    BY <1>9, <2>1 DEF TypeOK, WriteKey
  <2>3. held' \in [Runs -> Contents'] /\ stamp' \in [Runs -> Stamps]
    BY <1>9, <2>1, WeeklyBounds DEF TypeOK, WriteKey, Leave, Contents, Stamps
  <2>4. task' \in [Runs -> ToSet(Tasks) \cup {"waiting"}]
    BY <1>9, TaskChain DEF TypeOK, WriteKey, Done, Kinds
  <2>5. step' \in [Runs -> Steps] /\ attempt' \in [Runs -> 0 .. Retries]
    BY <1>9, WeeklyBounds DEF TypeOK, WriteKey, Done, Steps
  <2> QED
    BY <1>9, <2>2, <2>3, <2>4, <2>5 DEF TypeOK, WriteKey
<1>10. ASSUME NEW r \in Runs, Fail(r) PROVE TypeOK'
  <2>1. held' \in [Runs -> Contents] /\ stamp' \in [Runs -> Stamps] /\ faults' \in 0 .. MaxFaults
    BY <1>10, WeeklyBounds DEF TypeOK, Fail, Failing, Leave, Contents, Stamps
  <2>2. step' \in [Runs -> Steps] /\ attempt' \in [Runs -> 0 .. Retries] /\ task' = task
    BY <1>10, WeeklyBounds DEF TypeOK, Fail, TryAgain, Steps
  <2>3. Contents' = Contents
    BY <1>10 DEF Fail, Failing, files, Contents, NextKey
  <2> QED
    BY <1>10, <2>1, <2>2, <2>3 DEF TypeOK, Fail, Failing, files
<1>11. ASSUME NEW r \in Runs, Retry(r) PROVE TypeOK'
  <2>1. clock' \in Stamps
    <3>1. r \in Delayed
      BY <1>11 DEF Retry, Delayed
    <3>2. Cardinality(Delayed) \in Nat /\ Cardinality(Delayed) # 0
      BY <3>1, FS_CardinalityType, FS_EmptySet DEF ClockInv
    <3> QED
      BY <1>11, <3>2, WeeklyBounds DEF TypeOK, ClockInv, Retry, Stamps
  <2>2. Contents' = Contents
    BY <1>11 DEF Retry, files, Contents, NextKey
  <2> QED
    BY <1>11, <2>1, <2>2 DEF TypeOK, Retry, Goto, files, Steps
<1>12. CASE Tick
  <2>1. clock' \in Stamps
    BY <1>12, WeeklyBounds DEF TypeOK, Tick, Stamps
  <2>2. Contents' = Contents
    BY <1>12 DEF Tick, files, Contents, NextKey
  <2> QED
    BY <1>12, <2>1, <2>2 DEF TypeOK, Tick, files, local
<1>13. CASE UNCHANGED vars
  BY <1>13 DEF TypeOK, Contents, NextKey, vars, files, local
<1> QED
  BY <1>1, <1>2, <1>3, <1>4, <1>5, <1>6, <1>7, <1>8, <1>9, <1>10, <1>11, <1>12, <1>13 DEF Next,
     Step

\* Every step keeps the keys numbered.
LEMMA IssuedStep ==
    IssuedInv /\ [Next]_vars => IssuedInv'
<1> SUFFICES ASSUME IssuedInv, [Next]_vars PROVE IssuedInv'
  OBVIOUS
<1>1. ASSUME NEW r \in Runs, StartRun(r) PROVE IssuedInv'
  BY <1>1 DEF IssuedInv, StartRun, files
<1>2. ASSUME NEW r \in Runs, Check(r) PROVE IssuedInv'
  BY <1>2 DEF IssuedInv, Check, files
<1>3. ASSUME NEW r \in Runs, PushNothing(r) PROVE IssuedInv'
  BY <1>3 DEF IssuedInv, PushNothing, files
<1>4. ASSUME NEW r \in Runs, Push(r) PROVE IssuedInv'
  BY <1>4 DEF IssuedInv, Push, files
<1>5. ASSUME NEW r \in Runs, ReadNoKey(r) PROVE IssuedInv'
  BY <1>5 DEF IssuedInv, ReadNoKey, files
<1>6. ASSUME NEW r \in Runs, ReadKey(r) PROVE IssuedInv'
  BY <1>6 DEF IssuedInv, ReadKey
<1>7. ASSUME NEW r \in Runs, Retire(r) PROVE IssuedInv'
  BY <1>7 DEF IssuedInv, Retire
<1>8. ASSUME NEW r \in Runs, Truncate(r) PROVE IssuedInv'
  BY <1>8 DEF IssuedInv, Truncate
<1>9. ASSUME NEW r \in Runs, WriteKey(r) PROVE IssuedInv'
  <2>1. /\ issued' = issued \cup {NextKey} /\ NextKey \notin issued
        /\ IsFiniteSet(issued') /\ Cardinality(issued) \in Nat
    BY <1>9, NewKey, FS_CardinalityType DEF WriteKey, IssuedInv
  <2>2. Cardinality(issued') = Cardinality(issued) + 1
    BY <2>1, FS_AddElement DEF IssuedInv
  <2>3. issued' \subseteq 1 .. Cardinality(issued) + 1
    BY <2>1 DEF IssuedInv, NextKey
  <2> QED
    BY <2>1, <2>2, <2>3 DEF IssuedInv
<1>10. ASSUME NEW r \in Runs, Fail(r) PROVE IssuedInv'
  BY <1>10 DEF IssuedInv, Fail, Failing, files
<1>11. ASSUME NEW r \in Runs, Retry(r) PROVE IssuedInv'
  BY <1>11 DEF IssuedInv, Retry, files
<1>12. CASE Tick
  BY <1>12 DEF IssuedInv, Tick, files
<1>13. CASE UNCHANGED vars
  BY <1>13 DEF IssuedInv, vars, files
<1> QED
  BY <1>1, <1>2, <1>3, <1>4, <1>5, <1>6, <1>7, <1>8, <1>9, <1>10, <1>11, <1>12, <1>13 DEF Next,
     Step

\* Every step keeps what is held known.
LEMMA KnownStep ==
    TypeOK /\ IssuedInv /\ KnownInv /\ [Next]_vars => KnownInv'
<1> SUFFICES ASSUME TypeOK /\ IssuedInv /\ KnownInv, [Next]_vars PROVE KnownInv'
  OBVIOUS
<1>1. ASSUME NEW r \in Runs, StartRun(r) PROVE KnownInv'
  BY <1>1 DEF KnownInv, StartRun, files
<1>2. ASSUME NEW r \in Runs, Check(r) PROVE KnownInv'
  BY <1>2 DEF KnownInv, Check, files
<1>3. ASSUME NEW r \in Runs, PushNothing(r) PROVE KnownInv'
  BY <1>3 DEF KnownInv, PushNothing, files
<1>4. ASSUME NEW r \in Runs, Push(r) PROVE KnownInv'
  BY <1>4 DEF KnownInv, Push, files
<1>5. ASSUME NEW r \in Runs, ReadNoKey(r) PROVE KnownInv'
  BY <1>5 DEF KnownInv, ReadNoKey, files
<1>6. ASSUME NEW r \in Runs, ReadKey(r) PROVE KnownInv'
  BY <1>6 DEF KnownInv, ReadKey
<1>7. ASSUME NEW r \in Runs, Retire(r) PROVE KnownInv'
  BY <1>7 DEF KnownInv, Retire
<1>8. ASSUME NEW r \in Runs, Truncate(r) PROVE KnownInv'
  BY <1>8 DEF KnownInv, Truncate
<1>9. ASSUME NEW r \in Runs, WriteKey(r) PROVE KnownInv'
  BY <1>9 DEF KnownInv, WriteKey, Leave
<1>10. ASSUME NEW r \in Runs, Fail(r) PROVE KnownInv'
  BY <1>10 DEF KnownInv, Fail, Failing, Leave, files
<1>11. ASSUME NEW r \in Runs, Retry(r) PROVE KnownInv'
  BY <1>11 DEF KnownInv, Retry, files
<1>12. CASE Tick
  BY <1>12 DEF KnownInv, Tick, files, local
<1>13. CASE UNCHANGED vars
  BY <1>13 DEF KnownInv, vars, files, local
<1> QED
  BY <1>1, <1>2, <1>3, <1>4, <1>5, <1>6, <1>7, <1>8, <1>9, <1>10, <1>11, <1>12, <1>13 DEF Next,
     Step

\* Every step keeps the clock behind the failures.
LEMMA ClockStep ==
    TypeOK /\ ClockInv /\ [Next]_vars => ClockInv'
<1> SUFFICES ASSUME TypeOK /\ ClockInv, [Next]_vars PROVE ClockInv'
  OBVIOUS
<1>1. ASSUME NEW r \in Runs, StartRun(r) PROVE ClockInv'
  <2>1. Delayed' = Delayed /\ UNCHANGED <<clock, faults>>
    BY <1>1 DEF Delayed, StartRun
  <2> QED
    BY <2>1 DEF ClockInv
<1>2. ASSUME NEW r \in Runs, Check(r) PROVE ClockInv'
  <2>1. Delayed' = Delayed /\ UNCHANGED <<clock, faults>>
    BY <1>2 DEF Delayed, Check, Done, At
  <2> QED
    BY <2>1 DEF ClockInv
<1>3. ASSUME NEW r \in Runs, PushNothing(r) PROVE ClockInv'
  <2>1. Delayed' = Delayed /\ UNCHANGED <<clock, faults>>
    BY <1>3 DEF Delayed, PushNothing, Done, At
  <2> QED
    BY <2>1 DEF ClockInv
<1>4. ASSUME NEW r \in Runs, Push(r) PROVE ClockInv'
  <2>1. Delayed' = Delayed /\ UNCHANGED <<clock, faults>>
    BY <1>4 DEF Delayed, Push, Done, At
  <2> QED
    BY <2>1 DEF ClockInv
<1>5. ASSUME NEW r \in Runs, ReadNoKey(r) PROVE ClockInv'
  <2>1. Delayed' = Delayed /\ UNCHANGED <<clock, faults>>
    BY <1>5 DEF Delayed, ReadNoKey, Goto
  <2> QED
    BY <2>1 DEF ClockInv
<1>6. ASSUME NEW r \in Runs, ReadKey(r) PROVE ClockInv'
  <2>1. Delayed' = Delayed /\ UNCHANGED <<clock, faults>>
    BY <1>6 DEF Delayed, ReadKey, Goto
  <2> QED
    BY <2>1 DEF ClockInv
<1>7. ASSUME NEW r \in Runs, Retire(r) PROVE ClockInv'
  <2>1. Delayed' = Delayed /\ UNCHANGED <<clock, faults>>
    BY <1>7 DEF Delayed, Retire, Goto
  <2> QED
    BY <2>1 DEF ClockInv
<1>8. ASSUME NEW r \in Runs, Truncate(r) PROVE ClockInv'
  <2>1. Delayed' = Delayed /\ UNCHANGED <<clock, faults>>
    BY <1>8 DEF Delayed, Truncate, Goto
  <2> QED
    BY <2>1 DEF ClockInv
<1>9. ASSUME NEW r \in Runs, WriteKey(r) PROVE ClockInv'
  <2>1. Delayed' = Delayed /\ UNCHANGED <<clock, faults>>
    BY <1>9 DEF Delayed, WriteKey, Done
  <2> QED
    BY <2>1 DEF ClockInv
<1>10. ASSUME NEW r \in Runs, Fail(r) PROVE ClockInv'
  <2>1. /\ faults' = faults + 1 /\ clock' = clock /\ faults \in Nat
        /\ Delayed' \in {Delayed, Delayed \cup {r}}
    BY <1>10 DEF TypeOK, Delayed, Fail, Failing, TryAgain
  <2>2. /\ IsFiniteSet(Delayed')
        /\ Cardinality(Delayed') \in {Cardinality(Delayed), Cardinality(Delayed) + 1}
        /\ Cardinality(Delayed) \in Nat
    BY <2>1, FS_AddElement, FS_CardinalityType DEF ClockInv
  <2>3. clock \in Nat
    BY DEF TypeOK, Stamps
  <2>4. Cardinality(Delayed)' = Cardinality(Delayed')
    OBVIOUS
  <2> QED
    BY <2>1, <2>2, <2>3, WeeklyBounds DEF ClockInv
<1>11. ASSUME NEW r \in Runs, Retry(r) PROVE ClockInv'
  <2>1. /\ faults' = faults /\ clock' = clock + 1 /\ faults \in Nat
        /\ Delayed' = Delayed \ {r} /\ r \in Delayed
    BY <1>11 DEF TypeOK, Delayed, Retry, Goto
  <2>2. /\ IsFiniteSet(Delayed')
        /\ Cardinality(Delayed') = Cardinality(Delayed) - 1
        /\ Cardinality(Delayed) \in Nat
    BY <2>1, FS_RemoveElement, FS_CardinalityType DEF ClockInv
  <2>3. clock \in Nat
    BY DEF TypeOK, Stamps
  <2> QED
    BY <2>1, <2>2, <2>3 DEF ClockInv
<1>12. CASE Tick
  <2>1. Delayed' = Delayed /\ faults' = faults /\ clock' = clock + 1 /\ clock < MaxClock
    BY <1>12 DEF Delayed, Tick, local
  <2>2. Cardinality(Delayed) \in Nat /\ faults \in Nat /\ clock \in Nat
    BY FS_CardinalityType DEF ClockInv, TypeOK, Stamps
  <2> QED
    BY <2>1, <2>2, WeeklyBounds DEF ClockInv
<1>13. CASE UNCHANGED vars
  <2>1. Delayed' = Delayed /\ UNCHANGED <<clock, faults>>
    BY <1>13 DEF Delayed, vars, local
  <2> QED
    BY <2>1 DEF ClockInv
<1> QED
  BY <1>1, <1>2, <1>3, <1>4, <1>5, <1>6, <1>7, <1>8, <1>9, <1>10, <1>11, <1>12, <1>13 DEF Next,
     Step

\* Every step keeps old keys in the hands of rotations only.
LEMMA HeldStep ==
    TypeOK /\ HeldInv /\ [Next]_vars => HeldInv'
<1> SUFFICES ASSUME TypeOK /\ HeldInv, [Next]_vars PROVE HeldInv'
  OBVIOUS
<1>1. ASSUME NEW r \in Runs, StartRun(r) PROVE HeldInv'
  BY <1>1 DEF HeldInv, StartRun
<1>2. ASSUME NEW r \in Runs, Check(r) PROVE HeldInv'
  BY <1>2 DEF HeldInv, Check, Done, At
<1>3. ASSUME NEW r \in Runs, PushNothing(r) PROVE HeldInv'
  BY <1>3 DEF HeldInv, PushNothing, Done, At
<1>4. ASSUME NEW r \in Runs, Push(r) PROVE HeldInv'
  BY <1>4 DEF HeldInv, Push, Done, At
<1>5. ASSUME NEW r \in Runs, ReadNoKey(r) PROVE HeldInv'
  BY <1>5 DEF HeldInv, ReadNoKey, Goto
<1>6. ASSUME NEW r \in Runs, ReadKey(r) PROVE HeldInv'
  BY <1>6 DEF TypeOK, HeldInv, ReadKey, Goto
<1>7. ASSUME NEW r \in Runs, Retire(r) PROVE HeldInv'
  BY <1>7 DEF HeldInv, Retire, Goto
<1>8. ASSUME NEW r \in Runs, Truncate(r) PROVE HeldInv'
  BY <1>8 DEF HeldInv, Truncate, Goto
<1>9. ASSUME NEW r \in Runs, WriteKey(r) PROVE HeldInv'
  BY <1>9 DEF TypeOK, HeldInv, WriteKey, Done, Leave
<1>10. ASSUME NEW r \in Runs, Fail(r) PROVE HeldInv'
  BY <1>10 DEF TypeOK, HeldInv, Fail, Failing, Leave, TryAgain
<1>11. ASSUME NEW r \in Runs, Retry(r) PROVE HeldInv'
  BY <1>11 DEF HeldInv, Retry, Goto
<1>12. CASE Tick
  BY <1>12 DEF HeldInv, Tick, local
<1>13. CASE UNCHANGED vars
  BY <1>13 DEF HeldInv, vars, local
<1> QED
  BY <1>1, <1>2, <1>3, <1>4, <1>5, <1>6, <1>7, <1>8, <1>9, <1>10, <1>11, <1>12, <1>13 DEF Next,
     Step

\* Every step keeps each key in a file.
LEMMA KeptStep ==
    TypeOK /\ IssuedInv /\ KnownInv /\ HeldInv /\ KeptInv /\ [Next]_vars => KeptInv'
<1> SUFFICES ASSUME TypeOK /\ IssuedInv /\ KnownInv /\ HeldInv /\ KeptInv, [Next]_vars
             PROVE KeptInv'
  OBVIOUS
<1>1. ASSUME NEW r \in Runs, StartRun(r) PROVE KeptInv'
  BY <1>1 DEF KeptInv, Current, Retired, StartRun, files
<1>2. ASSUME NEW r \in Runs, Check(r) PROVE KeptInv'
  BY <1>2 DEF KeptInv, Current, Retired, Check, files, Done
<1>3. ASSUME NEW r \in Runs, PushNothing(r) PROVE KeptInv'
  BY <1>3 DEF KeptInv, Current, Retired, PushNothing, files, Done
<1>4. ASSUME NEW r \in Runs, Push(r) PROVE KeptInv'
  BY <1>4 DEF KeptInv, Current, Retired, Push, files, Done
<1>5. ASSUME NEW r \in Runs, ReadNoKey(r) PROVE KeptInv'
  <2>1. held[r] \notin issued
    BY <1>5 DEF ReadNoKey, HeldInv, IssuedInv, NoFile
  <2>2. \A x \in Runs : step'[x] = "truncate" => step[x] = "truncate" \/ x = r
    BY <1>5 DEF ReadNoKey, Goto
  <2> QED
    BY <1>5, <2>1, <2>2 DEF KeptInv, Current, Retired, ReadNoKey, files
<1>6. ASSUME NEW r \in Runs, ReadKey(r) PROVE KeptInv'
  BY <1>6 DEF KeptInv, Current, Retired, ReadKey, Goto, Losing
<1>7. ASSUME NEW r \in Runs, Retire(r) PROVE KeptInv'
  BY <1>7 DEF TypeOK, KeptInv, Current, Retired, Retire, Goto, Losing
<1>8. ASSUME NEW r \in Runs, Truncate(r) PROVE KeptInv'
  BY <1>8 DEF KeptInv, Current, Retired, Truncate, Goto, Losing
<1>9. ASSUME NEW r \in Runs, WriteKey(r) PROVE KeptInv'
  <2>1. \A x \in Runs : step'[x] = "truncate" => step[x] = "truncate" /\ held'[x] = held[x] /\ x # r
    BY <1>9 DEF WriteKey, Done, Leave
  <2>2. /\ Retired' = Retired /\ NextKey \in Current'
        /\ Current \subseteq Current' \cup {key[task[r]]}
    BY <1>9 DEF TypeOK, Retired, Current, WriteKey
  <2>3. issued' = issued \cup {NextKey} /\ excused' = excused \cup ({key[task[r]]} \cap issued)
    BY <1>9 DEF WriteKey, Losing
  <2>4. \A x \in Runs : held[x] \in issued' => held[x] \in issued
    BY <2>3, NewKey DEF KnownInv, NoFile, EmptyFile
  <2>5. issued' \subseteq Current' \cup Retired' \cup excused'
    BY <2>2, <2>3 DEF KeptInv
  <2> QED
    BY <2>1, <2>2, <2>3, <2>4 DEF KeptInv
<1>10. ASSUME NEW r \in Runs, Fail(r) PROVE KeptInv'
  BY <1>10 DEF TypeOK, KeptInv, Current, Retired, Fail, Failing, Leave, TryAgain, files
<1>11. ASSUME NEW r \in Runs, Retry(r) PROVE KeptInv'
  BY <1>11 DEF KeptInv, Current, Retired, Retry, files, Goto
<1>12. CASE Tick
  BY <1>12 DEF KeptInv, Current, Retired, Tick, files, local
<1>13. CASE UNCHANGED vars
  BY <1>13 DEF KeptInv, Current, Retired, vars, files, local
<1> QED
  BY <1>1, <1>2, <1>3, <1>4, <1>5, <1>6, <1>7, <1>8, <1>9, <1>10, <1>11, <1>12, <1>13 DEF Next,
     Step

\* Every step keeps empty key files with a rotation.
LEMMA EmptyStep ==
    TypeOK /\ IssuedInv /\ EmptyIsPassing /\ [Next]_vars => EmptyIsPassing'
<1> SUFFICES ASSUME TypeOK /\ IssuedInv /\ EmptyIsPassing, [Next]_vars PROVE EmptyIsPassing'
  OBVIOUS
<1>1. ASSUME NEW r \in Runs, StartRun(r) PROVE EmptyIsPassing'
  BY <1>1 DEF EmptyIsPassing, Kinds, StartRun, files
<1>2. ASSUME NEW r \in Runs, Check(r) PROVE EmptyIsPassing'
  BY <1>2 DEF EmptyIsPassing, Kinds, Check, files, Done, At
<1>3. ASSUME NEW r \in Runs, PushNothing(r) PROVE EmptyIsPassing'
  BY <1>3 DEF EmptyIsPassing, Kinds, PushNothing, files, Done, At
<1>4. ASSUME NEW r \in Runs, Push(r) PROVE EmptyIsPassing'
  BY <1>4 DEF EmptyIsPassing, Kinds, Push, files, Done, At
<1>5. ASSUME NEW r \in Runs, ReadNoKey(r) PROVE EmptyIsPassing'
  BY <1>5 DEF EmptyIsPassing, ReadNoKey, files, Goto
<1>6. ASSUME NEW r \in Runs, ReadKey(r) PROVE EmptyIsPassing'
  BY <1>6 DEF EmptyIsPassing, ReadKey, Goto
<1>7. ASSUME NEW r \in Runs, Retire(r) PROVE EmptyIsPassing'
  BY <1>7 DEF EmptyIsPassing, Retire, Goto
<1>8. ASSUME NEW r \in Runs, Truncate(r) PROVE EmptyIsPassing'
  BY <1>8 DEF EmptyIsPassing, Truncate, Goto
<1>9. ASSUME NEW r \in Runs, WriteKey(r) PROVE EmptyIsPassing'
  BY <1>9, NewKey DEF TypeOK, EmptyIsPassing, EmptyFile, WriteKey, Done
<1>10. ASSUME NEW r \in Runs, Fail(r) PROVE EmptyIsPassing'
  BY <1>10 DEF EmptyIsPassing, Fail, Failing, TryAgain, files
<1>11. ASSUME NEW r \in Runs, Retry(r) PROVE EmptyIsPassing'
  BY <1>11 DEF EmptyIsPassing, Retry, files, Goto
<1>12. CASE Tick
  BY <1>12 DEF EmptyIsPassing, Tick, files, local
<1>13. CASE UNCHANGED vars
  BY <1>13 DEF EmptyIsPassing, vars, files, local
<1> QED
  BY <1>1, <1>2, <1>3, <1>4, <1>5, <1>6, <1>7, <1>8, <1>9, <1>10, <1>11, <1>12, <1>13 DEF Next,
     Step

\* drift.compare and drift.compare_all flag the same fields.
LEMMA OutlooksAgree == Agree(NoResult) /\ \A outlook \in Outlooks : Agree(outlook)
<1>1. ASSUME NEW base, NEW current, NEW low
      PROVE  Agree([flagged |-> Compare(base, current, low),
                    all |-> CompareAll(base, current, low)])
  BY DEF Agree, Compare, CompareAll
<1>2. Agree(NoResult)
  BY DEF Agree, NoResult
<1> QED
  BY <1>1, <1>2 DEF Outlooks

\* Every step keeps the two comparisons in agreement.
LEMMA ResultStep ==
    TypeOK /\ ResultInv /\ [Next]_vars => ResultInv'
<1> SUFFICES ASSUME TypeOK /\ ResultInv, [Next]_vars PROVE ResultInv'
  OBVIOUS
<1>1. ASSUME NEW r \in Runs, StartRun(r) PROVE ResultInv'
  BY <1>1 DEF ResultInv, StartRun, drift
<1>2. ASSUME NEW r \in Runs, Check(r) PROVE ResultInv'
  <2>1. PICK outlook \in Outlooks : result' = [result EXCEPT ![r] = outlook]
    BY <1>2 DEF Check
  <2> QED
    BY <2>1, OutlooksAgree DEF ResultInv
<1>3. ASSUME NEW r \in Runs, PushNothing(r) PROVE ResultInv'
  <2>1. result' = [result EXCEPT ![r] = NoResult]
    BY <1>3 DEF PushNothing
  <2> QED
    BY <2>1, OutlooksAgree DEF ResultInv
<1>4. ASSUME NEW r \in Runs, Push(r) PROVE ResultInv'
  <2>1. result' = [result EXCEPT ![r] = NoResult]
    BY <1>4 DEF Push
  <2> QED
    BY <2>1, OutlooksAgree DEF ResultInv
<1>5. ASSUME NEW r \in Runs, ReadNoKey(r) PROVE ResultInv'
  BY <1>5 DEF ResultInv, ReadNoKey, drift
<1>6. ASSUME NEW r \in Runs, ReadKey(r) PROVE ResultInv'
  BY <1>6 DEF ResultInv, ReadKey, drift
<1>7. ASSUME NEW r \in Runs, Retire(r) PROVE ResultInv'
  BY <1>7 DEF ResultInv, Retire, drift
<1>8. ASSUME NEW r \in Runs, Truncate(r) PROVE ResultInv'
  BY <1>8 DEF ResultInv, Truncate, drift
<1>9. ASSUME NEW r \in Runs, WriteKey(r) PROVE ResultInv'
  BY <1>9 DEF ResultInv, WriteKey, drift
<1>10. ASSUME NEW r \in Runs, Fail(r) PROVE ResultInv'
  BY <1>10 DEF ResultInv, Fail, Failing
<1>11. ASSUME NEW r \in Runs, Retry(r) PROVE ResultInv'
  BY <1>11 DEF ResultInv, Retry, drift
<1>12. CASE Tick
  BY <1>12 DEF ResultInv, Tick, drift
<1>13. CASE UNCHANGED vars
  BY <1>13 DEF ResultInv, vars, drift
<1> QED
  BY <1>1, <1>2, <1>3, <1>4, <1>5, <1>6, <1>7, <1>8, <1>9, <1>10, <1>11, <1>12, <1>13 DEF Next,
     Step

\* Every step keeps the gauges those of the last push.
LEMMA AlertsStep ==
    TypeOK /\ ResultInv /\ AlertsMatchCompare /\ [Next]_vars => AlertsMatchCompare'
<1> SUFFICES ASSUME TypeOK /\ ResultInv /\ AlertsMatchCompare, [Next]_vars
             PROVE AlertsMatchCompare'
  OBVIOUS
<1>1. ASSUME NEW r \in Runs, StartRun(r) PROVE AlertsMatchCompare'
  BY <1>1 DEF AlertsMatchCompare, StartRun, drift
<1>2. ASSUME NEW r \in Runs, Check(r) PROVE AlertsMatchCompare'
  BY <1>2 DEF AlertsMatchCompare, Check
<1>3. ASSUME NEW r \in Runs, PushNothing(r) PROVE AlertsMatchCompare'
  BY <1>3 DEF AlertsMatchCompare, PushNothing
<1>4. ASSUME NEW r \in Runs, Push(r) PROVE AlertsMatchCompare'
  BY <1>4 DEF AlertsMatchCompare, ResultInv, Agree, Push, Pushed
<1>5. ASSUME NEW r \in Runs, ReadNoKey(r) PROVE AlertsMatchCompare'
  BY <1>5 DEF AlertsMatchCompare, ReadNoKey, drift
<1>6. ASSUME NEW r \in Runs, ReadKey(r) PROVE AlertsMatchCompare'
  BY <1>6 DEF AlertsMatchCompare, ReadKey, drift
<1>7. ASSUME NEW r \in Runs, Retire(r) PROVE AlertsMatchCompare'
  BY <1>7 DEF AlertsMatchCompare, Retire, drift
<1>8. ASSUME NEW r \in Runs, Truncate(r) PROVE AlertsMatchCompare'
  BY <1>8 DEF AlertsMatchCompare, Truncate, drift
<1>9. ASSUME NEW r \in Runs, WriteKey(r) PROVE AlertsMatchCompare'
  BY <1>9 DEF AlertsMatchCompare, WriteKey, drift
<1>10. ASSUME NEW r \in Runs, Fail(r) PROVE AlertsMatchCompare'
  BY <1>10 DEF AlertsMatchCompare, ResultInv, Agree, Fail, Failing, Pushed
<1>11. ASSUME NEW r \in Runs, Retry(r) PROVE AlertsMatchCompare'
  BY <1>11 DEF AlertsMatchCompare, Retry, drift
<1>12. CASE Tick
  BY <1>12 DEF AlertsMatchCompare, Tick, drift
<1>13. CASE UNCHANGED vars
  BY <1>13 DEF AlertsMatchCompare, vars, drift
<1> QED
  BY <1>1, <1>2, <1>3, <1>4, <1>5, <1>6, <1>7, <1>8, <1>9, <1>10, <1>11, <1>12, <1>13 DEF Next,
     Step

\* The first two keys.
LEMMA TwoKeys == IsFiniteSet({1, 2}) /\ Cardinality({1, 2}) = 2
<1>1. IsFiniteSet({1}) /\ Cardinality({1}) = 1
  BY FS_Singleton
<1>2. 2 \notin {1} /\ {1, 2} = {1} \cup {2}
  OBVIOUS
<1>3. /\ IsFiniteSet({1} \cup {2})
      /\ Cardinality({1} \cup {2}) = IF 2 \in {1} THEN Cardinality({1}) ELSE Cardinality({1}) + 1
  BY <1>1, FS_AddElement
<1> QED
  BY <1>1, <1>3

\* The initial state satisfies the invariant.
LEMMA InitInv == Init => IInv
<1> SUFFICES ASSUME Init PROVE IInv
  OBVIOUS
<1>1. IssuedInv
  <2>1. issued \in {{1, 2}, {}}
    BY DEF Init
  <2>2. IsFiniteSet({}) /\ IsFiniteSet({1, 2})
    BY FS_EmptySet, TwoKeys
  <2>3. Cardinality({1, 2}) = 2 /\ Cardinality({}) = 0
    BY FS_EmptySet, TwoKeys
  <2>4. issued \subseteq 1 .. Cardinality(issued)
    <3>1. CASE issued = {}
      BY <3>1
    <3>2. CASE issued = {1, 2}
      BY <3>2, <2>3
    <3> QED
      BY <2>1, <3>2
  <2>5. IsFiniteSet(issued)
    BY <2>1, <2>2
  <2> QED
    BY <2>4, <2>5 DEF IssuedInv
<1>2. TypeOK
  <2>1. clock \in Stamps /\ faults \in 0 .. MaxFaults /\ 0 \in Stamps /\ 0 \in 0 .. Retries
    BY WeeklyBounds DEF Init, Stamps
  <2>2. NoFile \in Contents
    BY DEF Contents
  <2>3. key \in [Kinds -> Contents]
    <3>1. CASE issued = {}
      BY <3>1, <2>2 DEF Init
    <3>2. CASE issued = {1, 2}
      <4>3. NextKey = 3
        BY <3>2, TwoKeys DEF NextKey
      <4>4. 1 \in Contents /\ 2 \in Contents
        BY <4>3 DEF Contents
      <4> QED
        BY <2>2, <4>4 DEF Init
    <3> QED
      BY <3>1, <3>2 DEF Init
  <2>4. step \in [Runs -> Steps] /\ task \in [Runs -> ToSet(Tasks) \cup {"waiting"}]
    BY DEF Init, Steps
  <2> QED
    BY <2>1, <2>4 DEF Init, TypeOK
<1>3. ClockInv
  <2>1. Delayed = {}
    BY DEF Init, Delayed
  <2> QED
    BY <2>1, FS_EmptySet, WeeklyBounds DEF Init, ClockInv
<1>4. HeldInv /\ KnownInv
  BY DEF Init, HeldInv, KnownInv
<1>5. KeptInv
  BY DEF Init, KeptInv, Current, Kinds
<1>6. EmptyIsPassing
  BY DEF Init, EmptyIsPassing, EmptyFile, NoFile
<1>7. ResultInv /\ AlertsMatchCompare
  BY OutlooksAgree DEF Init, ResultInv, AlertsMatchCompare
<1> QED
  BY <1>1, <1>2, <1>3, <1>4, <1>5, <1>6, <1>7 DEF IInv

\* Every step keeps the invariant.
LEMMA NextInv == IInv /\ [Next]_vars => IInv'
  BY TypeStep, IssuedStep, KnownStep, ClockStep, HeldStep, KeptStep, EmptyStep, ResultStep,
     AlertsStep
     DEF IInv

LEMMA InvariantHolds == Spec => []IInv
  BY InitInv, NextInv, PTL DEF Spec

-----------------------------------------------------------------------------
(* A run that has started ends: what holds without fairness.               *)

\* Only a rotation has steps between its first and its last one.
RotationSteps ==
    \A r \in Runs :
        /\ step[r] \in {"retire", "truncate", "write"} => task[r] \in Kinds
        /\ step[r] = "begin" \/ task[r] \notin Idle

\* The run has a step to take: the guards of the actions of Step.
CanStep(r) ==
    \/ At(r, "check", "begin") /\ Outlooks # {}
    \/ At(r, "push", "begin")
    \/ task[r] \in Kinds /\ step[r] \in {"begin", "retire", "truncate", "write"}
    \/ step[r] = "delay"

\* A run under way has a step to take, whatever the other runs are at: no
\* rotation waits for another, and a delay ends in another attempt.
NoRunStalls ==
    Windows # {} =>
        \A r \in Runs : task[r] \notin Idle /\ step[r] # "failed" => CanStep(r)

\* The tasks a run has before it, the retries of the present one, and the
\* steps of the attempt.
TasksLeft(r) ==
    CASE task[r] = "check"   -> 4
      [] task[r] = "push"    -> 3
      [] task[r] = "pseudo"  -> 2
      [] task[r] = "token"   -> 1
      [] task[r] = "success" -> 0
      [] OTHER               -> 5
RetriesLeft(r) == Retries - attempt[r]
StepsLeft(r) ==
    CASE step[r] = "delay"    -> 5
      [] step[r] = "begin"    -> 4
      [] step[r] = "retire"   -> 3
      [] step[r] = "truncate" -> 2
      [] step[r] = "write"    -> 1
      [] OTHER                -> 0

\* A step of a run, failed ones too, takes it nearer to its end, and no other
\* run's step takes it back.
Nearer(r) ==
    \/ TasksLeft(r)' < TasksLeft(r)
    \/ /\ TasksLeft(r)' = TasksLeft(r)
       /\ \/ RetriesLeft(r)' < RetriesLeft(r)
          \/ RetriesLeft(r)' = RetriesLeft(r) /\ StepsLeft(r)' < StepsLeft(r)
RunsAdvance ==
    \A r \in Runs :
        /\ StartRun(r) \/ Step(r) \/ Fail(r) => Nearer(r)
        /\ Nearer(r) \/ UNCHANGED <<task[r], attempt[r], step[r]>>

\* What a step of a run does to its place in the chain.
LEMMA RunMoves ==
    ASSUME TypeOK, RotationSteps, NEW r \in Runs, StartRun(r) \/ Step(r) \/ Fail(r)
    PROVE  /\ \A x \in Runs \ {r} : UNCHANGED <<task[x], attempt[x], step[x]>>
           /\ \/ task[r] = "waiting" /\ task'[r] = "check" /\ step[r] = "begin"
                 /\ step'[r] = "begin"
              \/ /\ task[r] \in {"check", "push", "pseudo", "token"} /\ task'[r] = After(task[r])
                 /\ step'[r] = "begin"
              \/ /\ task'[r] = task[r] /\ task[r] \notin Idle
                 /\ \/ attempt'[r] = attempt[r] + 1 /\ step'[r] = "delay"
                    \/ /\ attempt'[r] = attempt[r]
                       /\ \/ step[r] = "delay" /\ step'[r] = "begin"
                          \/ step[r] \notin {"delay", "failed"} /\ step'[r] = "failed"
                          \/ /\ task[r] \in Kinds
                             /\ \/ step[r] = "begin" /\ step'[r] \in {"retire", "truncate"}
                                \/ step[r] = "retire" /\ step'[r] = "truncate"
                                \/ step[r] = "truncate" /\ step'[r] = "write"
<1>1. CASE StartRun(r)
  BY <1>1 DEF StartRun, TypeOK, RotationSteps, Idle
<1>2. CASE Check(r) \/ PushNothing(r) \/ Push(r) \/ WriteKey(r)
  <2>1. task[r] \in {"check", "push", "pseudo", "token"} /\ Done(r)
    BY <1>2 DEF Check, PushNothing, Push, WriteKey, At, Kinds
  <2> QED
    BY <2>1 DEF Done, TypeOK
<1>3. CASE ReadNoKey(r) \/ ReadKey(r) \/ Retire(r) \/ Truncate(r)
  BY <1>3 DEF ReadNoKey, ReadKey, Retire, Truncate, Goto, Kinds, Idle, TypeOK
<1>4. CASE Retry(r)
  BY <1>4 DEF Retry, Goto, RotationSteps, TypeOK
<1>5. CASE Fail(r)
  BY <1>5 DEF Fail, Failing, TryAgain, TypeOK
<1> QED
  BY <1>1, <1>2, <1>3, <1>4, <1>5 DEF Step

\* The other steps move no run.
LEMMA OthersMove ==
    ASSUME [Next]_vars, NEW r \in Runs,
           \A x \in Runs : ~(StartRun(x) \/ Step(x) \/ Fail(x))
    PROVE  UNCHANGED <<task, attempt, step>>
  BY DEF Next, Tick, vars, local

LEMMA RotationStep == TypeOK /\ RotationSteps /\ [Next]_vars => RotationSteps'
<1> SUFFICES ASSUME TypeOK, RotationSteps, [Next]_vars, NEW r \in Runs
             PROVE  /\ step'[r] \in {"retire", "truncate", "write"} => task'[r] \in Kinds
                    /\ step'[r] = "begin" \/ task'[r] \notin Idle
  BY DEF RotationSteps
<1>1. CASE \A x \in Runs : ~(StartRun(x) \/ Step(x) \/ Fail(x))
  BY <1>1, OthersMove DEF RotationSteps
<1>2. ASSUME NEW x \in Runs \ {r}, StartRun(x) \/ Step(x) \/ Fail(x)
      PROVE  UNCHANGED <<task[r], step[r]>>
  BY <1>2, RunMoves
<1>3. CASE StartRun(r) \/ Step(r) \/ Fail(r)
  BY <1>3, RunMoves DEF Kinds, Idle
<1> QED
  BY <1>1, <1>2, <1>3 DEF RotationSteps

\* The three measures are numbers.
LEMMA MeasureTypes ==
    ASSUME TypeOK, NEW r \in Runs
    PROVE  TasksLeft(r) \in 0 .. 5 /\ RetriesLeft(r) \in Nat /\ StepsLeft(r) \in 0 .. 5
<1>1. attempt[r] \in 0 .. Retries
  BY DEF TypeOK
<1> QED
  BY <1>1, WeeklyBounds DEF TasksLeft, RetriesLeft, StepsLeft

LEMMA RunNearer ==
    ASSUME TypeOK, RotationSteps, NEW r \in Runs, StartRun(r) \/ Step(r) \/ Fail(r)
    PROVE  Nearer(r)
<1>1. attempt[r] \in Nat /\ Retries \in Nat
  BY WeeklyBounds DEF TypeOK
<1>2. CASE task[r] = "waiting" /\ task'[r] = "check"
  BY <1>2 DEF Nearer, TasksLeft
<1>3. CASE task[r] \in {"check", "push", "pseudo", "token"} /\ task'[r] = After(task[r])
  BY <1>3, TaskChain DEF Nearer, TasksLeft
<1>4. CASE task'[r] = task[r] /\ attempt'[r] = attempt[r] + 1
  BY <1>1, <1>4 DEF Nearer, TasksLeft, RetriesLeft
<1>5. ASSUME task'[r] = task[r], attempt'[r] = attempt[r], StepsLeft(r)' < StepsLeft(r)
      PROVE  Nearer(r)
  BY <1>5 DEF Nearer, TasksLeft, RetriesLeft
<1>6. \/ step[r] = "delay" /\ step'[r] = "begin"
      \/ step[r] = "begin" /\ step'[r] \in {"retire", "truncate"}
      \/ step[r] = "retire" /\ step'[r] = "truncate"
      \/ step[r] = "truncate" /\ step'[r] = "write"
      \/ step[r] \notin {"delay", "failed"} /\ step'[r] = "failed"
      => StepsLeft(r)' < StepsLeft(r)
  BY DEF StepsLeft, TypeOK, Steps
<1> QED
  BY <1>2, <1>3, <1>4, <1>5, <1>6, RunMoves

LEMMA NextAdvances == TypeOK /\ RotationSteps /\ [Next]_vars => RunsAdvance
<1> SUFFICES ASSUME TypeOK, RotationSteps, [Next]_vars, NEW r \in Runs
             PROVE  /\ StartRun(r) \/ Step(r) \/ Fail(r) => Nearer(r)
                    /\ Nearer(r) \/ UNCHANGED <<task[r], attempt[r], step[r]>>
  BY DEF RunsAdvance
<1>1. CASE \A x \in Runs : ~(StartRun(x) \/ Step(x) \/ Fail(x))
  BY <1>1, OthersMove
<1>2. ASSUME NEW x \in Runs \ {r}, StartRun(x) \/ Step(x) \/ Fail(x)
      PROVE  UNCHANGED <<task[r], attempt[r], step[r]>>
  BY <1>2, RunMoves
<1>3. StartRun(r) \/ Step(r) \/ Fail(r) => Nearer(r)
  BY RunNearer
<1> QED
  BY <1>1, <1>2, <1>3

\* Any two windows give an outcome for the check.
LEMMA OutlooksExist == Windows # {} => Outlooks # {}
<1> SUFFICES ASSUME NEW w \in Windows PROVE Outlooks # {}
  OBVIOUS
<1>1. <<w, w>> \in Windows \X Windows /\ {} \in SUBSET UNION {DOMAIN v : v \in Windows}
  OBVIOUS
<1>2. [flagged |-> Compare(<<w, w>>[1], <<w, w>>[2], {}),
       all |-> CompareAll(<<w, w>>[1], <<w, w>>[2], {})] \in Outlooks
  BY <1>1 DEF Outlooks
<1> QED
  BY <1>2

LEMMA RotationsGoOn == TypeOK /\ RotationSteps => NoRunStalls
<1> SUFFICES ASSUME TypeOK, RotationSteps, Windows # {}, NEW r \in Runs,
                    task[r] \notin Idle, step[r] # "failed"
             PROVE  CanStep(r)
  BY DEF NoRunStalls
<1>1. task[r] \in {"check", "push", "pseudo", "token"}
  BY TaskChain DEF TypeOK, Idle
<1>2. step[r] \in {"begin", "retire", "truncate", "write", "delay"}
  BY DEF TypeOK, Steps
<1> QED
  BY <1>1, <1>2, OutlooksExist DEF CanStep, At, Kinds, RotationSteps

-----------------------------------------------------------------------------
(* What follows.                                                           *)

\* Every variable of the runs and the key files keeps its type; the clock
\* stays within the ticks and the retries that failures allow.
THEOREM WeeklyTypeCorrect == Spec => []TypeOK
<1>1. IInv => TypeOK
  BY DEF IInv
<1> QED
  BY <1>1, InvariantHolds, PTL

\* No rotation loses a key: the old one is written to retired_keys_dir before
\* the key file is opened for the new one, in every interleaving of any
\* number of runs and after any failure, but for the name clashes and the
\* overlapping rotations that excused records.
THEOREM NoKeyIsLost == Spec => []KeyPreserved
<1>1. IInv => KeyPreserved
  BY DEF IInv, KeptInv, Current, Retired, KeyPreserved, Found
<1> QED
  BY <1>1, InvariantHolds, PTL

\* An empty key file has a run at its rotation: the chain does not go past a
\* rotation that has not written its key.
THEOREM EmptyFileIsPassing == Spec => []EmptyIsPassing
<1>1. IInv => EmptyIsPassing
  BY DEF IInv
<1> QED
  BY <1>1, InvariantHolds, PTL

\* Prometheus and the log show one outcome: what the Pushgateway has as
\* flagged is what compare() flagged in the run that pushed last.
THEOREM AlertsAreOfOneRun == Spec => []AlertsMatchCompare
<1>1. IInv => AlertsMatchCompare
  BY DEF IInv
<1> QED
  BY <1>1, InvariantHolds, PTL

\* A run that has started and neither ended nor failed always has a step to
\* take: overlapping runs share the key files but wait for nothing
\* (airflow_tasks.py:148-190; redact_weekly_validation.py:30).
THEOREM RunsNeverStall == Spec => []NoRunStalls
<1>1. Init => RotationSteps
  BY DEF Init, RotationSteps
<1>2. IInv => TypeOK
  BY DEF IInv
<1> QED
  BY <1>1, <1>2, RotationStep, RotationsGoOn, InvariantHolds, PTL DEF Spec

\* Every step of a run, a failure too, takes it nearer to success or to a task
\* without retries, and no step of another run takes it back: with fairness,
\* and NoRunStalls, RunEnds (redact_weekly_validation.py:30, :102).
THEOREM RunsAdvanceAlways == Spec => [][RunsAdvance]_vars
<1>1. Init => RotationSteps
  BY DEF Init, RotationSteps
<1>2. IInv => TypeOK
  BY DEF IInv
<1> QED
  BY <1>1, <1>2, RotationStep, NextAdvances, InvariantHolds, PTL DEF Spec

=============================================================================
