--------------------------- MODULE TokenStoreProofs ---------------------------
(***************************************************************************)
(* Proofs about TokenStore, for every set of workers, threads, values and  *)
(* types, every save cadence and compaction threshold, and any number of   *)
(* crashes and torn writes.                                                *)
(***************************************************************************)
EXTENDS TokenStore, Integers, SequenceTheorems, WellFoundedInduction, TLAPS

-----------------------------------------------------------------------------
(* The dictionaries and the log.                                           *)

\* A bounded set of line numbers that is not empty has a last one.
LEMMA BoundedSetHasMaximum ==
    ASSUME NEW n \in Nat, NEW S \in SUBSET (1..n), S # {}
    PROVE  \E i \in S : \A j \in S : j <= i
<1> DEFINE R == {p \in Nat \X Nat : p[1] < p[2]}
           T == {n - i : i \in S}
<1>1. IsWellFoundedOn(R, Nat)
  BY NatLessThanWellFounded DEF OpToRel
<1>2. \A x, y \in Nat : y < x => <<y, x>> \in R
  OBVIOUS
<1> HIDE DEF R
<1>3. \A i \in S : n - i \in Nat
  OBVIOUS
<1>4. T \subseteq Nat
  BY <1>3
<1>5. T # {}
  OBVIOUS
<1>6. PICK x \in T : \A y \in T : ~ (<<y, x>> \in R)
  <2> HIDE DEF T
  <2> QED BY <1>1, <1>4, <1>5, WFMin
<1>7. \A y \in T : ~ (y < x)
  <2> HIDE DEF T
  <2> QED BY <1>2, <1>4, <1>6
<1>8. PICK i \in S : x = n - i
  OBVIOUS
<1>9. \A j \in S : ~ (n - j < n - i)
  BY <1>7, <1>8
<1> QED
  BY <1>9

\* The empty dictionary and the empty batch are well typed.
LEMMA NoEntriesType == EmptyDict \in Dicts /\ NoEntries \in Batches
<1>1. EmptyDict \in [{} -> Tokens]
  BY DEF EmptyDict
<1>2. EmptyDict \in Dicts
  BY <1>1 DEF Dicts
<1> QED
  BY <1>2 DEF NoEntries, Batches

\* A member of Dicts is a function from a set of values to tokens.
LEMMA DictsCharacterized ==
    ASSUME NEW d
    PROVE  d \in Dicts <=> \E S \in SUBSET Values : d \in [S -> Tokens]
  BY DEF Dicts

\* Updating a dictionary by another gives a dictionary.
LEMMA UpdatedType ==
    ASSUME NEW d \in Dicts, NEW e \in Dicts
    PROVE  Updated(d, e) \in Dicts
<1>1. PICK S \in SUBSET Values : d \in [S -> Tokens]
  BY DictsCharacterized
<1>2. PICK U \in SUBSET Values : e \in [U -> Tokens]
  BY DictsCharacterized
<1>3. Updated(d, e) \in [S \cup U -> Tokens]
  BY <1>1, <1>2 DEF Updated
<1> QED
  BY <1>3, S \cup U \in SUBSET Values, DictsCharacterized

\* The entry of a value in a replayed log is in the last line that has one.
LEMMA LastLineWithLine ==
    ASSUME NEW lines \in Seq(Batches), NEW v, LinesWith(lines, v) # {}
    PROVE  LastLineWith(lines, v) \in LinesWith(lines, v)
<1>1. Len(lines) \in Nat /\ LinesWith(lines, v) \in SUBSET (1..Len(lines))
  BY DEF LinesWith
<1>2. \E i \in LinesWith(lines, v) : \A j \in LinesWith(lines, v) : j <= i
  <2> HIDE DEF LinesWith
  <2> QED BY <1>1, BoundedSetHasMaximum
<1> QED
  BY <1>2 DEF LastLineWith

\* Replaying a log on a dictionary gives a dictionary.
LEMMA ReplayForwardType ==
    ASSUME NEW base \in Dicts, NEW lines \in Seq(Batches)
    PROVE  ReplayForward(base, lines) \in Dicts
<1> DEFINE D == DOMAIN base \cup UNION {DOMAIN lines[i].f : i \in DOMAIN lines}
<1>1. PICK S \in SUBSET Values : base \in [S -> Tokens]
  BY DictsCharacterized
<1>2. ASSUME NEW i \in DOMAIN lines
      PROVE  \E U \in SUBSET Values : lines[i].f \in [U -> Tokens]
  <2>1. lines[i] \in Batches
    OBVIOUS
  <2> QED BY <2>1, DictsCharacterized DEF Batches
<1>3. D \in SUBSET Values
  BY <1>1, <1>2
<1>4. ASSUME NEW v \in D
      PROVE  ReplayForward(base, lines)[v] \in Tokens
  <2>1. CASE LinesWith(lines, v) = {}
    <3>1. v \in DOMAIN base
      BY <2>1 DEF LinesWith
    <3> QED BY <1>1, <2>1, <3>1 DEF ReplayForward
  <2>2. CASE LinesWith(lines, v) # {}
    <3>1. /\ LastLineWith(lines, v) \in DOMAIN lines
          /\ v \in DOMAIN lines[LastLineWith(lines, v)].f
      BY <2>2, LastLineWithLine DEF LinesWith
    <3>2. lines[LastLineWith(lines, v)].f[v] \in Tokens
      BY <1>2, <3>1
    <3> QED BY <2>2, <3>2 DEF ReplayForward
  <2> QED BY <2>1, <2>2
<1>5. ReplayForward(base, lines) = [v \in D |-> ReplayForward(base, lines)[v]]
  BY DEF ReplayForward
<1>6. ReplayForward(base, lines) \in [D -> Tokens]
  <2> HIDE DEF D
  <2> QED BY <1>4, <1>5
<1> QED
  <2> HIDE DEF D
  <2> QED BY <1>3, <1>6, DictsCharacterized

\* Replaying a log gives a set of tokens.
LEMMA ReplayReverseType ==
    ASSUME NEW base \in SUBSET Tokens, NEW lines \in Seq(Batches)
    PROVE  ReplayReverse(base, lines) \in SUBSET Tokens
<1>1. \A i \in DOMAIN lines : lines[i] \in Batches
  OBVIOUS
<1> QED BY <1>1 DEF ReplayReverse, Batches

\* load() returns a well-typed store.
LEMMA LoadType ==
    ASSUME NEW snap \in Batches, NEW lines \in Seq(Batches)
    PROVE  Load(snap, lines) \in Batches
<1>1. snap.f \in Dicts /\ snap.r \in SUBSET Tokens
  BY DEF Batches
<1> QED BY <1>1, ReplayForwardType, ReplayReverseType DEF Load, Batches

\* Taking a saved batch out of the pending entries leaves a batch.
LEMMA StillPendingType ==
    ASSUME NEW b \in Batches, NEW saved \in Batches
    PROVE  StillPending(b, saved) \in Batches
<1>1. PICK S \in SUBSET Values : b.f \in [S -> Tokens]
  BY DictsCharacterized DEF Batches
<1>2. [v \in DOMAIN b.f \ DOMAIN saved.f |-> b.f[v]] \in [S \ DOMAIN saved.f -> Tokens]
  BY <1>1
<1>3. [v \in DOMAIN b.f \ DOMAIN saved.f |-> b.f[v]] \in Dicts
  BY <1>2, S \ DOMAIN saved.f \in SUBSET Values, DictsCharacterized
<1> QED BY <1>3 DEF StillPending, Batches

\* Writing a line leaves a log.
LEMMA WrittenType ==
    ASSUME wal \in Seq(Batches), NEW b \in Batches
    PROVE  Written(b) \in Seq(Batches)
<1>1. CASE tornTail /\ wal # <<>>
  <2>1. Len(wal) \in 1..Len(wal)
    BY <1>1, EmptySeq
  <2> QED BY <1>1, <2>1, ExceptSeq, NoEntriesType DEF Written
<1>2. CASE tornTail /\ wal = <<>>
  <2>1. [wal EXCEPT ![Len(wal)] = NoEntries] = wal
    BY <1>2
  <2> QED BY <1>2, <2>1 DEF Written
<1>3. CASE ~tornTail
  BY <1>3 DEF Written
<1> QED BY <1>1, <1>2, <1>3

-----------------------------------------------------------------------------
(* Type correctness.                                                       *)

\* A torn line is a line of the log: the log is not empty.
TornTailHasLine == tornTail => wal # <<>>

\* Where a thread can be in save().
Places == {"serving", "locking", "appending", "loading", "writing", "removing",
           "unlocking", "acking"}

\* The torn line is a batch.
LEMMA TornTailRecord ==
    ASSUME TypeOK, TornTailHasLine, tornTail
    PROVE  /\ Len(wal) \in 1..Len(wal)
           /\ wal[Len(wal)] \in Batches
           /\ wal[Len(wal)].r \in SUBSET Tokens
<1>1. wal \in Seq(Batches) /\ wal # <<>>
  BY DEF TypeOK, TornTailHasLine
<1>2. Len(wal) \in 1..Len(wal)
  BY <1>1, EmptySeq
<1>3. wal[Len(wal)] \in Batches
  BY <1>1, <1>2, ElementOfSeq
<1> QED
  BY <1>2, <1>3 DEF Batches

\* Every step of a save that gives up keeps the types.
LEMMA AbandonType ==
    ASSUME TypeOK, NEW t \in Threads, Abandon(t)
    PROVE  /\ up' \in [Workers -> {"down", "loading", "up"}]
           /\ forward' \in [Workers -> Dicts]
           /\ reverse' \in [Workers -> SUBSET Tokens]
           /\ pending' \in [Workers -> Batches]
           /\ calls' \in [Workers -> Nat]
           /\ pc' \in [Threads -> Places]
           /\ carried' \in [Threads -> SUBSET Tokens]
           /\ batch' \in [Threads -> Batches]
           /\ image' \in [Threads -> Batches]
           /\ snapshot' \in Batches
           /\ flock' \in Threads \cup {NoThread}
           /\ acked' \in SUBSET Tokens
           /\ released' \in [Workers -> SUBSET Tokens]
           /\ overdue' \in [Workers -> Nat]
           /\ covers' \in [Threads -> Nat]
           /\ faults' \in Nat
<1> USE NoEntriesType DEF Abandon
<1>1. /\ pc' \in [Threads -> Places]
      /\ carried' \in [Threads -> SUBSET Tokens]
      /\ batch' \in [Threads -> Batches]
      /\ image' \in [Threads -> Batches]
  BY DEF TypeOK, Places
<1>2. covers' \in [Threads -> Nat] /\ faults' \in Nat
  BY DEF TypeOK
<1>3. /\ up' \in [Workers -> {"down", "loading", "up"}]
      /\ forward' \in [Workers -> Dicts]
      /\ reverse' \in [Workers -> SUBSET Tokens]
      /\ pending' \in [Workers -> Batches]
      /\ calls' \in [Workers -> Nat]
      /\ snapshot' \in Batches
      /\ flock' \in Threads \cup {NoThread}
      /\ acked' \in SUBSET Tokens
      /\ released' \in [Workers -> SUBSET Tokens]
      /\ overdue' \in [Workers -> Nat]
  BY DEF TypeOK, store
<1> QED
  BY <1>1, <1>2, <1>3

\* Every variable keeps its type in every step.
LEMMA NextType == TypeOK /\ TornTailHasLine /\ [Next]_vars => TypeOK'
<1> SUFFICES ASSUME TypeOK, TornTailHasLine, [Next]_vars
             PROVE  TypeOK'
  OBVIOUS
<1> USE NoEntriesType, OwnerAssumption
<1>1. ASSUME NEW w \in Workers, LoadSnapshot(w)
      PROVE  TypeOK'
  <2>1. snapshot.f \in Dicts /\ snapshot.r \in SUBSET Tokens
    BY DEF TypeOK, Batches
  <2> QED BY <1>1, <2>1 DEF TypeOK, LoadSnapshot, thread, files, history
<1>2. ASSUME NEW w \in Workers, LoadWal(w)
      PROVE  TypeOK'
  <2>1. /\ ReplayForward(forward[w], wal) \in Dicts
        /\ ReplayReverse(reverse[w], wal) \in SUBSET Tokens
    BY ReplayForwardType, ReplayReverseType DEF TypeOK
  <2> QED BY <1>2, <2>1 DEF TypeOK, LoadWal, thread, files, history
<1>3. ASSUME NEW w \in Workers, Crash(w)
      PROVE  TypeOK'
  BY <1>3 DEF TypeOK, Crash, ThreadsOf, files
<1>4. ASSUME NEW t \in Threads, NEW v \in Values, NEW ty \in Types, Mint(t, v, ty)
      PROVE  TypeOK'
  <2> DEFINE w == Owner[t]
             token == TokenFor(w, v, ty)
             new == [x \in {v} |-> token]
  <2>1. w \in Workers /\ forward[w] \in Dicts /\ pending[w] \in Batches
    BY DEF TypeOK
  <2>2. token \in Tokens
    <3>1. PICK S \in SUBSET Values : forward[w] \in [S -> Tokens]
      BY <2>1, DictsCharacterized
    <3> QED BY <3>1 DEF TokenFor, Tokens
  <2>3. new \in Dicts
    <3>1. new \in [{v} -> Tokens]
      BY <2>2
    <3> QED BY <3>1, {v} \in SUBSET Values, DictsCharacterized
  <2>4. Updated(forward[w], new) \in Dicts
    BY <2>1, <2>3, UpdatedType
  <2>5. [f |-> Updated(pending[w].f, new), r |-> pending[w].r \cup {token}] \in Batches
    <3>1. pending[w].f \in Dicts /\ pending[w].r \in SUBSET Tokens
      BY <2>1 DEF Batches
    <3> QED BY <3>1, <2>2, <2>3, UpdatedType DEF Batches
  <2>6. /\ carried' \in [Threads -> SUBSET Tokens]
        /\ forward' \in [Workers -> Dicts]
        /\ reverse' \in [Workers -> SUBSET Tokens]
        /\ pending' \in [Workers -> Batches]
    <3> HIDE DEF w, token, new
    <3>1. carried' = [carried EXCEPT ![t] = @ \cup {token}]
      BY <1>4 DEF Mint, w, token
    <3>2. \/ UNCHANGED <<forward, reverse, pending>>
          \/ /\ forward' = [forward EXCEPT ![w] = Updated(forward[w], new)]
             /\ reverse' = [reverse EXCEPT ![w] = reverse[w] \cup {token}]
             /\ pending' = [pending EXCEPT ![w] =
                     [f |-> Updated(pending[w].f, new), r |-> pending[w].r \cup {token}]]
      BY <1>4 DEF Mint, w, token, new
    <3>3. carried' \in [Threads -> SUBSET Tokens]
      BY <3>1, <2>2 DEF TypeOK
    <3>4. forward' \in [Workers -> Dicts]
      BY <3>2, <2>1, <2>4 DEF TypeOK
    <3>5. reverse' \in [Workers -> SUBSET Tokens]
      <4> DEFINE more == reverse[w] \cup {token}
      <4>1. more \in SUBSET Tokens /\ reverse \in [Workers -> SUBSET Tokens] /\ w \in Workers
        BY <2>1, <2>2 DEF TypeOK
      <4>2. reverse' = reverse \/ reverse' = [reverse EXCEPT ![w] = more]
        BY <3>2
      <4> HIDE DEF more
      <4> QED BY <4>1, <4>2
    <3>6. pending' \in [Workers -> Batches]
      <4> DEFINE more == [f |-> Updated(pending[w].f, new), r |-> pending[w].r \cup {token}]
      <4>1. more \in Batches /\ pending \in [Workers -> Batches] /\ w \in Workers
        BY <2>1, <2>5 DEF TypeOK
      <4>2. pending' = pending \/ pending' = [pending EXCEPT ![w] = more]
        BY <3>2
      <4> HIDE DEF more
      <4> QED BY <4>1, <4>2
    <3> QED BY <3>3, <3>4, <3>5, <3>6
  <2> QED BY <1>4, <2>6 DEF TypeOK, Mint, files, history
<1>5. ASSUME NEW t \in Threads, SkipSave(t)
      PROVE  TypeOK'
  BY <1>5 DEF TypeOK, SkipSave, files
<1>6. ASSUME NEW t \in Threads, BeginSave(t)
      PROVE  TypeOK'
  BY <1>6 DEF TypeOK, BeginSave, files, history
<1>7. ASSUME NEW t \in Threads, AcquireFlock(t)
      PROVE  TypeOK'
  BY <1>7 DEF TypeOK, AcquireFlock, store, files, history
<1>8. ASSUME NEW t \in Threads, AppendLine(t)
      PROVE  TypeOK'
  <2>1. Written(batch[t]) \in Seq(Batches)
    BY WrittenType DEF TypeOK
  <2>2. tornTail => wal[Len(wal)].r \in SUBSET Tokens
    BY TornTailRecord
  <2> QED BY <1>8, <2>1, <2>2 DEF TypeOK, AppendLine, store, Batches
<1>9. ASSUME NEW t \in Threads, CompactLoad(t)
      PROVE  TypeOK'
  <2>1. Load(snapshot, wal) \in Batches
    BY LoadType DEF TypeOK
  <2> QED BY <1>9, <2>1 DEF TypeOK, CompactLoad, store, files, history
<1>10. ASSUME NEW t \in Threads, CompactWrite(t)
       PROVE  TypeOK'
  BY <1>10 DEF TypeOK, CompactWrite, store, history
<1>11. ASSUME NEW t \in Threads, CompactRemove(t)
       PROVE  TypeOK'
  BY <1>11, EmptySeq DEF TypeOK, CompactRemove, store, history
<1>12. ASSUME NEW t \in Threads, ReleaseFlock(t)
       PROVE  TypeOK'
  BY <1>12 DEF TypeOK, ReleaseFlock, store, files, history
<1>13. ASSUME NEW t \in Threads, AckSave(t)
       PROVE  TypeOK'
  <2>1. StillPending(pending[Owner[t]], batch[t]) \in Batches
    BY StillPendingType DEF TypeOK
  <2> QED BY <1>13, <2>1 DEF TypeOK, AckSave, files, Batches
<1>14. ASSUME NEW t \in Threads, FailAppend(t)
       PROVE  TypeOK'
  BY <1>14, AbandonType DEF TypeOK, FailAppend, Places
<1>15. ASSUME NEW t \in Threads, TearAppend(t)
       PROVE  TypeOK'
  <2>1. \A b \in {NoEntries, batch[t]} : Written(b) \in Seq(Batches)
    BY WrittenType DEF TypeOK
  <2>2. tornTail => wal[Len(wal)].r \in SUBSET Tokens
    BY TornTailRecord
  <2> QED BY <1>15, <2>1, <2>2, AbandonType DEF TypeOK, TearAppend, Places
<1>16. ASSUME NEW t \in Threads, FailCompact(t)
       PROVE  TypeOK'
  BY <1>16, AbandonType DEF TypeOK, FailCompact, Places
<1>17. CASE UNCHANGED vars
  BY <1>17 DEF TypeOK, vars, store, thread, files, history
<1> QED
  BY <1>1, <1>2, <1>3, <1>4, <1>5, <1>6, <1>7, <1>8, <1>9, <1>10, <1>11, <1>12,
     <1>13, <1>14, <1>15, <1>16, <1>17 DEF Next

\* A step leaves a torn line only where there is a line.
LEMMA NextTornTail ==
    TypeOK /\ TornTailHasLine /\ [Next]_vars => TornTailHasLine'
<1> SUFFICES ASSUME TypeOK, TornTailHasLine, [Next]_vars
             PROVE  TornTailHasLine'
  OBVIOUS
<1>1. ASSUME NEW t \in Threads, TearAppend(t)
      PROVE  TornTailHasLine'
  <2>1. PICK b \in {NoEntries, batch[t]} : wal' = Written(b)
    BY <1>1 DEF TearAppend
  <2>2. CASE tornTail
    <3>1. wal' = [wal EXCEPT ![Len(wal)] = NoEntries]
      BY <2>1, <2>2 DEF Written
    <3>2. Len(wal) \in 1..Len(wal) /\ wal \in Seq(Batches)
      BY <2>2, TornTailRecord DEF TypeOK
    <3>3. Len(wal') = Len(wal)
      BY <3>1, <3>2, NoEntriesType, ExceptSeq
    <3> QED BY <3>2, <3>3, EmptySeq DEF TornTailHasLine
  <2>3. CASE ~tornTail
    <3>1. wal' = Append(wal, b) /\ wal \in Seq(Batches) /\ b \in Batches
      BY <2>1, <2>3, NoEntriesType DEF Written, TypeOK
    <3>2. Len(wal') = Len(wal) + 1 /\ Len(wal) \in Nat
      BY <3>1
    <3> QED BY <3>2, EmptySeq DEF TornTailHasLine
  <2> QED BY <2>2, <2>3
<1>2. ASSUME UNCHANGED <<wal, tornTail>> \/ tornTail' = FALSE
      PROVE  TornTailHasLine'
  BY <1>2 DEF TornTailHasLine
<1>3. CASE UNCHANGED vars
  BY <1>2, <1>3 DEF vars, files
<1>4. ASSUME NEW w \in Workers, LoadSnapshot(w) \/ LoadWal(w) \/ Crash(w)
      PROVE  TornTailHasLine'
  BY <1>2, <1>4 DEF LoadSnapshot, LoadWal, Crash, files
<1>5. ASSUME NEW t \in Threads, NEW v \in Values, NEW ty \in Types, Mint(t, v, ty)
      PROVE  TornTailHasLine'
  BY <1>2, <1>5 DEF Mint, files
<1>6. ASSUME NEW t \in Threads, SkipSave(t) \/ BeginSave(t) \/ AcquireFlock(t) \/ CompactLoad(t)
      PROVE  TornTailHasLine'
  BY <1>2, <1>6 DEF SkipSave, BeginSave, AcquireFlock, CompactLoad, files
<1>7. ASSUME NEW t \in Threads, AppendLine(t) \/ CompactWrite(t) \/ CompactRemove(t)
      PROVE  TornTailHasLine'
  BY <1>2, <1>7 DEF AppendLine, CompactWrite, CompactRemove
<1>8. ASSUME NEW t \in Threads, ReleaseFlock(t) \/ AckSave(t) \/ FailAppend(t) \/ FailCompact(t)
      PROVE  TornTailHasLine'
  BY <1>2, <1>8 DEF ReleaseFlock, AckSave, FailAppend, FailCompact, files
<1> QED
  BY <1>1, <1>3, <1>4, <1>5, <1>6, <1>7, <1>8 DEF Next

\* TokenStore is type correct: every variable of the store, its request
\* threads and its files always has the type the code gives it.
THEOREM TypeCorrect == Spec => []TypeOK
<1>1. Init => TypeOK /\ TornTailHasLine
  <2> SUFFICES ASSUME Init
               PROVE  TypeOK /\ TornTailHasLine
    OBVIOUS
  <2> QED BY NoEntriesType, EmptySeq DEF Init, TypeOK, TornTailHasLine
<1>2. TypeOK /\ TornTailHasLine /\ [Next]_vars => (TypeOK /\ TornTailHasLine)'
  BY NextType, NextTornTail
<1> QED
  BY <1>1, <1>2, PTL DEF Spec

-----------------------------------------------------------------------------
(***************************************************************************)
(* Durability of TokenStore: an acknowledged token is recoverable from the *)
(* files, a recoverable token stays so, and the store implements the       *)
(* promise of TokenLedger.  All three rest on one inductive invariant, the *)
(* reason why appends and compactions under the lock lose nothing.         *)
(***************************************************************************)

\* The steps of save() taken with the file lock held, and those after the
\* line was written.
LockHeld == {"appending", "loading", "writing", "removing", "unlocking"}
LineWritten == {"loading", "writing", "removing", "unlocking", "acking"}

\* A thread inside the locked region is the one that holds the lock.
HolderOwnsLock == \A t \in Threads : pc[t] \in LockHeld => flock = t

\* The image a compaction is about to write is what the files hold.
ImageCurrent == \A t \in Threads : pc[t] = "writing" => image[t].r = Recoverable

\* The log is removed only once the snapshot has everything.
SnapshotComplete ==
    \A t \in Threads : pc[t] = "removing" => Recoverable \subseteq snapshot.r

\* A batch past its append is on disk, before it is acknowledged.
BatchOnDisk ==
    \A t \in Threads : pc[t] \in LineWritten => batch[t].r \subseteq Recoverable \cup glued

DurableInv ==
    /\ TypeOK
    /\ TornTailHasLine
    /\ HolderOwnsLock
    /\ ImageCurrent
    /\ SnapshotComplete
    /\ BatchOnDisk
    /\ AckedSurvive

-----------------------------------------------------------------------------
(* What the lines of a log resolve.                                        *)

\* Appending a line adds its tokens and nothing else.
LEMMA ReplayAppended ==
    ASSUME NEW base, NEW lines \in Seq(Batches), NEW b \in Batches
    PROVE  ReplayReverse(base, Append(lines, b)) = ReplayReverse(base, lines) \cup b.r
<1> DEFINE longer == Append(lines, b)
           n == Len(lines)
<1>1. n \in Nat /\ DOMAIN lines = 1..n /\ DOMAIN longer = 1..(n + 1)
  OBVIOUS
<1>2. \A i \in 1..n : longer[i] = lines[i]
  OBVIOUS
<1>3. longer[n + 1] = b
  OBVIOUS
<1>4. 1..(n + 1) = 1..n \cup {n + 1}
  BY <1>1
<1>5. UNION {longer[i].r : i \in DOMAIN longer} =
         (UNION {lines[i].r : i \in DOMAIN lines}) \cup b.r
  <2> HIDE DEF longer, n
  <2> QED BY <1>1, <1>2, <1>3, <1>4
<1> QED
  BY <1>5 DEF ReplayReverse

\* Corrupting a line takes away at most its own tokens.
LEMMA ReplayCorrupted ==
    ASSUME NEW base, NEW lines \in Seq(Batches), NEW n \in DOMAIN lines
    PROVE  LET corrupt == [lines EXCEPT ![n] = NoEntries]
           IN  /\ ReplayReverse(base, lines) \ lines[n].r \subseteq ReplayReverse(base, corrupt)
               /\ ReplayReverse(base, corrupt) \subseteq ReplayReverse(base, lines)
<1> DEFINE corrupt == [lines EXCEPT ![n] = NoEntries]
<1>1. DOMAIN corrupt = DOMAIN lines
  OBVIOUS
<1>2. corrupt[n].r = {}
  BY DEF NoEntries
<1>3. \A i \in DOMAIN lines : i # n => corrupt[i] = lines[i]
  OBVIOUS
<1> HIDE DEF corrupt
<1> QED
  BY <1>1, <1>2, <1>3 DEF ReplayReverse, corrupt

\* What is recoverable once a line was written.
LEMMA WrittenRecoverable ==
    ASSUME TypeOK, TornTailHasLine, NEW b \in Batches,
           wal' = Written(b), snapshot' = snapshot
    PROVE  /\ ~tornTail => Recoverable' = Recoverable \cup b.r
           /\ tornTail => /\ Recoverable \ wal[Len(wal)].r \subseteq Recoverable'
                          /\ Recoverable' \subseteq Recoverable
<1>1. wal \in Seq(Batches)
  BY DEF TypeOK
<1>2. CASE tornTail
  <2>1. Len(wal) \in DOMAIN wal
    BY <1>1, <1>2, TornTailRecord
  <2>2. wal' = [wal EXCEPT ![Len(wal)] = NoEntries]
    BY <1>2 DEF Written
  <2> QED BY <1>1, <1>2, <2>1, <2>2, ReplayCorrupted DEF Recoverable
<1>3. CASE ~tornTail
  <2>1. wal' = Append(wal, b)
    BY <1>3 DEF Written
  <2> QED BY <1>1, <1>3, <2>1, ReplayAppended DEF Recoverable
<1> QED BY <1>2, <1>3

-----------------------------------------------------------------------------
(* What a step does to the files.                                          *)

\* The steps that write the files are taken with the lock held.
LEMMA OnlyHolderWrites ==
    ASSUME [Next]_vars
    PROVE  \/ UNCHANGED <<snapshot, wal, tornTail, glued>>
           \/ \E t \in Threads :
                /\ pc[t] \in LockHeld
                /\ AppendLine(t) \/ CompactWrite(t) \/ CompactRemove(t) \/ TearAppend(t)
<1> DEFINE Kept == UNCHANGED <<snapshot, wal, tornTail, glued>>
<1>1. CASE UNCHANGED vars
  BY <1>1 DEF vars, files, history
<1>2. ASSUME NEW w \in Workers, LoadSnapshot(w) \/ LoadWal(w) \/ Crash(w)
      PROVE  Kept
  BY <1>2 DEF LoadSnapshot, LoadWal, Crash, files, history
<1>3. ASSUME NEW t \in Threads, NEW v \in Values, NEW ty \in Types, Mint(t, v, ty)
      PROVE  Kept
  BY <1>3 DEF Mint, files, history
<1>4. ASSUME NEW t \in Threads,
             \/ SkipSave(t) \/ BeginSave(t) \/ AcquireFlock(t) \/ CompactLoad(t)
             \/ ReleaseFlock(t) \/ AckSave(t)
      PROVE  Kept
  BY <1>4 DEF SkipSave, BeginSave, AcquireFlock, CompactLoad, ReleaseFlock, AckSave,
     files, history
<1>5. ASSUME NEW t \in Threads, FailAppend(t) \/ FailCompact(t)
      PROVE  Kept
  BY <1>5 DEF FailAppend, FailCompact, Abandon
<1>6. ASSUME NEW t \in Threads,
             AppendLine(t) \/ CompactWrite(t) \/ CompactRemove(t) \/ TearAppend(t)
      PROVE  pc[t] \in LockHeld
  BY <1>6 DEF AppendLine, CompactWrite, CompactRemove, TearAppend, LockHeld
<1> QED
  BY <1>1, <1>2, <1>3, <1>4, <1>5, <1>6 DEF Next

\* No step takes a recoverable token from the files, or a token from glued.
LEMMA NothingLost ==
    ASSUME DurableInv, [Next]_vars
    PROVE  Recoverable \ glued' \subseteq Recoverable' /\ glued \subseteq glued'
<1> USE DEF DurableInv
<1>1. CASE UNCHANGED <<snapshot, wal, tornTail, glued>>
  BY <1>1 DEF Recoverable
<1>2. ASSUME NEW t \in Threads, AppendLine(t)
      PROVE  Recoverable \ glued' \subseteq Recoverable' /\ glued \subseteq glued'
  <2>1. batch[t] \in Batches /\ wal' = Written(batch[t]) /\ snapshot' = snapshot
    BY <1>2 DEF TypeOK, AppendLine
  <2>2. tornTail => glued' = glued \cup batch[t].r \cup wal[Len(wal)].r
    BY <1>2 DEF AppendLine
  <2>3. ~tornTail => glued' = glued
    BY <1>2 DEF AppendLine
  <2> QED BY <2>1, <2>2, <2>3, WrittenRecoverable
<1>3. ASSUME NEW t \in Threads, TearAppend(t)
      PROVE  Recoverable \ glued' \subseteq Recoverable' /\ glued \subseteq glued'
  <2>1. PICK b \in {NoEntries, batch[t]} : wal' = Written(b)
    BY <1>3 DEF TearAppend
  <2>2. b \in Batches /\ snapshot' = snapshot
    BY <1>3, NoEntriesType DEF TypeOK, TearAppend, Abandon
  <2>3. glued' = IF tornTail THEN glued \cup wal[Len(wal)].r ELSE glued
    BY <1>3 DEF TearAppend
  <2> QED BY <2>1, <2>2, <2>3, WrittenRecoverable
<1>4. ASSUME NEW t \in Threads, CompactWrite(t)
      PROVE  Recoverable \ glued' \subseteq Recoverable' /\ glued \subseteq glued'
  <2>1. /\ pc[t] = "writing" /\ snapshot' = image[t] /\ wal' = wal /\ glued' = glued
    BY <1>4 DEF CompactWrite, history
  <2>2. image[t].r = Recoverable
    BY <2>1 DEF ImageCurrent
  <2> QED BY <2>1, <2>2 DEF Recoverable, ReplayReverse
<1>5. ASSUME NEW t \in Threads, CompactRemove(t)
      PROVE  Recoverable \ glued' \subseteq Recoverable' /\ glued \subseteq glued'
  <2>1. pc[t] = "removing" /\ snapshot' = snapshot /\ glued' = glued
    BY <1>5 DEF CompactRemove, history
  <2>2. Recoverable \subseteq snapshot.r
    BY <2>1 DEF SnapshotComplete
  <2> QED BY <2>1, <2>2 DEF Recoverable, ReplayReverse
<1> QED
  BY <1>1, <1>2, <1>3, <1>4, <1>5, OnlyHolderWrites
-----------------------------------------------------------------------------
(* What a step does to one thread.                                         *)

\* The steps of thread u that leave it inside save().
MovesInSave(u) ==
    \/ BeginSave(u) \/ AcquireFlock(u) \/ AppendLine(u) \/ CompactLoad(u)
    \/ CompactWrite(u) \/ CompactRemove(u) \/ ReleaseFlock(u)

\* A step moves a thread on in save(), brings it back to serving, or leaves
\* its place and its data alone.
LEMMA OneThreadMoves ==
    ASSUME TypeOK, [Next]_vars, NEW u \in Threads
    PROVE  \/ MovesInSave(u)
           \/ pc'[u] = "serving"
           \/ pc'[u] = pc[u] /\ batch'[u] = batch[u] /\ image'[u] = image[u]
<1> DEFINE Still == pc'[u] = pc[u] /\ batch'[u] = batch[u] /\ image'[u] = image[u]
<1> USE DEF TypeOK
<1>1. CASE UNCHANGED vars
  BY <1>1 DEF vars, thread
<1>2. ASSUME NEW w \in Workers, LoadSnapshot(w) \/ LoadWal(w)
      PROVE  Still
  BY <1>2 DEF LoadSnapshot, LoadWal, thread
<1>3. ASSUME NEW w \in Workers, Crash(w)
      PROVE  Still \/ pc'[u] = "serving"
  BY <1>3 DEF Crash
<1>4. ASSUME NEW t \in Threads, NEW v \in Values, NEW ty \in Types, Mint(t, v, ty)
      PROVE  Still
  BY <1>4 DEF Mint
<1>5. ASSUME NEW t \in Threads, SkipSave(t)
      PROVE  Still
  BY <1>5 DEF SkipSave
<1>6. ASSUME NEW t \in Threads, MovesInSave(t)
      PROVE  Still \/ MovesInSave(u)
  <2>1. CASE t = u
    BY <1>6, <2>1
  <2>2. CASE t # u
    BY <1>6, <2>2 DEF MovesInSave, BeginSave, AcquireFlock, AppendLine, CompactLoad,
       CompactWrite, CompactRemove, ReleaseFlock
  <2> QED BY <2>1, <2>2
<1>7. ASSUME NEW t \in Threads, AckSave(t)
      PROVE  Still \/ pc'[u] = "serving"
  BY <1>7 DEF AckSave
<1>8. ASSUME NEW t \in Threads, FailAppend(t) \/ TearAppend(t) \/ FailCompact(t)
      PROVE  Still \/ pc'[u] = "serving"
  BY <1>8 DEF FailAppend, TearAppend, FailCompact, Abandon
<1> QED
  BY <1>1, <1>2, <1>3, <1>4, <1>5, <1>6, <1>7, <1>8 DEF Next, MovesInSave

-----------------------------------------------------------------------------
(* The invariant is preserved, conjunct by conjunct.                       *)

\* A thread inside the locked region still owns the lock after a step.
LEMMA NextHolder ==
    ASSUME DurableInv, [Next]_vars
    PROVE  HolderOwnsLock'
<1> SUFFICES ASSUME NEW u \in Threads, pc'[u] \in LockHeld
             PROVE  flock' = u
  BY DEF HolderOwnsLock
<1> USE NoThreadAssumption DEF DurableInv, TypeOK, HolderOwnsLock
<1>1. ASSUME pc'[u] = pc[u], flock' = flock
      PROVE  flock' = u
  BY <1>1
<1>2. CASE UNCHANGED vars
  BY <1>1, <1>2 DEF vars, thread
<1>3. ASSUME NEW w \in Workers, LoadSnapshot(w) \/ LoadWal(w)
      PROVE  flock' = u
  BY <1>1, <1>3 DEF LoadSnapshot, LoadWal, thread
<1>4. ASSUME NEW w \in Workers, Crash(w)
      PROVE  flock' = u
  <2>1. pc'[u] = IF Owner[u] = w THEN "serving" ELSE pc[u]
    BY <1>4 DEF Crash
  <2>2. Owner[u] # w /\ pc[u] \in LockHeld
    BY <2>1 DEF LockHeld
  <2> QED BY <1>4, <2>2 DEF Crash, ThreadsOf
<1>5. ASSUME NEW t \in Threads, NEW v \in Values, NEW ty \in Types, Mint(t, v, ty)
      PROVE  flock' = u
  BY <1>1, <1>5 DEF Mint
<1>6. ASSUME NEW t \in Threads, SkipSave(t)
      PROVE  flock' = u
  BY <1>1, <1>6 DEF SkipSave
<1>7. ASSUME NEW t \in Threads, BeginSave(t) \/ AckSave(t)
      PROVE  flock' = u
  <2>1. pc'[t] \notin LockHeld /\ flock' = flock
    BY <1>7 DEF BeginSave, AckSave, LockHeld
  <2>2. pc'[u] = pc[u]
    BY <1>7, <2>1 DEF BeginSave, AckSave
  <2> QED BY <1>1, <2>1, <2>2
<1>8. ASSUME NEW t \in Threads, AcquireFlock(t)
      PROVE  flock' = u
  <2>1. pc[u] \notin LockHeld
    BY <1>8 DEF AcquireFlock, FlockFree
  <2> QED BY <1>8, <2>1 DEF AcquireFlock
<1>9. ASSUME NEW t \in Threads,
             AppendLine(t) \/ CompactLoad(t) \/ CompactWrite(t) \/ CompactRemove(t)
      PROVE  flock' = u
  <2>1. pc[t] \in LockHeld /\ flock' = flock
    BY <1>9 DEF AppendLine, CompactLoad, CompactWrite, CompactRemove, LockHeld
  <2>2. u = t \/ pc'[u] = pc[u]
    BY <1>9 DEF AppendLine, CompactLoad, CompactWrite, CompactRemove
  <2> QED BY <2>1, <2>2
<1>10. ASSUME NEW t \in Threads,
              ReleaseFlock(t) \/ FailAppend(t) \/ TearAppend(t) \/ FailCompact(t)
       PROVE  flock' = u
  <2>1. pc[t] \in LockHeld /\ pc'[t] \notin LockHeld
    BY <1>10 DEF ReleaseFlock, FailAppend, TearAppend, FailCompact, Abandon, LockHeld
  <2>2. u # t /\ pc'[u] = pc[u]
    BY <1>10, <2>1 DEF ReleaseFlock, FailAppend, TearAppend, FailCompact, Abandon
  <2> QED BY <2>1, <2>2
<1> QED
  BY <1>2, <1>3, <1>4, <1>5, <1>6, <1>7, <1>8, <1>9, <1>10 DEF Next

\* While a thread is inside the locked region and stays where it is, no one
\* changes the files.
LEMMA FilesHeldStill ==
    ASSUME DurableInv, [Next]_vars, NEW u \in Threads,
           pc[u] \in LockHeld, pc'[u] = pc[u]
    PROVE  UNCHANGED <<snapshot, wal, tornTail, glued>>
<1>1. ASSUME NEW t \in Threads, pc[t] \in LockHeld,
             AppendLine(t) \/ CompactWrite(t) \/ CompactRemove(t) \/ TearAppend(t)
      PROVE  FALSE
  <2>1. t = u
    BY <1>1 DEF DurableInv, HolderOwnsLock
  <2>2. pc'[t] # pc[t]
    BY <1>1 DEF DurableInv, TypeOK, AppendLine, CompactWrite, CompactRemove, TearAppend, Abandon
  <2> QED BY <2>1, <2>2
<1> QED
  BY <1>1, OnlyHolderWrites

\* A compaction still has the image of the files after a step.
LEMMA NextImage ==
    ASSUME DurableInv, [Next]_vars
    PROVE  ImageCurrent'
<1> SUFFICES ASSUME NEW u \in Threads, pc'[u] = "writing"
             PROVE  image'[u].r = Recoverable'
  BY DEF ImageCurrent
<1> USE DEF DurableInv, TypeOK
<1>1. CASE MovesInSave(u)
  <2>1. CompactLoad(u)
    BY <1>1 DEF MovesInSave, BeginSave, AcquireFlock, AppendLine, CompactWrite,
       CompactRemove, ReleaseFlock
  <2> QED BY <2>1 DEF CompactLoad, Load, Recoverable, files
<1>2. CASE pc'[u] = pc[u] /\ image'[u] = image[u]
  <2>1. UNCHANGED <<snapshot, wal, tornTail, glued>>
    BY <1>2, FilesHeldStill DEF LockHeld
  <2> QED BY <1>2, <2>1 DEF ImageCurrent, Recoverable
<1> QED
  BY <1>1, <1>2, OneThreadMoves

\* The snapshot still has everything before the log is removed.
LEMMA NextSnapshot ==
    ASSUME DurableInv, [Next]_vars
    PROVE  SnapshotComplete'
<1> SUFFICES ASSUME NEW u \in Threads, pc'[u] = "removing"
             PROVE  Recoverable' \subseteq snapshot'.r
  BY DEF SnapshotComplete
<1> USE DEF DurableInv, TypeOK
<1>1. CASE MovesInSave(u)
  <2>1. CompactWrite(u)
    BY <1>1 DEF MovesInSave, BeginSave, AcquireFlock, AppendLine, CompactLoad,
       CompactRemove, ReleaseFlock
  <2>2. snapshot' = image[u] /\ wal' = wal /\ image[u].r = Recoverable
    BY <2>1 DEF CompactWrite, ImageCurrent
  <2> QED BY <2>2 DEF Recoverable, ReplayReverse
<1>2. CASE pc'[u] = pc[u] /\ image'[u] = image[u]
  <2>1. UNCHANGED <<snapshot, wal, tornTail, glued>>
    BY <1>2, FilesHeldStill DEF LockHeld
  <2> QED BY <1>2, <2>1 DEF SnapshotComplete, Recoverable
<1> QED
  BY <1>1, <1>2, OneThreadMoves

\* A batch past its append is still on disk after a step.
LEMMA NextBatch ==
    ASSUME DurableInv, [Next]_vars
    PROVE  BatchOnDisk'
<1> SUFFICES ASSUME NEW u \in Threads, pc'[u] \in LineWritten
             PROVE  batch'[u].r \subseteq Recoverable' \cup glued'
  BY DEF BatchOnDisk
<1> USE DEF DurableInv, TypeOK
<1>1. ASSUME pc[u] \in LineWritten, batch'[u] = batch[u]
      PROVE  batch'[u].r \subseteq Recoverable' \cup glued'
  BY <1>1, NothingLost DEF BatchOnDisk
<1>2. CASE MovesInSave(u)
  <2>1. CASE BeginSave(u)
    <3>1. batch'[u].r = {}
      BY <2>1 DEF BeginSave, LineWritten
    <3> QED BY <3>1
  <2>2. CASE AcquireFlock(u)
    BY <2>2 DEF AcquireFlock, LineWritten
  <2>3. CASE AppendLine(u)
    <3>1. batch'[u] = batch[u] /\ batch[u] \in Batches
      BY <2>3 DEF AppendLine
    <3>2. wal' = Written(batch[u]) /\ snapshot' = snapshot
      BY <2>3 DEF AppendLine
    <3>3. tornTail => batch[u].r \subseteq glued'
      BY <2>3 DEF AppendLine
    <3> QED BY <3>1, <3>2, <3>3, WrittenRecoverable
  <2>4. CASE CompactLoad(u) \/ CompactWrite(u) \/ CompactRemove(u) \/ ReleaseFlock(u)
    <3>1. pc[u] \in LineWritten /\ batch'[u] = batch[u]
      BY <2>4 DEF CompactLoad, CompactWrite, CompactRemove, ReleaseFlock, LineWritten
    <3> QED BY <1>1, <3>1
  <2> QED BY <1>2, <2>1, <2>2, <2>3, <2>4 DEF MovesInSave
<1>3. CASE pc'[u] = pc[u] /\ batch'[u] = batch[u]
  BY <1>1, <1>3
<1> QED
  BY <1>2, <1>3, OneThreadMoves DEF LineWritten

\* The acknowledged tokens change only when a save is acknowledged.
LEMMA AckedMoves ==
    ASSUME [Next]_vars
    PROVE  acked' = acked \/ \E t \in Threads : AckSave(t)
<1>1. CASE UNCHANGED vars
  BY <1>1 DEF vars, history
<1>2. ASSUME NEW w \in Workers, LoadSnapshot(w) \/ LoadWal(w) \/ Crash(w)
      PROVE  acked' = acked
  BY <1>2 DEF LoadSnapshot, LoadWal, Crash, history
<1>3. ASSUME NEW t \in Threads, NEW v \in Values, NEW ty \in Types, Mint(t, v, ty)
      PROVE  acked' = acked
  BY <1>3 DEF Mint, history
<1>4. ASSUME NEW t \in Threads, SkipSave(t) \/ MovesInSave(t)
      PROVE  acked' = acked
  BY <1>4 DEF SkipSave, MovesInSave, BeginSave, AcquireFlock, AppendLine, CompactLoad,
     CompactWrite, CompactRemove, ReleaseFlock, history
<1>5. ASSUME NEW t \in Threads, FailAppend(t) \/ TearAppend(t) \/ FailCompact(t)
      PROVE  acked' = acked
  BY <1>5 DEF FailAppend, TearAppend, FailCompact, Abandon
<1> QED
  BY <1>1, <1>2, <1>3, <1>4, <1>5 DEF Next, MovesInSave

\* What is acknowledged is still on disk after a step.
LEMMA NextAcked ==
    ASSUME DurableInv, [Next]_vars
    PROVE  AckedSurvive'
<1>1. CASE acked' = acked
  BY <1>1, NothingLost DEF DurableInv, AckedSurvive
<1>2. ASSUME NEW t \in Threads, AckSave(t)
      PROVE  AckedSurvive'
  <2>1. acked' = acked \cup batch[t].r /\ pc[t] \in LineWritten
    BY <1>2 DEF AckSave, LineWritten
  <2> QED BY <2>1, NothingLost DEF DurableInv, AckedSurvive, BatchOnDisk
<1> QED
  BY <1>1, <1>2, AckedMoves

\* The invariant holds initially and every step preserves it.
LEMMA DurableInductive ==
    /\ Init => DurableInv
    /\ DurableInv /\ [Next]_vars => DurableInv'
<1>1. ASSUME Init
      PROVE  DurableInv
  BY <1>1, NoEntriesType, EmptySeq DEF Init, DurableInv, TypeOK, TornTailHasLine,
     HolderOwnsLock, ImageCurrent, SnapshotComplete, BatchOnDisk, AckedSurvive,
     LockHeld, LineWritten
<1>2. ASSUME DurableInv, [Next]_vars
      PROVE  DurableInv'
  <2>1. TypeOK' /\ TornTailHasLine'
    BY <1>2, NextType, NextTornTail DEF DurableInv
  <2> QED
    BY <1>2, <2>1, NextHolder, NextImage, NextSnapshot, NextBatch, NextAcked DEF DurableInv
<1> QED
  BY <1>1, <1>2

-----------------------------------------------------------------------------
(* A save() ends: what holds without fairness.                             *)

\* The lock is held from inside the locked region: it is not left behind by a
\* worker that died, a save that failed or one that ended.
HolderInside == flock # NoThread => pc[flock] \in LockHeld

\* A save under way has a step of its own to take, or waits for a lock that
\* is free or whose holder has one.
NoSaveStalls ==
    \A t \in Threads :
        pc[t] # "serving" =>
            \/ pc[t] \in LockHeld \cup {"acking"}
            \/ pc[t] = "locking" /\ (FlockFree \/ pc[flock] \in LockHeld)

\* The steps a save has before it at most.
StepsLeft(t) ==
    CASE pc[t] = "locking"   -> 7
      [] pc[t] = "appending" -> 6
      [] pc[t] = "loading"   -> 5
      [] pc[t] = "writing"   -> 4
      [] pc[t] = "removing"  -> 3
      [] pc[t] = "unlocking" -> 2
      [] pc[t] = "acking"    -> 1
      [] OTHER               -> 0

\* Each step of a save takes it nearer to its end, and nobody takes it back.
SavesAdvance ==
    \A t \in Threads :
        /\ SaveStep(t) \/ AcquireFlock(t) => StepsLeft(t)' < StepsLeft(t)
        /\ pc[t] # "serving" => StepsLeft(t)' < StepsLeft(t) \/ UNCHANGED pc[t]

\* Whoever takes the lock goes into the locked region, and whoever leaves the
\* region, by an error or a crash too, gives the lock back.
LEMMA NextInside ==
    ASSUME DurableInv, HolderInside, [Next]_vars
    PROVE  HolderInside'
<1> SUFFICES ASSUME flock' # NoThread
             PROVE  pc'[flock'] \in LockHeld
  BY DEF HolderInside
<1> USE NoThreadAssumption DEF DurableInv, TypeOK, HolderInside
<1>1. ASSUME UNCHANGED <<pc, flock>>
      PROVE  pc'[flock'] \in LockHeld
  BY <1>1
<1>2. CASE UNCHANGED vars
  BY <1>1, <1>2 DEF vars, thread
<1>3. ASSUME NEW w \in Workers, LoadSnapshot(w) \/ LoadWal(w)
      PROVE  pc'[flock'] \in LockHeld
  BY <1>1, <1>3 DEF LoadSnapshot, LoadWal, thread
<1>4. ASSUME NEW w \in Workers, Crash(w)
      PROVE  pc'[flock'] \in LockHeld
  <2>1. flock' = flock /\ flock \in Threads /\ Owner[flock] # w
    BY <1>4 DEF Crash, ThreadsOf
  <2> QED BY <1>4, <2>1 DEF Crash
<1>5. ASSUME NEW t \in Threads, NEW v \in Values, NEW ty \in Types, Mint(t, v, ty)
      PROVE  pc'[flock'] \in LockHeld
  BY <1>1, <1>5 DEF Mint
<1>6. ASSUME NEW t \in Threads, SkipSave(t)
      PROVE  pc'[flock'] \in LockHeld
  BY <1>1, <1>6 DEF SkipSave
<1>7. ASSUME NEW t \in Threads, BeginSave(t) \/ AckSave(t)
      PROVE  pc'[flock'] \in LockHeld
  <2>1. pc[t] \notin LockHeld /\ flock' = flock
    BY <1>7 DEF BeginSave, AckSave, LockHeld
  <2>2. \A u \in Threads \ {t} : pc'[u] = pc[u]
    BY <1>7 DEF BeginSave, AckSave
  <2> QED BY <2>1, <2>2
<1>8. ASSUME NEW t \in Threads, AcquireFlock(t)
      PROVE  pc'[flock'] \in LockHeld
  BY <1>8 DEF AcquireFlock, LockHeld
<1>9. ASSUME NEW t \in Threads,
             AppendLine(t) \/ CompactLoad(t) \/ CompactWrite(t) \/ CompactRemove(t)
      PROVE  pc'[flock'] \in LockHeld
  <2>1. pc'[t] \in LockHeld /\ flock' = flock
    BY <1>9 DEF AppendLine, CompactLoad, CompactWrite, CompactRemove, LockHeld
  <2>2. \A u \in Threads \ {t} : pc'[u] = pc[u]
    BY <1>9 DEF AppendLine, CompactLoad, CompactWrite, CompactRemove
  <2> QED BY <2>1, <2>2
<1>10. ASSUME NEW t \in Threads,
              ReleaseFlock(t) \/ FailAppend(t) \/ TearAppend(t) \/ FailCompact(t)
       PROVE  pc'[flock'] \in LockHeld
  BY <1>10 DEF ReleaseFlock, FailAppend, TearAppend, FailCompact, Abandon
<1> QED
  BY <1>2, <1>3, <1>4, <1>5, <1>6, <1>7, <1>8, <1>9, <1>10 DEF Next

\* A save goes through its places in one order.
LEMMA NextSaves ==
    ASSUME TypeOK, [Next]_vars
    PROVE  SavesAdvance
<1> SUFFICES ASSUME NEW t \in Threads
             PROVE  /\ SaveStep(t) \/ AcquireFlock(t) => StepsLeft(t)' < StepsLeft(t)
                    /\ pc[t] # "serving" => StepsLeft(t)' < StepsLeft(t) \/ UNCHANGED pc[t]
  BY DEF SavesAdvance
<1>1. SaveStep(t) \/ AcquireFlock(t) => StepsLeft(t)' < StepsLeft(t)
  BY DEF TypeOK, SaveStep, AcquireFlock, AppendLine, CompactLoad, CompactWrite, CompactRemove,
         ReleaseFlock, AckSave, StepsLeft
<1>2. pc[t] # "serving" /\ pc'[t] = "serving" => StepsLeft(t)' < StepsLeft(t)
  BY DEF TypeOK, StepsLeft
<1>3. pc[t] # "serving" => ~BeginSave(t)
  BY DEF BeginSave
<1> QED
  BY <1>1, <1>2, <1>3, OneThreadMoves DEF MovesInSave, SaveStep

LEMMA PlacesHaveSteps ==
    ASSUME DurableInv, HolderInside
    PROVE  NoSaveStalls
  BY DEF DurableInv, TypeOK, HolderInside, NoSaveStalls, LockHeld, FlockFree

-----------------------------------------------------------------------------
(* The theorems.                                                           *)

\* A token whose save was acknowledged is recoverable from the files in every
\* reachable state, whatever the crashes, restarts, failed writes and
\* compactions, unless its line was joined with a torn one.
THEOREM AckedTokensSurvive == Spec => []AckedSurvive
<1>1. DurableInv => AckedSurvive
  BY DEF DurableInv
<1> QED
  BY <1>1, DurableInductive, PTL DEF Spec

\* No step of any worker takes a recoverable token from the files, except by
\* writing behind a torn line.
THEOREM RecoverableStays == Spec => RecoverableForever
<1>1. DurableInv /\ [Next]_vars => [Recoverable \ glued' \subseteq Recoverable']_vars
  BY NothingLost
<1> QED
  BY <1>1, DurableInductive, PTL DEF Spec, RecoverableForever

\* The store implements the promise of TokenLedger: a token is on disk before
\* its save is acknowledged, stays there, and only writing behind a torn line
\* damages it.
THEOREM StoreImplementsLedger == Spec => ImplementsLedger
<1>1. Init => Ledger!Init
  BY DEF Init, Ledger!Init, Recoverable, ReplayReverse, NoEntries
<1>2. DurableInv /\ [Next]_vars => [Ledger!Next]_(Ledger!vars)
  <2> SUFFICES ASSUME DurableInv, [Next]_vars
               PROVE  Ledger!Next \/ UNCHANGED <<Recoverable, acked, glued>>
    BY DEF Ledger!vars
  <2>1. Recoverable \in SUBSET Tokens
    BY ReplayReverseType DEF DurableInv, TypeOK, Recoverable, Batches
  <2>2. CASE UNCHANGED <<snapshot, wal, tornTail, glued>>
    <3>1. UNCHANGED <<Recoverable, glued>>
      BY <2>2 DEF Recoverable
    <3>2. ASSUME NEW t \in Threads, AckSave(t)
          PROVE  Ledger!Promise(batch[t].r) /\ batch[t].r \in SUBSET Tokens
      <4>1. batch[t].r \subseteq Recoverable \cup glued
        BY <3>2 DEF DurableInv, BatchOnDisk, AckSave, LineWritten
      <4>2. batch[t].r \in SUBSET Tokens
        BY DEF DurableInv, TypeOK, Batches
      <4>3. acked' = acked \cup batch[t].r
        BY <3>2 DEF AckSave
      <4> QED BY <3>1, <4>1, <4>2, <4>3 DEF Ledger!Promise
    <3> QED BY <3>1, <3>2, AckedMoves DEF Ledger!Next
  <2>3. ASSUME NEW t \in Threads, NEW b \in Batches, acked' = acked,
               wal' = Written(b), snapshot' = snapshot,
               tornTail => glued' = glued \cup b.r \cup wal[Len(wal)].r,
               ~tornTail => glued' = glued
        PROVE  Ledger!Next
    <3>1. b.r \in SUBSET Tokens
      BY DEF Batches
    <3>2. CASE tornTail
      <4> DEFINE S == b.r \cup wal[Len(wal)].r
      <4>1. S \in SUBSET Tokens
        BY <3>1, <3>2, TornTailRecord DEF DurableInv
      <4>2. Ledger!Damage(S)
        BY <2>3, <3>2, WrittenRecoverable DEF DurableInv, Ledger!Damage
      <4> QED BY <4>1, <4>2 DEF Ledger!Next
    <3>3. CASE ~tornTail
      <4>1. Ledger!Record(b.r)
        BY <2>3, <3>3, WrittenRecoverable DEF DurableInv, Ledger!Record
      <4> QED BY <3>1, <4>1 DEF Ledger!Next
    <3> QED BY <3>2, <3>3
  <2>4. ASSUME NEW t \in Threads, AppendLine(t)
        PROVE  Ledger!Next
    <3>1. batch[t] \in Batches
      BY DEF DurableInv, TypeOK
    <3> QED BY <2>3, <2>4, <3>1 DEF AppendLine
  <2>5. ASSUME NEW t \in Threads, TearAppend(t)
        PROVE  Ledger!Next
    <3>1. PICK b \in {NoEntries, batch[t]} : wal' = Written(b)
      BY <2>5 DEF TearAppend
    <3>2. b \in Batches /\ acked' = acked /\ snapshot' = snapshot
      BY <2>5, NoEntriesType DEF DurableInv, TypeOK, TearAppend, Abandon
    <3>3. CASE tornTail
      <4>1. wal' = Written(NoEntries)
        BY <3>1, <3>3 DEF Written
      <4>2. glued' = glued \cup NoEntries.r \cup wal[Len(wal)].r
        BY <2>5, <3>3 DEF TearAppend, NoEntries
      <4> QED BY <2>3, <3>2, <3>3, <4>1, <4>2, NoEntriesType
    <3>4. CASE ~tornTail
      <4>1. glued' = glued
        BY <2>5, <3>4 DEF TearAppend
      <4> QED BY <2>3, <3>1, <3>2, <3>4, <4>1
    <3> QED BY <3>3, <3>4
  <2>6. ASSUME NEW t \in Threads, CompactWrite(t)
        PROVE  UNCHANGED <<Recoverable, acked, glued>>
    <3>1. /\ snapshot' = image[t] /\ wal' = wal /\ image[t].r = Recoverable
          /\ acked' = acked /\ glued' = glued
      BY <2>6 DEF CompactWrite, DurableInv, ImageCurrent, history
    <3> QED BY <3>1 DEF Recoverable, ReplayReverse
  <2>7. ASSUME NEW t \in Threads, CompactRemove(t)
        PROVE  UNCHANGED <<Recoverable, acked, glued>>
    <3>1. /\ snapshot' = snapshot /\ wal' = <<>> /\ Recoverable \subseteq snapshot.r
          /\ acked' = acked /\ glued' = glued
      BY <2>7 DEF CompactRemove, DurableInv, SnapshotComplete, history
    <3> QED BY <3>1 DEF Recoverable, ReplayReverse
  <2> QED
    BY <2>2, <2>4, <2>5, <2>6, <2>7, OnlyHolderWrites
<1> QED
  BY <1>1, <1>2, DurableInductive, PTL DEF Spec, ImplementsLedger, Ledger!Spec

\* No save() waits for a lock that nobody will give back: it is free, or its
\* holder is alive inside the locked region, whatever crashed or failed
\* (_FlockContext, anonymize.py:56-88).
THEOREM NoSaveStallsAlways == Spec => []NoSaveStalls
<1>1. Init => HolderInside
  BY DEF Init, HolderInside
<1>2. DurableInv /\ HolderInside /\ [Next]_vars => HolderInside'
  BY NextInside
<1>3. DurableInv /\ HolderInside => NoSaveStalls
  BY PlacesHaveSteps
<1> QED
  BY <1>1, <1>2, <1>3, DurableInductive, PTL DEF Spec

\* A save() ends after seven steps of its own at most, and no step of another
\* thread takes it back: with fairness, and NoSaveStalls, SaveEnds.
THEOREM SavesAdvanceAlways == Spec => [][SavesAdvance]_vars
<1>1. DurableInv /\ [Next]_vars => SavesAdvance
  BY NextSaves DEF DurableInv
<1> QED
  BY <1>1, DurableInductive, PTL DEF Spec

=============================================================================
