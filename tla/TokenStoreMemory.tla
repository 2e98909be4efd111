---------------------------- MODULE TokenStoreMemory ----------------------------
(***************************************************************************)
(* What a worker of TokenStore remembers and what it has still to save:    *)
(* a token it answers with again without minting it is in the files or     *)
(* among its pending entries.  The hard step is the end of a save, which   *)
(* takes the entries of one batch out of the pending ones while another    *)
(* thread of the worker may have added to them.                            *)
(***************************************************************************)
EXTENDS TokenStoreProofs, FiniteSetTheorems

\* A batch resolves every token it maps a value to.
Filed(b) == \A v \in DOMAIN b.f : b.f[v] \in b.r

\* A batch resolves these tokens only, and a token tells its value.
Exact(b) ==
    /\ Filed(b)
    /\ \A v \in DOMAIN b.f : b.f[v][1] = v
    /\ \A token \in b.r : token[1] \in DOMAIN b.f /\ b.f[token[1]] = token

\* A batch maps its values as dictionary d does.
PartOf(b, d) ==
    \A v \in DOMAIN b.f : v \in DOMAIN d /\ d[v] = b.f[v]

Blank(b) == DOMAIN b.f = {} /\ b.r = {}

\* What a worker loads maps values to tokens that it resolves too.
FilesFiled ==
    /\ Filed(snapshot)
    /\ \A i \in DOMAIN wal : Filed(wal[i])
    /\ \A t \in Threads : Filed(image[t])

\* The pending entries and the batches of a worker are exact, and both are
\* part of its dictionary: they agree with each other.
PendingExact ==
    \A w \in Workers : Exact(pending[w]) /\ PartOf(pending[w], forward[w])
BatchExact ==
    \A t \in Threads : Exact(batch[t]) /\ PartOf(batch[t], forward[Owner[t]])

\* A worker that has not finished its start has nothing to save.
OnlyUpPends ==
    \A w \in Workers :
        up[w] # "up" =>
            /\ Blank(pending[w])
            /\ \A t \in Threads : Owner[t] = w => Blank(batch[t])

MemoryInv ==
    /\ FilesFiled
    /\ PendingExact
    /\ BatchExact
    /\ OnlyUpPends
    /\ NothingForgotten

-----------------------------------------------------------------------------
(* Batches and the log.                                                    *)

\* The empty batch is exact and part of everything.
LEMMA NoEntriesExact ==
    ASSUME NEW d
    PROVE  Exact(NoEntries) /\ PartOf(NoEntries, d) /\ Blank(NoEntries) /\ Filed(NoEntries)
BY DEF NoEntries, EmptyDict, Exact, Filed, PartOf, Blank

\* Replaying a filed log on a dictionary maps a value as the dictionary did
\* or to a token of the log.
LEMMA ReplayedToken ==
    ASSUME NEW base, NEW lines \in Seq(Batches),
           \A i \in DOMAIN lines : Filed(lines[i]),
           NEW v \in DOMAIN ReplayForward(base, lines)
    PROVE  \/ v \in DOMAIN base /\ ReplayForward(base, lines)[v] = base[v]
           \/ ReplayForward(base, lines)[v] \in UNION {lines[i].r : i \in DOMAIN lines}
<1>1. CASE LinesWith(lines, v) = {}
  BY <1>1 DEF ReplayForward, LinesWith
<1>2. CASE LinesWith(lines, v) # {}
  <2> DEFINE i == LastLineWith(lines, v)
  <2>1. i \in DOMAIN lines /\ v \in DOMAIN lines[i].f
    BY <1>2, LastLineWithLine DEF LinesWith
  <2>2. ReplayForward(base, lines)[v] = lines[i].f[v]
    BY <1>2 DEF ReplayForward
  <2>3. lines[i].f[v] \in lines[i].r
    BY <2>1 DEF Filed
  <2> HIDE DEF i
  <2> QED BY <2>1, <2>2, <2>3
<1> QED
  BY <1>1, <1>2

\* load() of filed files is filed.
LEMMA LoadFiled ==
    ASSUME NEW snap, NEW lines \in Seq(Batches),
           Filed(snap), \A i \in DOMAIN lines : Filed(lines[i])
    PROVE  Filed(Load(snap, lines))
<1>1. ASSUME NEW v \in DOMAIN ReplayForward(snap.f, lines)
      PROVE  ReplayForward(snap.f, lines)[v] \in ReplayReverse(snap.r, lines)
  BY <1>1, ReplayedToken DEF Filed, ReplayReverse
<1> QED
  BY <1>1 DEF Load, Filed

\* The log stays filed when a filed batch is written.
LEMMA WrittenFiled ==
    ASSUME wal \in Seq(Batches), \A i \in DOMAIN wal : Filed(wal[i]),
           NEW b \in Batches, Filed(b)
    PROVE  \A i \in DOMAIN Written(b) : Filed(Written(b)[i])
<1>1. CASE tornTail
  <2>1. ASSUME NEW i \in DOMAIN wal
        PROVE  Filed([wal EXCEPT ![Len(wal)] = NoEntries][i])
    BY NoEntriesExact
  <2> QED BY <1>1, <2>1 DEF Written
<1>2. CASE ~tornTail
  <2>1. ASSUME NEW i \in 1..(Len(wal) + 1)
        PROVE  Filed(Append(wal, b)[i])
    <3>1. CASE i = Len(wal) + 1
      BY <3>1
    <3>2. CASE i # Len(wal) + 1
      <4>1. i \in DOMAIN wal /\ Append(wal, b)[i] = wal[i]
        BY <3>2
      <4> QED BY <4>1
    <3> QED BY <3>1, <3>2
  <2> QED BY <1>2, <2>1 DEF Written
<1> QED
  BY <1>1, <1>2

\* Taking out of the pending entries a batch that agrees with them leaves
\* exact entries: no token stays without its value, no value without its
\* token.
LEMMA StillPendingExact ==
    ASSUME NEW b, NEW saved, NEW d,
           Exact(b), PartOf(b, d), Exact(saved), PartOf(saved, d)
    PROVE  Exact(StillPending(b, saved)) /\ PartOf(StillPending(b, saved), d)
<1> DEFINE left == StillPending(b, saved)
<1>1. /\ DOMAIN left.f = DOMAIN b.f \ DOMAIN saved.f
      /\ \A v \in DOMAIN left.f : left.f[v] = b.f[v]
      /\ left.r = b.r \ saved.r
  BY DEF StillPending
<1> HIDE DEF left
<1>2. ASSUME NEW v \in DOMAIN left.f
      PROVE  left.f[v] \in left.r /\ left.f[v][1] = v
  <2>1. b.f[v] \in b.r /\ b.f[v][1] = v
    BY <1>1 DEF Exact, Filed
  <2>2. b.f[v] \notin saved.r
    BY <1>1, <2>1 DEF Exact
  <2> QED BY <1>1, <2>1, <2>2
<1>3. ASSUME NEW token \in left.r
      PROVE  token[1] \in DOMAIN left.f /\ left.f[token[1]] = token
  <2>1. token[1] \in DOMAIN b.f /\ b.f[token[1]] = token
    BY <1>1 DEF Exact
  <2>2. token[1] \notin DOMAIN saved.f
    <3>1. SUFFICES ASSUME token[1] \in DOMAIN saved.f
                   PROVE  FALSE
      OBVIOUS
    <3>2. saved.f[token[1]] = token
      BY <2>1, <3>1 DEF PartOf
    <3>3. token \in saved.r
      BY <3>1, <3>2 DEF Exact, Filed
    <3> QED BY <1>1, <3>3
  <2> QED BY <1>1, <2>1, <2>2
<1>4. PartOf(left, d)
  BY <1>1 DEF PartOf
<1> QED
  BY <1>2, <1>3, <1>4 DEF Exact, Filed, left

-----------------------------------------------------------------------------
(* The files stay filed.                                                   *)

\* Whatever is written to the log or the snapshot is filed.
LEMMA NextFiled ==
    ASSUME TypeOK, MemoryInv, [Next]_vars
    PROVE  FilesFiled'
<1> USE DEF MemoryInv
<1>1. ASSUME UNCHANGED <<snapshot, wal, image>>
      PROVE  FilesFiled'
  BY <1>1 DEF FilesFiled
<1>2. CASE UNCHANGED vars
  BY <1>1, <1>2 DEF vars, files, thread
<1>3. ASSUME NEW w \in Workers, LoadSnapshot(w) \/ LoadWal(w)
      PROVE  FilesFiled'
  BY <1>1, <1>3 DEF LoadSnapshot, LoadWal, files, thread
<1>4. ASSUME NEW w \in Workers, Crash(w)
      PROVE  FilesFiled'
  <2>1. snapshot' = snapshot /\ wal' = wal
    BY <1>4 DEF Crash, files
  <2>2. \A t \in Threads : image'[t] = NoEntries \/ image'[t] = image[t]
    BY <1>4 DEF Crash
  <2> QED BY <2>1, <2>2, NoEntriesExact DEF FilesFiled
<1>5. ASSUME NEW t \in Threads, NEW v \in Values, NEW ty \in Types, Mint(t, v, ty)
      PROVE  FilesFiled'
  BY <1>1, <1>5 DEF Mint, files
<1>6. ASSUME NEW t \in Threads,
             SkipSave(t) \/ BeginSave(t) \/ AcquireFlock(t) \/ ReleaseFlock(t) \/ AckSave(t)
      PROVE  FilesFiled'
  BY <1>1, <1>6 DEF SkipSave, BeginSave, AcquireFlock, ReleaseFlock, AckSave, files
<1>7. ASSUME NEW b \in Batches, Filed(b), wal' = Written(b), snapshot' = snapshot,
             \A t \in Threads : image'[t] = NoEntries \/ image'[t] = image[t]
      PROVE  FilesFiled'
  <2>1. \A i \in DOMAIN wal' : Filed(wal'[i])
    BY <1>7, WrittenFiled DEF TypeOK, FilesFiled
  <2> QED BY <1>7, <2>1, NoEntriesExact DEF FilesFiled
<1>8. ASSUME NEW t \in Threads, AppendLine(t)
      PROVE  FilesFiled'
  <2>1. batch[t] \in Batches /\ Filed(batch[t])
    BY DEF TypeOK, BatchExact, Exact
  <2> QED BY <1>7, <1>8, <2>1 DEF AppendLine
<1>9. ASSUME NEW t \in Threads, TearAppend(t)
      PROVE  FilesFiled'
  <2>1. PICK b \in {NoEntries, batch[t]} : wal' = Written(b)
    BY <1>9 DEF TearAppend
  <2>2. batch[t] \in Batches /\ Filed(batch[t])
    BY DEF TypeOK, BatchExact, Exact
  <2>4. b \in Batches /\ Filed(b)
    BY <2>2, NoEntriesType, NoEntriesExact
  <2>3. snapshot' = snapshot /\ \A u \in Threads : image'[u] = NoEntries \/ image'[u] = image[u]
    BY <1>9 DEF TearAppend, Abandon, TypeOK
  <2> QED BY <1>7, <2>1, <2>3, <2>4
<1>10. ASSUME NEW t \in Threads, FailAppend(t) \/ FailCompact(t)
       PROVE  FilesFiled'
  <2>1. snapshot' = snapshot /\ wal' = wal
    BY <1>10 DEF FailAppend, FailCompact, Abandon
  <2>2. \A u \in Threads : image'[u] = NoEntries \/ image'[u] = image[u]
    BY <1>10 DEF FailAppend, FailCompact, Abandon, TypeOK
  <2> QED BY <2>1, <2>2, NoEntriesExact DEF FilesFiled
<1>11. ASSUME NEW t \in Threads, CompactLoad(t)
       PROVE  FilesFiled'
  <2>1. Filed(Load(snapshot, wal))
    BY LoadFiled DEF TypeOK, FilesFiled
  <2>2. \A u \in Threads : image'[u] = Load(snapshot, wal) \/ image'[u] = image[u]
    BY <1>11 DEF CompactLoad, TypeOK
  <2>3. snapshot' = snapshot /\ wal' = wal
    BY <1>11 DEF CompactLoad, files
  <2> QED BY <2>1, <2>2, <2>3 DEF FilesFiled
<1>12. ASSUME NEW t \in Threads, CompactWrite(t)
       PROVE  FilesFiled'
  <2>1. snapshot' = image[t] /\ wal' = wal
    BY <1>12 DEF CompactWrite
  <2>2. \A u \in Threads : image'[u] = NoEntries \/ image'[u] = image[u]
    BY <1>12 DEF CompactWrite, TypeOK
  <2> QED BY <2>1, <2>2, NoEntriesExact DEF FilesFiled
<1>13. ASSUME NEW t \in Threads, CompactRemove(t)
       PROVE  FilesFiled'
  <2>1. snapshot' = snapshot /\ wal' = <<>> /\ image' = image
    BY <1>13 DEF CompactRemove
  <2> QED BY <2>1 DEF FilesFiled
<1> QED
  BY <1>2, <1>3, <1>4, <1>5, <1>6, <1>8, <1>9, <1>10, <1>11, <1>12, <1>13 DEF Next

-----------------------------------------------------------------------------
(* Pending entries and batches stay part of what the worker knows.         *)

\* A fresh token joins the dictionary and the pending entries together.
LEMMA MintedExact ==
    ASSUME NEW b, NEW d, NEW v, v \notin DOMAIN d, NEW token, token[1] = v,
           NEW new, DOMAIN new = {v}, new[v] = token,
           Exact(b), PartOf(b, d)
    PROVE  LET minted == [f |-> Updated(b.f, new), r |-> b.r \cup {token}]
           IN  Exact(minted) /\ PartOf(minted, Updated(d, new))
<1> DEFINE minted == [f |-> Updated(b.f, new), r |-> b.r \cup {token}]
<1>1. /\ DOMAIN minted.f = DOMAIN b.f \cup {v}
      /\ \A x \in DOMAIN b.f : x # v => minted.f[x] = b.f[x]
      /\ minted.f[v] = token
      /\ minted.r = b.r \cup {token}
  BY DEF Updated
<1>2. /\ DOMAIN Updated(d, new) = DOMAIN d \cup {v}
      /\ \A x \in DOMAIN d : x # v => Updated(d, new)[x] = d[x]
      /\ Updated(d, new)[v] = token
  BY DEF Updated
<1>3. v \notin DOMAIN b.f
  BY DEF PartOf
<1> HIDE DEF minted
<1>4. Exact(minted)
  BY <1>1, <1>3 DEF Exact, Filed
<1>5. PartOf(minted, Updated(d, new))
  BY <1>1, <1>2, <1>3 DEF PartOf
<1> QED
  BY <1>4, <1>5 DEF minted

\* What is part of a dictionary stays part of it when an entry is added.
LEMMA PartOfMinted ==
    ASSUME NEW b, NEW d, NEW v, v \notin DOMAIN d,
           NEW new, DOMAIN new = {v}, PartOf(b, d)
    PROVE  PartOf(b, Updated(d, new))
BY DEF PartOf, Updated

\* The three conjuncts about pending entries and batches, for one worker.
WorkerExact(w) ==
    /\ Exact(pending[w])
    /\ PartOf(pending[w], forward[w])
    /\ \A t \in Threads : Owner[t] = w => Exact(batch[t]) /\ PartOf(batch[t], forward[w])
    /\ up[w] # "up" =>
         /\ Blank(pending[w])
         /\ \A t \in Threads : Owner[t] = w => Blank(batch[t])

LEMMA ExactByWorker ==
    (PendingExact /\ BatchExact /\ OnlyUpPends) <=> \A w \in Workers : WorkerExact(w)
BY OwnerAssumption DEF PendingExact, BatchExact, OnlyUpPends, WorkerExact

\* A blank batch is part of every dictionary.
LEMMA BlankPartOf ==
    ASSUME NEW b, NEW d, Blank(b)
    PROVE  PartOf(b, d)
BY DEF Blank, PartOf

\* The entries a worker has still to save stay exact.
LEMMA NextExact ==
    ASSUME TypeOK, MemoryInv, [Next]_vars
    PROVE  PendingExact' /\ BatchExact' /\ OnlyUpPends'
<1> SUFFICES ASSUME NEW w \in Workers
             PROVE  WorkerExact(w)'
  BY ExactByWorker, OwnerAssumption DEF PendingExact, BatchExact, OnlyUpPends, WorkerExact
<1>0. WorkerExact(w)
  BY ExactByWorker DEF MemoryInv
<1> USE DEF TypeOK
<1>1. ASSUME up'[w] = up[w], pending'[w] = pending[w], forward'[w] = forward[w],
             \A t \in Threads : batch'[t] = batch[t] \/ batch'[t] = NoEntries
      PROVE  WorkerExact(w)'
  BY <1>0, <1>1, NoEntriesExact DEF WorkerExact
<1>2. CASE UNCHANGED vars
  BY <1>1, <1>2 DEF vars, store, thread
<1>3. ASSUME NEW x \in Workers, LoadSnapshot(x) \/ LoadWal(x)
      PROVE  WorkerExact(w)'
  <2>1. CASE x = w
    <3>1. up[w] # "up" /\ pending' = pending /\ batch' = batch
      BY <1>3, <2>1 DEF LoadSnapshot, LoadWal, thread
    <3>2. /\ Blank(pending[w])
          /\ \A t \in Threads : Owner[t] = w => Blank(batch[t])
      BY <1>0, <3>1 DEF WorkerExact
    <3> QED BY <1>0, <3>1, <3>2, BlankPartOf DEF WorkerExact
  <2>2. CASE x # w
    BY <1>1, <1>3, <2>2 DEF LoadSnapshot, LoadWal, thread
  <2> QED BY <2>1, <2>2
<1>4. ASSUME NEW x \in Workers, Crash(x)
      PROVE  WorkerExact(w)'
  <2>1. \A t \in Threads : batch'[t] = IF Owner[t] = x THEN NoEntries ELSE batch[t]
    BY <1>4 DEF Crash
  <2>2. CASE x = w
    <3>1. pending'[w] = NoEntries
      BY <1>4, <2>2 DEF Crash
    <3> QED BY <2>1, <2>2, <3>1, NoEntriesExact DEF WorkerExact
  <2>3. CASE x # w
    <3>1. up'[w] = up[w] /\ pending'[w] = pending[w] /\ forward'[w] = forward[w]
      BY <1>4, <2>3 DEF Crash
    <3> QED BY <1>1, <2>1, <3>1
  <2> QED BY <2>2, <2>3
<1>5. ASSUME NEW t \in Threads, NEW v \in Values, NEW ty \in Types, Mint(t, v, ty)
      PROVE  WorkerExact(w)'
  <2> DEFINE x == Owner[t]
             token == <<v, ty>>
             new == [y \in {v} |-> token]
  <2>0. token[1] = v /\ DOMAIN new = {v} /\ new[v] = token
    OBVIOUS
  <2>1. up' = up /\ batch' = batch
    BY <1>5 DEF Mint
  <2>2. CASE v \in DOMAIN forward[x]
    BY <1>1, <1>5, <2>1, <2>2 DEF Mint
  <2>3. CASE v \notin DOMAIN forward[x]
    <3>1. TokenFor(x, v, ty) = token
      BY <2>3 DEF TokenFor
    <3>2. /\ forward' = [forward EXCEPT ![x] = Updated(forward[x], new)]
          /\ pending' = [pending EXCEPT ![x] =
                 [f |-> Updated(pending[x].f, new), r |-> pending[x].r \cup {token}]]
          /\ up[x] = "up"
      BY <1>5, <2>3, <3>1 DEF Mint
    <3>3. CASE x = w
      <4>1. /\ forward'[w] = Updated(forward[w], new)
            /\ pending'[w] = [f |-> Updated(pending[w].f, new),
                              r |-> pending[w].r \cup {token}]
        BY <3>2, <3>3
      <4>2. Exact(pending'[w]) /\ PartOf(pending'[w], forward'[w])
        <5>1. /\ v \notin DOMAIN forward[w]
              /\ Exact(pending[w]) /\ PartOf(pending[w], forward[w])
          BY <1>0, <2>3, <3>3 DEF WorkerExact
        <5>2. LET minted == [f |-> Updated(pending[w].f, new),
                             r |-> pending[w].r \cup {token}]
              IN  Exact(minted) /\ PartOf(minted, Updated(forward[w], new))
          <6> HIDE DEF new, token
          <6> QED BY <2>0, <5>1, MintedExact
        <5> HIDE DEF new, token
        <5> QED BY <4>1, <5>2
      <4>3. \A u \in Threads : Owner[u] = w => PartOf(batch[u], forward'[w])
        <5>1. v \notin DOMAIN forward[w]
          BY <2>3, <3>3
        <5>2. ASSUME NEW u \in Threads, Owner[u] = w
              PROVE  PartOf(batch[u], Updated(forward[w], new))
          <6>1. PartOf(batch[u], forward[w])
            BY <1>0, <5>2 DEF WorkerExact
          <6> HIDE DEF new, token
          <6> QED BY <2>0, <5>1, <6>1, PartOfMinted
        <5> HIDE DEF new
        <5> QED BY <4>1, <5>2
      <4> QED BY <1>0, <2>1, <3>2, <3>3, <4>2, <4>3 DEF WorkerExact
    <3>4. CASE x # w
      <4>1. pending'[w] = pending[w] /\ forward'[w] = forward[w]
        BY <3>2, <3>4
      <4> QED BY <1>1, <2>1, <4>1
    <3> QED BY <3>3, <3>4
  <2> QED BY <2>2, <2>3
<1>6. ASSUME NEW t \in Threads, BeginSave(t)
      PROVE  WorkerExact(w)'
  <2>1. /\ up' = up /\ pending' = pending /\ forward' = forward
        /\ batch' = [batch EXCEPT ![t] = pending[Owner[t]]]
        /\ up[Owner[t]] = "up"
    BY <1>6 DEF BeginSave
  <2>2. \A u \in Threads : Owner[u] = w => batch'[u] \in {batch[u], pending[w]}
    BY <2>1
  <2>3. up[w] # "up" => \A u \in Threads : Owner[u] = w => batch'[u] = batch[u]
    BY <2>1
  <2> QED BY <1>0, <2>1, <2>2, <2>3 DEF WorkerExact
<1>7. ASSUME NEW t \in Threads, AckSave(t)
      PROVE  WorkerExact(w)'
  <2>1. /\ up' = up /\ forward' = forward
        /\ pending' = [pending EXCEPT ![Owner[t]] = StillPending(@, batch[t])]
        /\ \A u \in Threads : batch'[u] = batch[u] \/ batch'[u] = NoEntries
    BY <1>7 DEF AckSave
  <2>2. CASE Owner[t] = w
    <3>1. pending'[w] = StillPending(pending[w], batch[t])
      BY <2>1, <2>2
    <3>2. Exact(pending'[w]) /\ PartOf(pending'[w], forward'[w])
      BY <1>0, <2>1, <2>2, <3>1, StillPendingExact DEF WorkerExact
    <3>3. Blank(pending[w]) => Blank(pending'[w])
      BY <3>1 DEF StillPending, Blank
    <3> QED BY <1>0, <2>1, <3>2, <3>3, NoEntriesExact DEF WorkerExact
  <2>3. CASE Owner[t] # w
    BY <1>1, <2>1, <2>3
  <2> QED BY <2>2, <2>3
<1>8. ASSUME NEW t \in Threads,
             \/ SkipSave(t) \/ AcquireFlock(t) \/ AppendLine(t) \/ CompactLoad(t)
             \/ CompactWrite(t) \/ CompactRemove(t) \/ ReleaseFlock(t)
      PROVE  WorkerExact(w)'
  BY <1>1, <1>8 DEF SkipSave, AcquireFlock, AppendLine, CompactLoad, CompactWrite,
     CompactRemove, ReleaseFlock, store
<1>9. ASSUME NEW t \in Threads, FailAppend(t) \/ TearAppend(t) \/ FailCompact(t)
      PROVE  WorkerExact(w)'
  BY <1>1, <1>9 DEF FailAppend, TearAppend, FailCompact, Abandon, store
<1> QED
  BY <1>2, <1>3, <1>4, <1>5, <1>6, <1>7, <1>8, <1>9 DEF Next

-----------------------------------------------------------------------------
(* Nothing is forgotten.                                                   *)

\* A token that is on disk or pending stays so while the pending entries of
\* the worker only grow.
LEMMA StaysRemembered ==
    ASSUME DurableInv, [Next]_vars, NEW w \in Workers, NEW token,
           token \in Recoverable \cup pending[w].r \cup glued,
           pending[w].r \subseteq pending'[w].r
    PROVE  token \in Recoverable' \cup pending'[w].r \cup glued'
BY NothingLost

\* Every token of a worker's dictionary is still on disk or pending after a
\* step.
LEMMA NextRemembered ==
    ASSUME DurableInv, MemoryInv, [Next]_vars
    PROVE  NothingForgotten'
<1> SUFFICES ASSUME NEW w \in Workers, NEW v \in DOMAIN forward'[w]
             PROVE  forward'[w][v] \in Recoverable' \cup pending'[w].r \cup glued'
  BY DEF NothingForgotten
<1> DEFINE Kept == forward'[w][v] \in Recoverable' \cup pending'[w].r \cup glued'
<1> USE DEF DurableInv, TypeOK, MemoryInv
<1>0. \A x \in DOMAIN forward[w] : forward[w][x] \in Recoverable \cup pending[w].r \cup glued
  BY DEF NothingForgotten
<1>1. ASSUME forward'[w] = forward[w], pending'[w] = pending[w]
      PROVE  Kept
  BY <1>0, <1>1, StaysRemembered
<1>2. CASE UNCHANGED vars
  BY <1>1, <1>2 DEF vars, store
<1>3. ASSUME NEW x \in Workers, LoadSnapshot(x)
      PROVE  Kept
  <2>1. CASE x = w
    <3>1. forward'[w] = snapshot.f /\ snapshot' = snapshot /\ wal' = wal
      BY <1>3, <2>1 DEF LoadSnapshot, files
    <3>2. snapshot.f[v] \in snapshot.r
      BY <3>1 DEF FilesFiled, Filed
    <3> QED BY <3>1, <3>2 DEF Recoverable, ReplayReverse
  <2>2. CASE x # w
    BY <1>1, <1>3, <2>2 DEF LoadSnapshot
  <2> QED BY <2>1, <2>2
<1>4. ASSUME NEW x \in Workers, LoadWal(x)
      PROVE  Kept
  <2>1. CASE x = w
    <3>1. /\ forward'[w] = ReplayForward(forward[w], wal)
          /\ snapshot' = snapshot /\ wal' = wal /\ pending' = pending
      BY <1>4, <2>1 DEF LoadWal, files
    <3>2. \/ v \in DOMAIN forward[w] /\ forward'[w][v] = forward[w][v]
          \/ forward'[w][v] \in UNION {wal[i].r : i \in DOMAIN wal}
      BY <3>1, ReplayedToken DEF FilesFiled
    <3> QED BY <1>0, <3>1, <3>2, StaysRemembered DEF Recoverable, ReplayReverse
  <2>2. CASE x # w
    BY <1>1, <1>4, <2>2 DEF LoadWal
  <2> QED BY <2>1, <2>2
<1>5. ASSUME NEW x \in Workers, Crash(x)
      PROVE  Kept
  <2>1. CASE x = w
    BY <1>5, <2>1 DEF Crash, EmptyDict
  <2>2. CASE x # w
    BY <1>1, <1>5, <2>2 DEF Crash
  <2> QED BY <2>1, <2>2
<1>6. ASSUME NEW t \in Threads, NEW y \in Values, NEW ty \in Types, Mint(t, y, ty)
      PROVE  Kept
  <2> DEFINE x == Owner[t]
             token == TokenFor(x, y, ty)
  <2>1. CASE y \in DOMAIN forward[x] \/ x # w
    BY <1>1, <1>6, <2>1 DEF Mint
  <2>2. CASE y \notin DOMAIN forward[x] /\ x = w
    <3>1. /\ forward'[w] = Updated(forward[w], [z \in {y} |-> token])
          /\ pending'[w].r = pending[w].r \cup {token}
      BY <1>6, <2>2 DEF Mint
    <3>2. \/ v = y /\ forward'[w][v] = token
          \/ v \in DOMAIN forward[w] /\ forward'[w][v] = forward[w][v]
      <4> HIDE DEF token
      <4> QED BY <3>1 DEF Updated
    <3> HIDE DEF token
    <3> QED BY <1>0, <3>1, <3>2, StaysRemembered
  <2> QED BY <2>1, <2>2
<1>7. ASSUME NEW t \in Threads, AckSave(t)
      PROVE  Kept
  <2>1. /\ forward' = forward
        /\ pending' = [pending EXCEPT ![Owner[t]] = StillPending(@, batch[t])]
        /\ pc[t] \in LineWritten
    BY <1>7 DEF AckSave, LineWritten
  <2>2. batch[t].r \subseteq Recoverable \cup glued
    BY <2>1 DEF BatchOnDisk
  <2>3. pending[w].r \subseteq pending'[w].r \cup batch[t].r
    BY <2>1 DEF StillPending
  <2> QED BY <1>0, <2>1, <2>2, <2>3, NothingLost
<1>8. ASSUME NEW t \in Threads,
             \/ SkipSave(t) \/ BeginSave(t) \/ AcquireFlock(t) \/ AppendLine(t)
             \/ CompactLoad(t) \/ CompactWrite(t) \/ CompactRemove(t) \/ ReleaseFlock(t)
      PROVE  Kept
  BY <1>1, <1>8 DEF SkipSave, BeginSave, AcquireFlock, AppendLine, CompactLoad,
     CompactWrite, CompactRemove, ReleaseFlock, store
<1>9. ASSUME NEW t \in Threads, FailAppend(t) \/ TearAppend(t) \/ FailCompact(t)
      PROVE  Kept
  BY <1>1, <1>9 DEF FailAppend, TearAppend, FailCompact, Abandon, store
<1> QED
  BY <1>2, <1>3, <1>4, <1>5, <1>6, <1>7, <1>8, <1>9 DEF Next

-----------------------------------------------------------------------------
(* The theorem.                                                            *)

\* The invariant holds initially and every step preserves it.
LEMMA MemoryInductive ==
    /\ Init => DurableInv /\ MemoryInv
    /\ (DurableInv /\ MemoryInv) /\ [Next]_vars => (DurableInv /\ MemoryInv)'
<1>1. ASSUME Init
      PROVE  MemoryInv
  BY <1>1, NoEntriesExact, OwnerAssumption DEF Init, MemoryInv, FilesFiled, PendingExact,
     BatchExact, OnlyUpPends, NothingForgotten, EmptyDict
<1>2. ASSUME DurableInv, MemoryInv, [Next]_vars
      PROVE  MemoryInv'
  BY <1>2, NextFiled, NextExact, NextRemembered DEF DurableInv, MemoryInv
<1> QED
  BY <1>1, <1>2, DurableInductive

\* A token a worker would answer with again without minting it is on disk or
\* still waiting to be saved, through every race of two saves, failed save
\* and crash, unless its line was joined with a torn one.
THEOREM NothingIsForgotten == Spec => []NothingForgotten
<1>1. MemoryInv => NothingForgotten
  BY DEF MemoryInv
<1> QED
  BY <1>1, MemoryInductive, PTL DEF Spec

-----------------------------------------------------------------------------
(* How much a dying worker loses.  Between two saves that it begins, a     *)
(* worker answers at most SaveEvery - 1 requests without saving: one       *)
(* epoch.  The answered tokens not on disk belong to the epoch under way   *)
(* or to one that ended in a save which has not been made up for, and the  *)
(* batch of a save under way has the tokens of every epoch before it.      *)

\* The tokens a process started now resolves or a torn line took along.
OnDisk == Recoverable \cup glued

\* What a worker may answer with in one epoch.
EpochBound == ValuesPerRequest * (SaveEvery - 1)

\* The debounce counts below its limit.
CallsBelowLimit == \A w \in Workers : calls[w] < SaveEvery

\* The tokens of a response being built are few, and on disk or still to be
\* saved: by the batch of its own save once that is under way.
CarriedKept ==
    \A t \in Threads :
        /\ IsFiniteSet(carried[t])
        /\ Cardinality(carried[t]) <= ValuesPerRequest
        /\ carried[t] \subseteq OnDisk \cup pending[Owner[t]].r
        /\ pc[t] # "serving" => carried[t] \subseteq OnDisk \cup batch[t].r

\* E splits what worker w has answered with and not saved into epochs.
Epochs(w, E) ==
    /\ \A i \in 1 .. overdue[w] + 1 : IsFiniteSet(E[i])
    /\ \A i \in 1 .. overdue[w] : Cardinality(E[i]) <= EpochBound
    /\ Cardinality(E[overdue[w] + 1]) <= ValuesPerRequest * calls[w]
    /\ \A token \in released[w] \ OnDisk : \E i \in 1 .. overdue[w] + 1 : token \in E[i]
    /\ \A i \in 1 .. overdue[w] + 1 : E[i] \subseteq OnDisk \cup pending[w].r
    /\ \A t \in ThreadsOf(w) :
        /\ covers[t] <= overdue[w]
        /\ pc[t] # "serving" => \A i \in 1 .. covers[t] : E[i] \subseteq OnDisk \cup batch[t].r

EpochsKept == \A w \in Workers : \E E : Epochs(w, E)

LossInv == CallsBelowLimit /\ CarriedKept /\ EpochsKept

-----------------------------------------------------------------------------
(* Counting.                                                               *)

\* A set of natural numbers that is not empty has a least element.
LEMMA LeastNatural ==
    ASSUME NEW T, T \subseteq Nat, T # {}
    PROVE  \E x \in T : \A y \in T : x <= y
<1> DEFINE R == {p \in Nat \X Nat : p[1] < p[2]}
<1>1. IsWellFoundedOn(R, Nat)
  BY NatLessThanWellFounded DEF OpToRel
<1>2. PICK x \in T : \A y \in T : ~ (<<y, x>> \in R)
  <2> HIDE DEF R
  <2> QED BY <1>1, WFMin
<1>3. ASSUME NEW y \in T
      PROVE  x <= y
  <2>1. x \in Nat /\ y \in Nat
    OBVIOUS
  <2>2. ~ (y < x)
    BY <1>2, <2>1
  <2> QED BY <2>1, <2>2
<1> QED
  BY <1>3

\* Products of natural numbers.
LEMMA Products ==
    ASSUME NEW a \in Nat, NEW b \in Nat, NEW c \in Nat, b <= c
    PROVE  a * b \in Nat /\ a * (b + 1) = a * b + a /\ a * b <= a * c
<1>1. PICK d \in Nat : c = b + d
  <2>1. c - b \in Nat /\ c = b + (c - b)
    OBVIOUS
  <2> QED BY <2>1
<1>2. a * b \in Nat /\ a * d \in Nat
  OBVIOUS
<1>3. a * c = a * b + a * d
  BY <1>1
<1>4. a * (b + 1) = a * b + a
  OBVIOUS
<1> DEFINE x == a * b
           y == a * d
           z == a * c
<1>5. x \in Nat /\ y \in Nat /\ z = x + y
  BY <1>2, <1>3
<1> HIDE DEF x, y, z
<1>6. x <= z
  BY <1>5
<1> QED
  BY <1>2, <1>4, <1>6 DEF x, z

\* Sets that are each no larger than b have a union no larger than n * b.
LEMMA UnionBound ==
    ASSUME NEW b \in Nat, NEW n \in Nat, NEW E,
           \A i \in 1 .. n : IsFiniteSet(E[i]) /\ Cardinality(E[i]) <= b
    PROVE  LET U == UNION {E[i] : i \in 1 .. n}
           IN  IsFiniteSet(U) /\ Cardinality(U) <= b * n
<1> DEFINE U(k) == UNION {E[i] : i \in 1 .. k}
           Bounded(k) == IsFiniteSet(U(k)) /\ Cardinality(U(k)) <= b * k
           T == {k \in 0 .. n : ~Bounded(k)}
<1>1. ASSUME T # {}
      PROVE  FALSE
  <2>1. T \subseteq Nat
    OBVIOUS
  <2>2. PICK k \in T : \A y \in T : k <= y
    <3> HIDE DEF T
    <3> QED BY <1>1, <2>1, LeastNatural
  <2>3. k \in 0 .. n /\ ~Bounded(k)
    OBVIOUS
  <2>4. Bounded(0)
    <3>1. U(0) = {}
      OBVIOUS
    <3>2. b * 0 = 0
      OBVIOUS
    <3> HIDE DEF U
    <3> QED BY <3>1, <3>2, FS_EmptySet
  <2>5. k # 0
    <3> HIDE DEF Bounded
    <3> QED BY <2>3, <2>4
  <2>6. k - 1 \in 0 .. n /\ k - 1 \notin T
    <3> HIDE DEF T
    <3> QED BY <2>2, <2>3, <2>5
  <2>7. Bounded(k - 1)
    <3> HIDE DEF Bounded
    <3> QED BY <2>6
  <2>8. U(k) = U(k - 1) \cup E[k]
    <3>1. 1 .. k = (1 .. k - 1) \cup {k}
      BY <2>3, <2>5
    <3> QED BY <3>1
  <2>9. IsFiniteSet(E[k]) /\ Cardinality(E[k]) <= b
    BY <2>3, <2>5
  <2>10. /\ IsFiniteSet(U(k))
         /\ Cardinality(U(k)) = Cardinality(U(k - 1)) + Cardinality(E[k])
                                - Cardinality(U(k - 1) \cap E[k])
    <3> HIDE DEF U
    <3> QED BY <2>7, <2>8, <2>9, FS_Union
  <2>11. /\ Cardinality(U(k - 1)) \in Nat /\ Cardinality(E[k]) \in Nat
         /\ Cardinality(U(k - 1) \cap E[k]) \in Nat
    <3> HIDE DEF U
    <3> QED BY <2>7, <2>9, FS_CardinalityType, FS_Intersection
  <2>12. Cardinality(U(k)) <= b * (k - 1) + b
    <3> DEFINE c == b * (k - 1)
    <3>1. c \in Int
      BY <2>3
    <3> HIDE DEF U, c
    <3> QED BY <2>7, <2>9, <2>10, <2>11, <3>1 DEF c
  <2>13. b * (k - 1) + b = b * k
    BY <2>3
  <2> QED
    BY <2>3, <2>10, <2>12, <2>13
<1>2. n \in 0 .. n
  OBVIOUS
<1>3. Bounded(n)
  <2> HIDE DEF Bounded
  <2> QED BY <1>1, <1>2
<1> QED
  BY <1>3

\* Few additions to a small set leave it small.
LEMMA UnionOfTwo ==
    ASSUME NEW S, NEW T, IsFiniteSet(S), IsFiniteSet(T),
           NEW m \in Nat, NEW n \in Nat, Cardinality(S) <= m, Cardinality(T) <= n
    PROVE  IsFiniteSet(S \cup T) /\ Cardinality(S \cup T) <= m + n
<1>1. /\ Cardinality(S) \in Nat /\ Cardinality(T) \in Nat
      /\ Cardinality(S \cap T) \in Nat
  BY FS_CardinalityType, FS_Intersection
<1> QED
  BY <1>1, FS_Union

\* The epochs bound the loss.
LEMMA EpochsBoundLoss ==
    ASSUME TypeOK, CallsBelowLimit, NEW w \in Workers, NEW E, Epochs(w, E)
    PROVE  Cardinality(released[w] \ OnDisk) <= EpochBound * (1 + overdue[w])
<1> DEFINE n == overdue[w] + 1
           U == UNION {E[i] : i \in 1 .. n}
<1>1. n \in Nat /\ overdue[w] \in Nat /\ calls[w] \in Nat
  BY DEF TypeOK
<1>2. EpochBound \in Nat
  BY SaveEveryAssumption, BoundsAssumption DEF EpochBound
<1>3. ValuesPerRequest * calls[w] <= EpochBound
  <2>1. calls[w] \in Nat /\ SaveEvery - 1 \in Nat /\ calls[w] <= SaveEvery - 1
    BY <1>1, SaveEveryAssumption DEF CallsBelowLimit
  <2>2. ValuesPerRequest \in Nat
    BY BoundsAssumption
  <2> QED BY <2>1, <2>2, Products DEF EpochBound
<1>4. ValuesPerRequest * calls[w] \in Nat
  BY <1>1, BoundsAssumption
<1>5. ASSUME NEW i \in 1 .. n
      PROVE  IsFiniteSet(E[i]) /\ Cardinality(E[i]) <= EpochBound
  <2>1. IsFiniteSet(E[i]) /\ Cardinality(E[i]) \in Nat
    BY FS_CardinalityType DEF Epochs
  <2>2. CASE i = n
    <3>1. Cardinality(E[i]) <= ValuesPerRequest * calls[w]
      BY <2>2 DEF Epochs
    <3> QED BY <1>2, <1>3, <1>4, <2>1, <3>1
  <2>3. CASE i # n
    <3>1. i \in 1 .. overdue[w]
      BY <1>1, <2>3
    <3> QED BY <2>1, <3>1 DEF Epochs
  <2> QED BY <2>2, <2>3
<1>6. IsFiniteSet(U) /\ Cardinality(U) <= EpochBound * n
  <2> HIDE DEF n
  <2> QED BY <1>1, <1>2, <1>5, UnionBound
<1>7. released[w] \ OnDisk \in SUBSET U
  BY DEF Epochs
<1>8. /\ Cardinality(released[w] \ OnDisk) <= Cardinality(U)
      /\ Cardinality(released[w] \ OnDisk) \in Nat /\ Cardinality(U) \in Nat
  <2> HIDE DEF U
  <2> QED BY <1>6, <1>7, FS_Subset, FS_CardinalityType
<1>9. EpochBound * n \in Nat /\ n = 1 + overdue[w]
  BY <1>1, <1>2
<1> QED
  <2> HIDE DEF U, n
  <2> QED BY <1>6, <1>8, <1>9

-----------------------------------------------------------------------------
(* The reckoning is kept, conjunct by conjunct.                            *)

\* Nothing leaves the disk, a torn line's tokens counted in.
LEMMA OnDiskGrows ==
    ASSUME DurableInv, [Next]_vars
    PROVE  OnDisk \subseteq OnDisk'
BY NothingLost DEF OnDisk

\* The debounce never reaches its limit without a save.
LEMMA NextCalls ==
    ASSUME TypeOK, CallsBelowLimit, [Next]_vars
    PROVE  CallsBelowLimit'
<1> SUFFICES ASSUME NEW w \in Workers
             PROVE  calls'[w] < SaveEvery
  BY DEF CallsBelowLimit
<1> USE SaveEveryAssumption DEF TypeOK, CallsBelowLimit
<1>1. ASSUME calls' = calls
      PROVE  calls'[w] < SaveEvery
  BY <1>1
<1>2. CASE UNCHANGED vars
  BY <1>1, <1>2 DEF vars, store
<1>3. ASSUME NEW x \in Workers, LoadSnapshot(x) \/ LoadWal(x)
      PROVE  calls'[w] < SaveEvery
  BY <1>1, <1>3 DEF LoadSnapshot, LoadWal
<1>4. ASSUME NEW x \in Workers, Crash(x)
      PROVE  calls'[w] < SaveEvery
  BY <1>4 DEF Crash
<1>5. ASSUME NEW t \in Threads, NEW v \in Values, NEW ty \in Types, Mint(t, v, ty)
      PROVE  calls'[w] < SaveEvery
  BY <1>1, <1>5 DEF Mint
<1>6. ASSUME NEW t \in Threads, SkipSave(t)
      PROVE  calls'[w] < SaveEvery
  <2>1. Owner[t] \in Workers
    BY OwnerAssumption
  <2> QED BY <1>6, <2>1 DEF SkipSave, SaveDue
<1>7. ASSUME NEW t \in Threads, BeginSave(t)
      PROVE  calls'[w] < SaveEvery
  BY <1>7 DEF BeginSave
<1>8. ASSUME NEW t \in Threads,
             \/ AcquireFlock(t) \/ AppendLine(t) \/ CompactLoad(t) \/ CompactWrite(t)
             \/ CompactRemove(t) \/ ReleaseFlock(t) \/ AckSave(t)
      PROVE  calls'[w] < SaveEvery
  BY <1>1, <1>8 DEF AcquireFlock, AppendLine, CompactLoad, CompactWrite, CompactRemove,
     ReleaseFlock, AckSave, store
<1>9. ASSUME NEW t \in Threads, FailAppend(t) \/ TearAppend(t) \/ FailCompact(t)
      PROVE  calls'[w] < SaveEvery
  BY <1>1, <1>9 DEF FailAppend, TearAppend, FailCompact, Abandon, store
<1> QED
  BY <1>2, <1>3, <1>4, <1>5, <1>6, <1>7, <1>8, <1>9 DEF Next

\* A worker keeps what it has to save while it saves none of it for good.
LEMMA PendingKept ==
    ASSUME DurableInv, [Next]_vars, NEW w \in Workers
    PROVE  \/ pending[w].r \subseteq OnDisk' \cup pending'[w].r
           \/ /\ pending'[w] = NoEntries /\ released'[w] = {}
              /\ overdue'[w] = 0 /\ calls'[w] = 0
              /\ \A t \in ThreadsOf(w) : /\ carried'[t] = {} /\ covers'[t] = 0
                                         /\ pc'[t] = "serving"
<1> DEFINE Kept == pending[w].r \subseteq OnDisk' \cup pending'[w].r
<1> USE DEF DurableInv, TypeOK
<1>1. ASSUME pending'[w] = pending[w]
      PROVE  Kept
  BY <1>1
<1>2. CASE UNCHANGED vars
  BY <1>1, <1>2 DEF vars, store
<1>3. ASSUME NEW x \in Workers, LoadSnapshot(x) \/ LoadWal(x)
      PROVE  Kept
  BY <1>1, <1>3 DEF LoadSnapshot, LoadWal
<1>4. ASSUME NEW x \in Workers, Crash(x), x # w
      PROVE  Kept
  BY <1>1, <1>4 DEF Crash
<1>5. ASSUME Crash(w)
      PROVE  /\ pending'[w] = NoEntries /\ released'[w] = {}
             /\ overdue'[w] = 0 /\ calls'[w] = 0
             /\ \A t \in ThreadsOf(w) : /\ carried'[t] = {} /\ covers'[t] = 0
                                        /\ pc'[t] = "serving"
  BY <1>5 DEF Crash, ThreadsOf
<1>6. ASSUME NEW t \in Threads, NEW v \in Values, NEW ty \in Types, Mint(t, v, ty)
      PROVE  Kept
  BY <1>1, <1>6 DEF Mint
<1>7. ASSUME NEW t \in Threads, AckSave(t)
      PROVE  Kept
  <2>1. /\ pending' = [pending EXCEPT ![Owner[t]] = StillPending(@, batch[t])]
        /\ pc[t] \in LineWritten
    BY <1>7 DEF AckSave, LineWritten
  <2>2. batch[t].r \subseteq OnDisk'
    BY <2>1, OnDiskGrows DEF BatchOnDisk, OnDisk
  <2> QED BY <2>1, <2>2 DEF StillPending
<1>8. ASSUME NEW t \in Threads, SkipSave(t) \/ MovesInSave(t)
      PROVE  Kept
  BY <1>1, <1>8 DEF SkipSave, MovesInSave, BeginSave, AcquireFlock, AppendLine,
     CompactLoad, CompactWrite, CompactRemove, ReleaseFlock, store
<1>9. ASSUME NEW t \in Threads, FailAppend(t) \/ TearAppend(t) \/ FailCompact(t)
      PROVE  Kept
  BY <1>1, <1>9 DEF FailAppend, TearAppend, FailCompact, Abandon, store
<1> QED
  BY <1>2, <1>3, <1>4, <1>5, <1>6, <1>7, <1>8, <1>9 DEF Next, MovesInSave

\* The tokens of the response that thread u is building are kept.
ResponseKept(u) ==
    /\ IsFiniteSet(carried[u])
    /\ Cardinality(carried[u]) <= ValuesPerRequest
    /\ carried[u] \subseteq OnDisk \cup pending[Owner[u]].r
    /\ pc[u] # "serving" => carried[u] \subseteq OnDisk \cup batch[u].r

\* What a response carries is still kept after a step: the batch of its own
\* save has all of it.
LEMMA NextCarried ==
    ASSUME DurableInv, MemoryInv, CarriedKept, [Next]_vars
    PROVE  CarriedKept'
<1> SUFFICES ASSUME NEW u \in Threads
             PROVE  ResponseKept(u)'
  BY DEF CarriedKept, ResponseKept
<1>0. ResponseKept(u) /\ Owner[u] \in Workers
  BY OwnerAssumption DEF CarriedKept, ResponseKept
<1>1. OnDisk \subseteq OnDisk'
  BY OnDiskGrows
<1> USE BoundsAssumption DEF DurableInv, TypeOK
<1>2. ASSUME carried'[u] = {}
      PROVE  ResponseKept(u)'
  BY <1>2, FS_EmptySet DEF ResponseKept
<1>3. ASSUME carried'[u] = carried[u],
             pc'[u] = "serving" \/ (pc[u] # "serving" /\ batch'[u] = batch[u])
      PROVE  ResponseKept(u)'
  <2>1. CASE carried'[u] = {}
    BY <1>2, <2>1
  <2>2. CASE pending[Owner[u]].r \subseteq OnDisk' \cup pending'[Owner[u]].r
    BY <1>0, <1>1, <1>3, <2>2 DEF ResponseKept
  <2> QED BY <1>0, <2>1, <2>2, PendingKept DEF ThreadsOf
<1>4. CASE UNCHANGED vars
  BY <1>3, <1>4 DEF vars, thread
<1>5. ASSUME NEW x \in Workers, LoadSnapshot(x) \/ LoadWal(x)
      PROVE  ResponseKept(u)'
  BY <1>3, <1>5 DEF LoadSnapshot, LoadWal, thread
<1>6. ASSUME NEW x \in Workers, Crash(x)
      PROVE  ResponseKept(u)'
  <2>1. CASE Owner[u] = x
    BY <1>2, <1>6, <2>1 DEF Crash
  <2>2. CASE Owner[u] # x
    BY <1>3, <1>6, <2>2 DEF Crash
  <2> QED BY <2>1, <2>2
<1>7. ASSUME NEW t \in Threads, NEW v \in Values, NEW ty \in Types, Mint(t, v, ty)
      PROVE  ResponseKept(u)'
  <2>1. CASE t = u
    <3> DEFINE w == Owner[u]
               token == TokenFor(w, v, ty)
    <3>1. /\ carried'[u] = carried[u] \cup {token} /\ pc'[u] = "serving"
          /\ Cardinality(carried[u]) < ValuesPerRequest
      BY <1>7, <2>1 DEF Mint
    <3>2. token \in OnDisk' \cup pending'[w].r
      <4>1. CASE v \in DOMAIN forward[w]
        <5>1. token \in OnDisk \cup pending[w].r
          BY <1>0, <4>1 DEF MemoryInv, NothingForgotten, TokenFor, OnDisk
        <5>2. pending' = pending
          BY <1>7, <2>1, <4>1 DEF Mint
        <5> QED BY <1>1, <5>1, <5>2
      <4>2. CASE v \notin DOMAIN forward[w]
        BY <1>0, <1>7, <2>1, <4>2 DEF Mint
      <4> QED BY <4>1, <4>2
    <3>3. pending[w].r \subseteq OnDisk' \cup pending'[w].r
      BY <1>0, <1>7, <2>1 DEF Mint
    <3>4. /\ IsFiniteSet(carried'[u])
          /\ Cardinality(carried'[u]) <= ValuesPerRequest
      <4> HIDE DEF token
      <4>1. IsFiniteSet(carried[u]) /\ Cardinality(carried[u]) \in Nat
        BY <1>0, FS_CardinalityType DEF ResponseKept
      <4>2. /\ IsFiniteSet(carried[u] \cup {token})
            /\ Cardinality(carried[u] \cup {token})
                 \in {Cardinality(carried[u]), Cardinality(carried[u]) + 1}
        BY <4>1, FS_AddElement
      <4> QED BY <3>1, <4>1, <4>2
    <3> HIDE DEF token
    <3> QED BY <1>0, <1>1, <3>1, <3>2, <3>3, <3>4 DEF ResponseKept
  <2>2. CASE t # u
    BY <1>3, <1>7, <2>2 DEF Mint
  <2> QED BY <2>1, <2>2
<1>8. ASSUME NEW t \in Threads, SkipSave(t) \/ AckSave(t)
      PROVE  ResponseKept(u)'
  <2>1. CASE t = u
    BY <1>2, <1>8, <2>1 DEF SkipSave, AckSave
  <2>2. CASE t # u
    BY <1>3, <1>8, <2>2 DEF SkipSave, AckSave
  <2> QED BY <2>1, <2>2
<1>9. ASSUME NEW t \in Threads, BeginSave(t)
      PROVE  ResponseKept(u)'
  <2>1. CASE t = u
    <3>1. /\ batch'[u] = pending[Owner[u]] /\ pending' = pending
          /\ carried' = carried
      BY <1>9, <2>1 DEF BeginSave
    <3> QED BY <1>0, <1>1, <3>1 DEF ResponseKept
  <2>2. CASE t # u
    BY <1>3, <1>9, <2>2 DEF BeginSave
  <2> QED BY <2>1, <2>2
<1>10. ASSUME NEW t \in Threads,
              \/ AcquireFlock(t) \/ AppendLine(t) \/ CompactLoad(t) \/ CompactWrite(t)
              \/ CompactRemove(t) \/ ReleaseFlock(t)
       PROVE  ResponseKept(u)'
  <2>1. carried' = carried /\ batch' = batch /\ pc[t] # "serving"
    BY <1>10 DEF AcquireFlock, AppendLine, CompactLoad, CompactWrite, CompactRemove,
       ReleaseFlock
  <2>2. u = t \/ pc'[u] = pc[u]
    BY <1>10 DEF AcquireFlock, AppendLine, CompactLoad, CompactWrite, CompactRemove,
       ReleaseFlock
  <2> QED BY <1>3, <2>1, <2>2
<1>11. ASSUME NEW t \in Threads, FailAppend(t) \/ TearAppend(t) \/ FailCompact(t)
       PROVE  ResponseKept(u)'
  <2>1. CASE t = u
    BY <1>2, <1>11, <2>1 DEF FailAppend, TearAppend, FailCompact, Abandon
  <2>2. CASE t # u
    BY <1>3, <1>11, <2>2 DEF FailAppend, TearAppend, FailCompact, Abandon
  <2> QED BY <2>1, <2>2
<1> QED
  BY <1>4, <1>5, <1>6, <1>7, <1>8, <1>9, <1>10, <1>11 DEF Next

\* A step that begins no save of worker w, ends none for good and answers
\* nothing keeps the epochs as they are.
LEMMA EpochsStay ==
    ASSUME TypeOK, TypeOK', OnDisk \subseteq OnDisk', NEW w \in Workers, NEW E, Epochs(w, E),
           overdue'[w] = overdue[w], calls'[w] = calls[w], released'[w] = released[w],
           pending[w].r \subseteq OnDisk' \cup pending'[w].r,
           \A t \in ThreadsOf(w) :
               \/ pc'[t] = "serving" /\ covers'[t] \in {0, covers[t]}
               \/ pc[t] # "serving" /\ batch'[t] = batch[t] /\ covers'[t] = covers[t]
    PROVE  Epochs(w, E)'
<1>1. overdue[w] \in Nat
  BY DEF TypeOK
<1>2. \A t \in ThreadsOf(w) :
         /\ covers'[t] <= overdue'[w]
         /\ pc'[t] # "serving" =>
              \A i \in 1 .. covers'[t] : E[i] \subseteq OnDisk' \cup batch'[t].r
  BY <1>1 DEF Epochs
<1>3. /\ \A i \in 1 .. overdue'[w] + 1 : IsFiniteSet(E[i])
      /\ \A i \in 1 .. overdue'[w] : Cardinality(E[i]) <= EpochBound
      /\ Cardinality(E[overdue'[w] + 1]) <= ValuesPerRequest * calls'[w]
  BY DEF Epochs
<1>4. \A token \in released'[w] \ OnDisk' : \E i \in 1 .. overdue'[w] + 1 : token \in E[i]
  BY DEF Epochs
<1>5. \A i \in 1 .. overdue'[w] + 1 : E[i] \subseteq OnDisk' \cup pending'[w].r
  BY DEF Epochs
<1> QED
  BY <1>2, <1>3, <1>4, <1>5 DEF Epochs, ThreadsOf, EpochBound

\* What worker w has answered with and not saved falls into epochs after a
\* step: one more request joins the last, a save that begins opens another,
\* and a good save drops those it made up for.
LEMMA NextEpochs ==
    ASSUME DurableInv, DurableInv', MemoryInv, LossInv, [Next]_vars
    PROVE  EpochsKept'
<1> SUFFICES ASSUME NEW w \in Workers
             PROVE  \E F : Epochs(w, F)'
  BY DEF EpochsKept, Epochs, ThreadsOf, EpochBound
<1>0. PICK E : Epochs(w, E)
  BY DEF LossInv, EpochsKept
<1>1. OnDisk \subseteq OnDisk'
  BY OnDiskGrows
<1>2. /\ overdue[w] \in Nat /\ overdue[w] + 1 \in Nat
      /\ calls[w] \in Nat /\ calls[w] < SaveEvery
  BY DEF DurableInv, TypeOK, LossInv, CallsBelowLimit
<1>t. TypeOK
  BY DEF DurableInv
<1> USE SaveEveryAssumption, BoundsAssumption
<1> DEFINE Reckoned(t) ==
             \/ pc'[t] = "serving" /\ covers'[t] \in {0, covers[t]}
             \/ pc[t] # "serving" /\ batch'[t] = batch[t] /\ covers'[t] = covers[t]
<1>3. ASSUME overdue'[w] = overdue[w], calls'[w] = calls[w], released'[w] = released[w],
             pending[w].r \subseteq OnDisk' \cup pending'[w].r,
             \A t \in ThreadsOf(w) : Reckoned(t)
      PROVE  \E F : Epochs(w, F)'
  BY <1>0, <1>1, <1>3, EpochsStay DEF DurableInv
<1>4. CASE UNCHANGED vars
  BY <1>3, <1>4 DEF vars, store, thread, history, ThreadsOf
<1>5. ASSUME NEW x \in Workers, LoadSnapshot(x) \/ LoadWal(x)
      PROVE  \E F : Epochs(w, F)'
  BY <1>3, <1>5, <1>t DEF TypeOK, LoadSnapshot, LoadWal, thread, history, ThreadsOf
<1>6. ASSUME NEW x \in Workers, Crash(x), x # w
      PROVE  \E F : Epochs(w, F)'
  <2>1. /\ overdue'[w] = overdue[w] /\ calls'[w] = calls[w]
        /\ released'[w] = released[w] /\ pending'[w] = pending[w]
    BY <1>6, <1>t DEF TypeOK, Crash
  <2>2. \A t \in ThreadsOf(w) : Reckoned(t)
    BY <1>6, <1>t DEF TypeOK, Crash, ThreadsOf
  <2> QED BY <1>3, <2>1, <2>2
<1>7. ASSUME Crash(w)
      PROVE  \E F : Epochs(w, F)'
  <2>1. /\ released'[w] = {} /\ overdue'[w] = 0
        /\ \A t \in ThreadsOf(w) : covers'[t] = 0 /\ pc'[t] = "serving"
    BY <1>7, <1>t DEF TypeOK, Crash, ThreadsOf
  <2>2. PICK F : F = [i \in {1} |-> {}]
    OBVIOUS
  <2>3. \A i \in 1 .. 1 : F[i] = {}
    BY <2>2
  <2>4. IsFiniteSet({}) /\ Cardinality({}) = 0
    BY FS_EmptySet
  <2>5. overdue'[w] + 1 = 1 /\ calls'[w] = 0
    BY <1>7, <2>1, <1>t DEF TypeOK, Crash
  <2>6. Cardinality(F[1]) <= ValuesPerRequest * calls'[w]
    BY <2>3, <2>4, <2>5
  <2>7. Epochs(w, F)'
    BY <2>1, <2>3, <2>4, <2>5, <2>6 DEF Epochs, ThreadsOf
  <2> QED BY <2>7
<1>8. ASSUME NEW t \in Threads, NEW v \in Values, NEW ty \in Types, Mint(t, v, ty)
      PROVE  \E F : Epochs(w, F)'
  <2>1. UNCHANGED <<overdue, calls, released, pc, batch, covers>>
    BY <1>8, <1>t DEF TypeOK, Mint, history
  <2>2. pending[w].r \subseteq OnDisk' \cup pending'[w].r
    <3>1. CASE Owner[t] = w
      BY <1>8, <1>t, <3>1 DEF TypeOK, Mint
    <3>2. CASE Owner[t] # w
      BY <1>8, <1>t, <3>2 DEF TypeOK, Mint
    <3> QED BY <3>1, <3>2
  <2> QED BY <1>3, <2>1, <2>2 DEF ThreadsOf
<1>9. ASSUME NEW t \in Threads, SkipSave(t)
      PROVE  \E F : Epochs(w, F)'
  <2>1. UNCHANGED <<overdue, covers, pc, batch, pending>>
    BY <1>9, <1>t DEF TypeOK, SkipSave
  <2>2. CASE Owner[t] # w
    <3>1. calls'[w] = calls[w] /\ released'[w] = released[w]
      BY <1>9, <2>2, <1>t DEF TypeOK, SkipSave
    <3> QED BY <1>3, <2>1, <3>1 DEF ThreadsOf
  <2>3. CASE Owner[t] = w
    <3> DEFINE n == overdue[w] + 1
    <3>1. calls'[w] = calls[w] + 1 /\ released'[w] = released[w] \cup carried[t]
      BY <1>9, <2>3, <1>t DEF TypeOK, SkipSave
    <3>2. PICK F : F = [i \in 1 .. n |-> IF i = n THEN E[i] \cup carried[t] ELSE E[i]]
      OBVIOUS
    <3>3. /\ \A i \in 1 .. overdue[w] : F[i] = E[i]
          /\ F[n] = E[n] \cup carried[t]
          /\ \A i \in 1 .. n : E[i] \subseteq F[i]
      BY <1>2, <3>2
    <3>4. /\ ResponseKept(t)
          /\ IsFiniteSet(carried[t]) /\ Cardinality(carried[t]) <= ValuesPerRequest
      BY DEF LossInv, CarriedKept, ResponseKept
    <3>5. IsFiniteSet(F[n]) /\ Cardinality(F[n]) <= ValuesPerRequest * calls'[w]
      <4> DEFINE m == ValuesPerRequest * calls[w]
      <4>1. IsFiniteSet(E[n]) /\ Cardinality(E[n]) <= m
        BY <1>0, <1>2 DEF Epochs
      <4>2. m \in Nat /\ ValuesPerRequest * calls'[w] = m + ValuesPerRequest
        <5>1. calls[w] \in Nat /\ calls[w] <= calls[w] /\ ValuesPerRequest \in Nat
          BY <1>2
        <5> QED BY <3>1, <5>1, Products
      <4> HIDE DEF m, n
      <4>3. IsFiniteSet(E[n] \cup carried[t])
            /\ Cardinality(E[n] \cup carried[t]) <= m + ValuesPerRequest
        BY <3>4, <4>1, <4>2, UnionOfTwo
      <4> QED BY <3>3, <4>2, <4>3
    <3>6. \A token \in released'[w] \ OnDisk' : \E i \in 1 .. n : token \in F[i]
      BY <1>0, <1>1, <1>2, <3>1, <3>3 DEF Epochs
    <3>7. /\ \A i \in 1 .. n : IsFiniteSet(F[i]) /\ F[i] \subseteq OnDisk' \cup pending'[w].r
          /\ \A i \in 1 .. overdue[w] : Cardinality(F[i]) <= EpochBound
      <4>1. /\ \A i \in 1 .. n : IsFiniteSet(E[i]) /\ E[i] \subseteq OnDisk \cup pending[w].r
            /\ \A i \in 1 .. overdue[w] : Cardinality(E[i]) <= EpochBound
        BY <1>0 DEF Epochs
      <4>2. carried[t] \subseteq OnDisk \cup pending[w].r
        BY <2>3, <3>4 DEF ResponseKept
      <4>3. \A i \in 1 .. n : i = n \/ i \in 1 .. overdue[w]
        BY <1>2
      <4>4. pending' = pending
        BY <2>1
      <4> HIDE DEF n
      <4> QED BY <1>1, <3>3, <3>5, <4>1, <4>2, <4>3, <4>4
    <3>8. \A u \in ThreadsOf(w) :
             /\ covers[u] <= overdue[w]
             /\ pc[u] # "serving" =>
                  \A i \in 1 .. covers[u] : F[i] \subseteq OnDisk' \cup batch[u].r
      <4> SUFFICES ASSUME NEW u \in ThreadsOf(w)
                   PROVE  /\ covers[u] <= overdue[w]
                          /\ pc[u] # "serving" =>
                               \A i \in 1 .. covers[u] : F[i] \subseteq OnDisk' \cup batch[u].r
        OBVIOUS
      <4>1. covers[u] \in Nat /\ covers[u] <= overdue[w]
        BY <1>0, <1>t DEF Epochs, ThreadsOf, TypeOK
      <4>2. \A i \in 1 .. covers[u] : i \in 1 .. overdue[w] /\ F[i] = E[i]
        BY <1>2, <3>3, <4>1
      <4>3. pc[u] # "serving" => \A i \in 1 .. covers[u] : E[i] \subseteq OnDisk \cup batch[u].r
        BY <1>0 DEF Epochs
      <4> QED BY <1>1, <4>1, <4>2, <4>3
    <3>9. Epochs(w, F)'
      BY <2>1, <3>5, <3>6, <3>7, <3>8 DEF Epochs, ThreadsOf, EpochBound
    <3> QED BY <3>9
  <2> QED BY <2>2, <2>3
<1>10. ASSUME NEW t \in Threads, BeginSave(t)
       PROVE  \E F : Epochs(w, F)'
  <2>1. UNCHANGED <<pending, released>>
    BY <1>10, <1>t DEF TypeOK, BeginSave
  <2>2. CASE Owner[t] # w
    <3>1. /\ calls'[w] = calls[w] /\ overdue'[w] = overdue[w]
          /\ \A u \in ThreadsOf(w) : Reckoned(u)
      BY <1>10, <2>2, <1>t DEF TypeOK, BeginSave, ThreadsOf
    <3> QED BY <1>3, <2>1, <3>1
  <2>3. CASE Owner[t] = w
    <3> DEFINE n == overdue[w] + 1
    <3>1. /\ calls'[w] = 0 /\ overdue'[w] = n
          /\ batch'[t] = pending[w] /\ covers'[t] = n
          /\ \A u \in Threads : u # t => UNCHANGED <<batch[u], covers[u], pc[u]>>
      BY <1>10, <2>3, <1>t DEF TypeOK, BeginSave
    <3>2. PICK F : F = [i \in 1 .. n + 1 |-> IF i = n + 1 THEN {} ELSE E[i]]
      OBVIOUS
    <3>3. (\A i \in 1 .. n : F[i] = E[i]) /\ F[n + 1] = {}
      BY <1>2, <3>2
    <3>4. IsFiniteSet({}) /\ Cardinality({}) = 0
      BY FS_EmptySet
    <3>5. \A i \in 1 .. n : IsFiniteSet(E[i]) /\ Cardinality(E[i]) <= EpochBound
      <4>1. Cardinality(E[n]) <= ValuesPerRequest * calls[w]
        BY <1>0 DEF Epochs
      <4>2. ValuesPerRequest * calls[w] <= EpochBound
        <5>1. calls[w] \in Nat /\ SaveEvery - 1 \in Nat /\ calls[w] <= SaveEvery - 1
          BY <1>2
        <5>2. ValuesPerRequest \in Nat
          OBVIOUS
        <5> QED BY <5>1, <5>2, Products DEF EpochBound
      <4>3. IsFiniteSet(E[n]) /\ Cardinality(E[n]) \in Nat
        BY <1>0, <1>2, FS_CardinalityType DEF Epochs
      <4>4. ValuesPerRequest * calls[w] \in Nat /\ EpochBound \in Nat
        BY <1>2 DEF EpochBound
      <4>5. Cardinality(E[n]) <= EpochBound
        BY <4>1, <4>2, <4>3, <4>4
      <4> QED BY <1>0, <1>2, <4>5 DEF Epochs
    <3>6. \A i \in 1 .. n + 1 : IsFiniteSet(F[i]) /\ F[i] \subseteq OnDisk' \cup pending'[w].r
      <4>1. \A i \in 1 .. n : F[i] \subseteq OnDisk \cup pending[w].r
        BY <1>0, <3>3 DEF Epochs
      <4>2. \A i \in 1 .. n + 1 : i = n + 1 \/ i \in 1 .. n
        BY <1>2
      <4>3. pending' = pending
        BY <2>1
      <4> HIDE DEF n
      <4> QED BY <1>1, <3>3, <3>4, <3>5, <4>1, <4>2, <4>3
    <3>7. \A token \in released'[w] \ OnDisk' : \E i \in 1 .. n + 1 : token \in F[i]
      BY <1>0, <1>1, <1>2, <2>1, <3>3 DEF Epochs
    <3>8. \A u \in ThreadsOf(w) :
             /\ covers'[u] <= n
             /\ pc'[u] # "serving" =>
                  \A i \in 1 .. covers'[u] : F[i] \subseteq OnDisk' \cup batch'[u].r
      <4> SUFFICES ASSUME NEW u \in ThreadsOf(w)
                   PROVE  /\ covers'[u] <= n
                          /\ pc'[u] # "serving" =>
                               \A i \in 1 .. covers'[u] :
                                   F[i] \subseteq OnDisk' \cup batch'[u].r
        OBVIOUS
      <4>1. u \in Threads
        BY DEF ThreadsOf
      <4>2. CASE u = t
        <5>1. \A i \in 1 .. n : F[i] \subseteq OnDisk \cup pending[w].r
          BY <1>0, <3>3 DEF Epochs
        <5> QED BY <1>1, <1>2, <3>1, <4>2, <5>1
      <4>3. CASE u # t
        <5>1. covers[u] \in Nat /\ covers[u] <= overdue[w]
          BY <1>0, <1>t, <4>1 DEF Epochs, TypeOK
        <5>2. \A i \in 1 .. covers[u] : i \in 1 .. n /\ F[i] = E[i]
          BY <1>2, <3>3, <5>1
        <5>3. pc[u] # "serving" =>
                 \A i \in 1 .. covers[u] : E[i] \subseteq OnDisk \cup batch[u].r
          BY <1>0 DEF Epochs
        <5> QED BY <1>1, <1>2, <3>1, <4>1, <4>3, <5>1, <5>2, <5>3
      <4> QED BY <4>2, <4>3
    <3>9. Cardinality(F[n + 1]) <= ValuesPerRequest * calls'[w]
      BY <3>1, <3>3, <3>4
    <3>10. /\ overdue'[w] = n /\ n \in Nat
           /\ \A i \in 1 .. n : Cardinality(F[i]) <= EpochBound
      BY <1>2, <3>1, <3>3, <3>5
    <3> HIDE DEF n
    <3>11. Epochs(w, F)'
      BY <3>6, <3>7, <3>8, <3>9, <3>10 DEF Epochs, ThreadsOf, EpochBound
    <3> QED BY <3>11
  <2> QED BY <2>2, <2>3
<1>11. ASSUME NEW t \in Threads, AckSave(t)
       PROVE  \E F : Epochs(w, F)'
  <2>1. CASE Owner[t] # w
    <3>1. /\ overdue'[w] = overdue[w] /\ calls' = calls
          /\ released'[w] = released[w] /\ pending'[w] = pending[w]
          /\ \A u \in ThreadsOf(w) : Reckoned(u)
      BY <1>11, <2>1, <1>t DEF TypeOK, AckSave, ThreadsOf
    <3> QED BY <1>3, <3>1
  <2>2. CASE Owner[t] = w
    <3> DEFINE c == covers[t]
               Left(k) == IF k < c THEN 0 ELSE k - c
    <3>0. t \in ThreadsOf(w) /\ pc[t] = "acking"
      BY <1>11, <2>2 DEF ThreadsOf, AckSave
    <3>1. c \in Nat /\ c <= overdue[w]
      BY <1>0, <1>t, <3>0 DEF Epochs, TypeOK
    <3>2. batch[t].r \subseteq OnDisk
      BY <3>0 DEF DurableInv, BatchOnDisk, LineWritten, OnDisk
    <3>3. /\ overdue'[w] = overdue[w] - c /\ calls' = calls
          /\ released'[w] = released[w] \cup carried[t]
          /\ pending'[w].r = pending[w].r \ batch[t].r
          /\ \A u \in ThreadsOf(w) : covers'[u] = Left(covers[u])
          /\ pc'[t] = "serving"
          /\ \A u \in Threads : u # t => UNCHANGED <<batch[u], pc[u]>>
      BY <1>11, <2>2, <3>1, <1>t DEF TypeOK, AckSave, StillPending, ThreadsOf
    <3> DEFINE n == overdue[w] - c + 1
    <3>4. PICK F : F = [i \in 1 .. n |-> E[i + c]]
      OBVIOUS
    <3>5. n \in Nat /\ \A i \in 1 .. n : F[i] = E[i + c] /\ i + c \in 1 .. overdue[w] + 1
      BY <1>2, <3>1, <3>4
    <3>6. \A i \in 1 .. n : IsFiniteSet(F[i]) /\ F[i] \subseteq OnDisk' \cup pending'[w].r
      <4>1. \A i \in 1 .. overdue[w] + 1 :
               IsFiniteSet(E[i]) /\ E[i] \subseteq OnDisk \cup pending[w].r
        BY <1>0 DEF Epochs
      <4> HIDE DEF n
      <4> QED BY <1>1, <3>2, <3>3, <3>5, <4>1
    <3>7. \A i \in 1 .. overdue[w] - c : Cardinality(F[i]) <= EpochBound
      <4>1. \A i \in 1 .. overdue[w] - c : F[i] = E[i + c] /\ i + c \in 1 .. overdue[w]
        BY <1>2, <3>1, <3>4
      <4> QED BY <1>0, <4>1 DEF Epochs
    <3>8. Cardinality(F[n]) <= ValuesPerRequest * calls'[w]
      <4>1. F[n] = E[overdue[w] + 1]
        BY <1>2, <3>1, <3>4
      <4> QED BY <1>0, <3>3, <4>1 DEF Epochs
    <3>9. ASSUME NEW token \in released'[w] \ OnDisk'
          PROVE  \E i \in 1 .. n : token \in F[i]
      <4>1. carried[t] \subseteq OnDisk \cup batch[t].r
        BY <3>0 DEF LossInv, CarriedKept
      <4>2. token \in released[w] \ OnDisk
        BY <1>1, <3>2, <3>3, <3>9, <4>1
      <4>3. PICK i \in 1 .. overdue[w] + 1 : token \in E[i]
        BY <1>0, <4>2 DEF Epochs
      <4>4. i \notin 1 .. c
        BY <1>0, <3>0, <3>2, <4>2, <4>3 DEF Epochs
      <4>5. i - c \in 1 .. n /\ (i - c) + c = i
        BY <1>2, <3>1, <4>3, <4>4
      <4>6. F[i - c] = E[i]
        BY <3>5, <4>5
      <4> QED BY <4>3, <4>5, <4>6
    <3>10. ASSUME NEW u \in ThreadsOf(w)
           PROVE  /\ covers'[u] <= overdue[w] - c
                  /\ pc'[u] # "serving" =>
                       \A i \in 1 .. covers'[u] : F[i] \subseteq OnDisk' \cup batch'[u].r
      <4>1. u \in Threads /\ covers[u] \in Nat /\ covers[u] <= overdue[w]
        BY <1>0, <1>t, <3>10 DEF Epochs, ThreadsOf, TypeOK
      <4>2. covers'[u] = Left(covers[u])
        BY <3>3
      <4>3. covers'[u] <= overdue[w] - c
        BY <1>2, <3>1, <4>1, <4>2
      <4>4. ASSUME pc'[u] # "serving", NEW i \in 1 .. covers'[u]
            PROVE  F[i] \subseteq OnDisk' \cup batch'[u].r
        <5>1. u # t /\ pc[u] # "serving" /\ batch'[u] = batch[u]
          BY <3>3, <4>1, <4>4
        <5>2. i \in 1 .. n /\ i + c \in 1 .. covers[u]
          BY <1>2, <3>1, <4>1, <4>2, <4>3, <4>4
        <5>3. F[i] = E[i + c]
          BY <3>5, <5>2
        <5>4. E[i + c] \subseteq OnDisk \cup batch[u].r
          BY <1>0, <5>1, <5>2 DEF Epochs
        <5> QED BY <1>1, <5>1, <5>3, <5>4
      <4> QED BY <4>3, <4>4
    <3>11. overdue'[w] + 1 = n
      BY <1>2, <3>1, <3>3
    <3>12. Epochs(w, F)'
      <4>1. ThreadsOf(w)' = ThreadsOf(w) /\ EpochBound' = EpochBound
        BY DEF ThreadsOf, EpochBound
      <4> HIDE DEF n, c
      <4> QED BY <3>3, <3>6, <3>7, <3>8, <3>9, <3>10, <3>11, <4>1 DEF Epochs
    <3> QED BY <3>12
  <2> QED BY <2>1, <2>2
<1>12. ASSUME NEW t \in Threads,
              \/ AcquireFlock(t) \/ AppendLine(t) \/ CompactLoad(t) \/ CompactWrite(t)
              \/ CompactRemove(t) \/ ReleaseFlock(t)
       PROVE  \E F : Epochs(w, F)'
  <2>1. UNCHANGED <<overdue, calls, released, pending, covers, batch>> /\ pc[t] # "serving"
    BY <1>12, <1>t DEF TypeOK, AcquireFlock, AppendLine, CompactLoad, CompactWrite, CompactRemove,
       ReleaseFlock, store, history
  <2>2. \A u \in Threads : u = t \/ pc'[u] = pc[u]
    BY <1>12, <1>t DEF TypeOK, AcquireFlock, AppendLine, CompactLoad, CompactWrite, CompactRemove,
       ReleaseFlock
  <2> QED BY <1>3, <2>1, <2>2 DEF ThreadsOf
<1>13. ASSUME NEW t \in Threads, FailAppend(t) \/ TearAppend(t) \/ FailCompact(t)
       PROVE  \E F : Epochs(w, F)'
  <2>1. UNCHANGED <<overdue, calls, released, pending>>
    BY <1>13, <1>t DEF TypeOK, FailAppend, TearAppend, FailCompact, Abandon, store
  <2>2. \A u \in Threads : Reckoned(u)
    BY <1>13, <1>t DEF TypeOK, FailAppend, TearAppend, FailCompact, Abandon
  <2> QED BY <1>3, <2>1, <2>2 DEF ThreadsOf
<1> QED
  BY <1>4, <1>5, <1>6, <1>7, <1>8, <1>9, <1>10, <1>11, <1>12, <1>13 DEF Next

\* The reckoning holds initially and every step preserves it.
LEMMA LossInductive ==
    /\ Init => LossInv
    /\ (DurableInv /\ MemoryInv /\ LossInv) /\ [Next]_vars
         => (DurableInv /\ MemoryInv /\ LossInv)'
<1>1. ASSUME Init
      PROVE  LossInv
  <2>1. CallsBelowLimit
    BY <1>1, SaveEveryAssumption DEF Init, CallsBelowLimit
  <2>2. CarriedKept
    BY <1>1, FS_EmptySet, BoundsAssumption DEF Init, CarriedKept
  <2>3. ASSUME NEW w \in Workers
        PROVE  \E F : Epochs(w, F)
    <3>1. PICK F : F = [i \in {1} |-> {}]
      OBVIOUS
    <3>2. \A i \in 1 .. 1 : F[i] = {}
      BY <3>1
    <3>3. IsFiniteSet({}) /\ Cardinality({}) = 0
      BY FS_EmptySet
    <3>4. /\ overdue[w] + 1 = 1 /\ overdue[w] = 0 /\ calls[w] = 0 /\ released[w] = {}
          /\ \A t \in ThreadsOf(w) : covers[t] = 0
      BY <1>1 DEF Init, ThreadsOf
    <3>5. Cardinality(F[1]) <= ValuesPerRequest * calls[w]
      BY <3>2, <3>3, <3>4, BoundsAssumption
    <3>6. Epochs(w, F)
      BY <3>2, <3>3, <3>4, <3>5 DEF Epochs
    <3> QED BY <3>6
  <2> QED BY <2>1, <2>2, <2>3 DEF LossInv, EpochsKept
<1>2. ASSUME DurableInv, MemoryInv, LossInv, [Next]_vars
      PROVE  (DurableInv /\ MemoryInv /\ LossInv)'
  <2>1. DurableInv' /\ MemoryInv'
    BY <1>2, MemoryInductive
  <2> QED
    BY <1>2, <2>1, NextCalls, NextCarried, NextEpochs DEF LossInv, DurableInv
<1> QED
  BY <1>1, <1>2

\* A worker dying at any moment loses the answered tokens of at most
\* SaveEvery - 1 requests, and of SaveEvery - 1 more for every save under way
\* or failed that no good one has made up for, for any number of workers and
\* threads.
THEOREM LossIsBounded == Spec => []DebounceLossBound
<1>1. ASSUME DurableInv, LossInv
      PROVE  DebounceLossBound
  <2> SUFFICES ASSUME NEW w \in Workers
               PROVE  Cardinality(released[w] \ (Recoverable \cup glued)) <=
                        ValuesPerRequest * (SaveEvery - 1) * (1 + overdue[w])
    BY DEF DebounceLossBound
  <2>1. PICK E : Epochs(w, E)
    BY <1>1 DEF LossInv, EpochsKept
  <2> QED BY <1>1, <2>1, EpochsBoundLoss DEF DurableInv, LossInv, OnDisk, EpochBound
<1> QED
  BY <1>1, MemoryInductive, LossInductive, PTL DEF Spec

=============================================================================
