-------------------------- MODULE RemoteStoreProofs --------------------------
(***************************************************************************)
(* Proofs about RemoteStore, for every set of workers and values, every    *)
(* time limit below the waiting time, and any number of faults.            *)
(***************************************************************************)
EXTENDS RemoteStore, TLAPS

-----------------------------------------------------------------------------
(* The inductive invariant.                                                *)

\* Each phase belongs to one of the two backends.
PhaseFitsBackend ==
    \A w \in Workers :
        /\ pc[w] = "hset" => backend = "redis"
        /\ pc[w] \in {"acquire", "take"} \cup Section => backend = "vault"

\* While a worker that was not overtaken is in its section, the lock is not
\* free, and whoever else it names is not in a section.
HolderNamed ==
    \A w \in Workers :
        InSection(w) /\ w \notin shared =>
            /\ lock.owner # Nobody
            /\ lock.owner = w \/ ~InSection(lock.owner)

\* What a worker has read of the lock's latest version is still so.
ReadIsCurrent ==
    \A w \in current :
        /\ pc[w] = "take" => IsFree(lock)
        /\ pc[w] = "release" => lock.owner = w

LockInv == OneHolder /\ HolderNamed /\ ReadIsCurrent

\* Values with a forward entry, or known to have lost it; values with a
\* reverse entry stored or about to be, or known to have lost it.
Kept == fwd \cup excused
Resolvable == rev \cup InFlight \cup excused

\* Reverse entries have their forward entries, in the storage and in memory.
ReverseHasForward ==
    /\ rev \subseteq Kept
    /\ \A w \in Workers :
        /\ mem[w].r \subseteq mem[w].f \cup Kept
        /\ pc[w] = "writeF" => image[w].r \subseteq image[w].f \cup Kept
        /\ pc[w] = "writeR" => Merged(w).f \cup Merged(w).r \subseteq Kept

\* A worker that is starting has not loaded the reverse map.
NotLoaded == \A w \in Workers : pc[w] \in {"down", "starting"} => mem[w].r = {}

\* Forward entries that were loaded can be resolved.
ImageResolves ==
    \A w \in Workers :
        pc[w] \in {"loadR", "writeF", "writeR"} => image[w].f \subseteq Resolvable

\* The replica holds both entries of a value, or a fault has cut one.
ReplicaPaired ==
    /\ replica.f \subseteq replica.r \cup excused
    /\ replica.r \subseteq replica.f \cup excused

\* What a holder that was not overtaken has loaded is still all there is.
ImageCurrent ==
    \A w \in Workers \ shared :
        /\ pc[w] \in {"loadR", "writeF"} => fwd \subseteq image[w].f
        /\ pc[w] \in {"writeF", "writeR"} => rev \subseteq image[w].r

DataInv ==
    /\ NotLoaded /\ ReverseHasForward /\ ImageResolves /\ ReplicaPaired /\ ImageCurrent
    /\ SavedStays /\ AnswersResolve /\ StoredResolve

\* A lock that is freed is freed by its holder: the body of ReleasesOwnLock.
FreedByHolder ==
    \A w \in Workers : lock.owner = w /\ lock'.owner = Nobody => pc[w] = "release"

\* A worker that gives up has been passed by: the body of NoNeedlessTimeout.
NoTimeoutBefore ==
    \A w \in Workers :
        /\ pc[w] \in {"acquire", "take"}
        /\ pc'[w] = "idle"
        /\ faults' = faults
        => w \in contended

\* A waiter that saw no write of the lock has read its latest version, and
\* has waited no longer than the lock is old.
WaitExplained ==
    \A w \in Workers \ contended :
        /\ pc[w] = "take" => w \in current
        /\ pc[w] = "acquire" => waited[w] <= lock.age \/ lock.age > TTL \/ lock.owner = Nobody

IInv == TypeOK /\ PhaseFitsBackend /\ LockInv /\ DataInv /\ WaitExplained

-----------------------------------------------------------------------------
(* Type correctness.                                                       *)

\* A write that raised leads out of the section, or back from the transaction.
LEMMA UnheardMoves ==
    ASSUME NEW w \in Workers, WriteUnheard(w)
    PROVE  \/ pc[w] = "hset" /\ pc' = [pc EXCEPT ![w] = "idle"]
           \/ pc[w] \in {"writeF", "writeR"} /\ pc' = [pc EXCEPT ![w] = "unlock"]
  BY DEF WriteUnheard, At

\* The initial state is well typed.
LEMMA TypeInit == Init => TypeOK
  BY LimitsAssumption DEF Init, TypeOK, Phases, Empty, Free

\* Every step keeps the types.
LEMMA TypeStep ==
    TypeOK /\ [Next]_vars => TypeOK'
<1> SUFFICES ASSUME TypeOK, [Next]_vars PROVE TypeOK'
  OBVIOUS
<1>1. ASSUME NEW w \in Workers, StartForward(w) PROVE TypeOK'
  BY <1>1 DEF TypeOK, Phases, StartForward, At, store, locking, history
<1>2. ASSUME NEW w \in Workers, StartReverse(w) PROVE TypeOK'
  BY <1>2 DEF TypeOK, Phases, StartReverse, At, store, locking, history
<1>3. ASSUME NEW w \in Workers, NEW v \in Values, Request(w, v) PROVE TypeOK'
  <2>1. mem' \in [Workers -> [f : SUBSET Values, r : SUBSET Values]]
    <3>1. CASE v \in mem[w].f
      BY <1>3, <3>1 DEF TypeOK, Request
    <3>2. CASE v \notin mem[w].f
      <4>1. mem[w].f \subseteq Values /\ mem[w].r \subseteq Values
        BY DEF TypeOK
      <4> DEFINE more == [f |-> mem[w].f \cup {v}, r |-> mem[w].r \cup {v}]
      <4>2. more \in [f : SUBSET Values, r : SUBSET Values]
        BY <4>1
      <4>3. mem' = [mem EXCEPT ![w] = more]
        BY <1>3, <3>2 DEF Request
      <4> HIDE DEF more
      <4> QED
        BY <4>2, <4>3 DEF TypeOK
    <3> QED
      BY <3>1, <3>2
  <2>2. pc' \in [Workers -> Phases]
    BY <1>3 DEF TypeOK, Request, At, Phases
  <2> QED
    BY <1>3, <2>1, <2>2, LimitsAssumption DEF TypeOK, Request, At, store, locking
<1>4. ASSUME NEW w \in Workers, HSet(w) PROVE TypeOK'
  BY <1>4 DEF TypeOK, Phases, HSet, At, locking
<1>5. ASSUME NEW w \in Workers, ReadFree(w) PROVE TypeOK'
  BY <1>5 DEF TypeOK, Phases, ReadFree, At, store, worker, history
<1>6. ASSUME NEW w \in Workers, GiveUp(w) PROVE TypeOK'
  BY <1>6 DEF TypeOK, Phases, GiveUp, At, store, locking, worker, history
<1>7. ASSUME NEW w \in Workers, Take(w) PROVE TypeOK'
  BY <1>7, LimitsAssumption DEF TypeOK, Phases, Section, Take, At, store, WriteLock, Waiting,
     Others
<1>8. ASSUME NEW w \in Workers, TakeRefused(w) PROVE TypeOK'
  BY <1>8 DEF TypeOK, Phases, TakeRefused, At, store, locking, worker, history
<1>9. ASSUME NEW w \in Workers, TakeFails(w) PROVE TypeOK'
  <2>1. CASE WriteLock([owner |-> w, age |-> 0])
    BY <1>9, <2>1, LimitsAssumption DEF TypeOK, Phases, TakeFails, At, store, worker,
       WriteLock, Waiting
  <2>2. CASE UNCHANGED <<locking, contended>>
    BY <1>9, <2>2, LimitsAssumption DEF TypeOK, Phases, TakeFails, At, store, worker, locking
  <2> QED
    BY <1>9, <2>1, <2>2 DEF TakeFails
<1>10. ASSUME NEW w \in Workers, LoadForward(w) PROVE TypeOK'
  BY <1>10 DEF TypeOK, Phases, Section, LoadForward, At, store, locking, history
<1>11. ASSUME NEW w \in Workers, LoadReverse(w) PROVE TypeOK'
  BY <1>11 DEF TypeOK, Phases, Section, LoadReverse, At, store, locking, history
<1>12. ASSUME NEW w \in Workers, WriteForward(w) PROVE TypeOK'
  BY <1>12 DEF TypeOK, Phases, Section, WriteForward, At, locking, worker, Merged
<1>13. ASSUME NEW w \in Workers, WriteReverse(w) PROVE TypeOK'
  <2>1. Merged(w) \in [f : SUBSET Values, r : SUBSET Values]
    BY DEF TypeOK, Merged
  <2>2. rev' \subseteq Values /\ acked' \subseteq Values /\ excused' \subseteq Values
    BY <1>13, <2>1 DEF TypeOK, WriteReverse
  <2>3. mem' \in [Workers -> [f : SUBSET Values, r : SUBSET Values]]
    BY <1>13, <2>1 DEF TypeOK, WriteReverse
  <2>4. image' \in [Workers -> [f : SUBSET Values, r : SUBSET Values]]
    BY <1>13 DEF TypeOK, WriteReverse, Empty
  <2>5. pc' \in [Workers -> Phases]
    BY <1>13 DEF TypeOK, WriteReverse, At, Phases, Section
  <2> QED
    BY <1>13, <2>3, <2>4, <2>5 DEF TypeOK, WriteReverse, locking
<1>14. ASSUME NEW w \in Workers, ReadOwner(w) PROVE TypeOK'
  BY <1>14 DEF TypeOK, Phases, Section, ReadOwner, At, store, worker, history
<1>15. ASSUME NEW w \in Workers, Release(w) PROVE TypeOK'
  BY <1>15, LimitsAssumption DEF TypeOK, Phases, Release, At, store, locking, worker, WriteLock,
     Waiting, Free
<1>16. ASSUME NEW w \in Workers, CallFails(w) PROVE TypeOK'
  BY <1>16, LimitsAssumption DEF TypeOK, Phases, Section, CallFails, store, locking, Cut, Empty
<1>17. ASSUME NEW w \in Workers, Crash(w) PROVE TypeOK'
  BY <1>17, LimitsAssumption DEF TypeOK, Phases, Crash, store, Cut, Empty
<1>18. CASE Replicate
  BY <1>18 DEF TypeOK, Replicate, locking, worker, history
<1>19. CASE Failover
  BY <1>19, LimitsAssumption DEF TypeOK, Failover, locking, worker
<1>20. CASE Tick
  BY <1>20, LimitsAssumption DEF TypeOK, Tick, store, history
<1>21. CASE UNCHANGED vars
  BY <1>21 DEF TypeOK, vars, store, locking, worker, history
<1>22. ASSUME NEW w \in Workers, WriteUnheard(w) PROVE TypeOK'
  <2>1. pc' \in [Workers -> Phases]
    BY <1>22, UnheardMoves DEF TypeOK, Phases, Section
  <2>2. Merged(w).f \subseteq Values /\ Merged(w).r \subseteq Values /\ pending[w] \subseteq Values
    BY DEF TypeOK, Merged
  <2>3. fwd' \subseteq Values /\ rev' \subseteq Values /\ excused' \subseteq Values
    BY <1>22, <2>2 DEF TypeOK, WriteUnheard
  <2>4. image' \in [Workers -> [f : SUBSET Values, r : SUBSET Values]]
    BY <1>22 DEF TypeOK, WriteUnheard, Empty
  <2>5. faults' \in 0 .. MaxFaults
    BY <1>22, LimitsAssumption DEF TypeOK, WriteUnheard
  <2> QED
    BY <1>22, <2>1, <2>3, <2>4, <2>5 DEF TypeOK, WriteUnheard, locking
<1> QED
  BY <1>1, <1>2, <1>3, <1>4, <1>5, <1>6, <1>7, <1>8, <1>9, <1>10, <1>11, <1>12, <1>13, <1>14,
     <1>15, <1>16, <1>17, <1>18, <1>19, <1>20, <1>21, <1>22 DEF Next, Step

-----------------------------------------------------------------------------
(* The lock.                                                               *)

\* No worker is in a phase of the other backend.
LEMMA PhaseStep ==
    TypeOK /\ PhaseFitsBackend /\ [Next]_vars => PhaseFitsBackend'
<1> SUFFICES ASSUME TypeOK /\ PhaseFitsBackend, [Next]_vars PROVE PhaseFitsBackend'
  OBVIOUS
<1>1. ASSUME NEW w \in Workers, StartForward(w) PROVE PhaseFitsBackend'
  BY <1>1 DEF Section, PhaseFitsBackend, StartForward, At
<1>2. ASSUME NEW w \in Workers, StartReverse(w) PROVE PhaseFitsBackend'
  BY <1>2 DEF Section, PhaseFitsBackend, StartReverse, At
<1>3. ASSUME NEW w \in Workers, NEW v \in Values, Request(w, v) PROVE PhaseFitsBackend'
  BY <1>3 DEF TypeOK, Section, PhaseFitsBackend, Request, At
<1>4. ASSUME NEW w \in Workers, HSet(w) PROVE PhaseFitsBackend'
  BY <1>4 DEF Section, PhaseFitsBackend, HSet, At
<1>5. ASSUME NEW w \in Workers, ReadFree(w) PROVE PhaseFitsBackend'
  BY <1>5 DEF PhaseFitsBackend, ReadFree, At
<1>6. ASSUME NEW w \in Workers, GiveUp(w) PROVE PhaseFitsBackend'
  BY <1>6 DEF PhaseFitsBackend, GiveUp, At
<1>7. ASSUME NEW w \in Workers, Take(w) PROVE PhaseFitsBackend'
  BY <1>7 DEF PhaseFitsBackend, Take, At
<1>8. ASSUME NEW w \in Workers, TakeRefused(w) PROVE PhaseFitsBackend'
  BY <1>8 DEF PhaseFitsBackend, TakeRefused, At
<1>9. ASSUME NEW w \in Workers, TakeFails(w) PROVE PhaseFitsBackend'
  BY <1>9 DEF PhaseFitsBackend, TakeFails, At
<1>10. ASSUME NEW w \in Workers, LoadForward(w) PROVE PhaseFitsBackend'
  BY <1>10 DEF Section, PhaseFitsBackend, LoadForward, At
<1>11. ASSUME NEW w \in Workers, LoadReverse(w) PROVE PhaseFitsBackend'
  BY <1>11 DEF Section, PhaseFitsBackend, LoadReverse, At
<1>12. ASSUME NEW w \in Workers, WriteForward(w) PROVE PhaseFitsBackend'
  BY <1>12 DEF Section, PhaseFitsBackend, WriteForward, At
<1>13. ASSUME NEW w \in Workers, WriteReverse(w) PROVE PhaseFitsBackend'
  BY <1>13 DEF Section, PhaseFitsBackend, WriteReverse, At
<1>14. ASSUME NEW w \in Workers, ReadOwner(w) PROVE PhaseFitsBackend'
  BY <1>14 DEF Section, PhaseFitsBackend, ReadOwner, At
<1>15. ASSUME NEW w \in Workers, Release(w) PROVE PhaseFitsBackend'
  BY <1>15 DEF Section, PhaseFitsBackend, Release, At
<1>16. ASSUME NEW w \in Workers, CallFails(w) PROVE PhaseFitsBackend'
  BY <1>16 DEF Section, PhaseFitsBackend, CallFails
<1>17. ASSUME NEW w \in Workers, Crash(w) PROVE PhaseFitsBackend'
  BY <1>17 DEF Section, PhaseFitsBackend, Crash
<1>18. CASE Replicate
  BY <1>18 DEF PhaseFitsBackend, Replicate
<1>19. CASE Failover
  BY <1>19 DEF PhaseFitsBackend, Failover
<1>20. CASE Tick
  BY <1>20 DEF PhaseFitsBackend, Tick
<1>21. CASE UNCHANGED vars
  BY <1>21 DEF PhaseFitsBackend, vars
<1>22. ASSUME NEW w \in Workers, WriteUnheard(w) PROVE PhaseFitsBackend'
  <2>0. UNCHANGED backend
    BY <1>22 DEF WriteUnheard, locking
  <2>1. CASE pc[w] = "hset" /\ pc' = [pc EXCEPT ![w] = "idle"]
    BY <2>0, <2>1 DEF Section, PhaseFitsBackend
  <2>2. CASE pc[w] \in {"writeF", "writeR"} /\ pc' = [pc EXCEPT ![w] = "unlock"]
    BY <2>0, <2>2 DEF Section, PhaseFitsBackend
  <2> QED
    BY <1>22, <2>1, <2>2, UnheardMoves
<1> QED
  BY <1>1, <1>2, <1>3, <1>4, <1>5, <1>6, <1>7, <1>8, <1>9, <1>10, <1>11, <1>12, <1>13, <1>14,
     <1>15, <1>16, <1>17, <1>18, <1>19, <1>20, <1>21, <1>22 DEF Next, Step

\* A worker that takes the lock is alone in its section, or shares it from then on.
LEMMA OneStep ==
    TypeOK /\ LockInv /\ [Next]_vars => OneHolder'
<1> SUFFICES ASSUME TypeOK /\ LockInv, [Next]_vars PROVE OneHolder'
  OBVIOUS
<1>1. ASSUME NEW w \in Workers, StartForward(w) PROVE OneHolder'
  BY <1>1 DEF Section, LockInv, OneHolder, InSection, StartForward, At, history
<1>2. ASSUME NEW w \in Workers, StartReverse(w) PROVE OneHolder'
  BY <1>2 DEF Section, LockInv, OneHolder, InSection, StartReverse, At, history
<1>3. ASSUME NEW w \in Workers, NEW v \in Values, Request(w, v) PROVE OneHolder'
  BY <1>3 DEF Section, LockInv, OneHolder, InSection, Request, At
<1>4. ASSUME NEW w \in Workers, HSet(w) PROVE OneHolder'
  BY <1>4 DEF Section, LockInv, OneHolder, InSection, HSet, At
<1>5. ASSUME NEW w \in Workers, ReadFree(w) PROVE OneHolder'
  BY <1>5 DEF Section, LockInv, OneHolder, InSection, ReadFree, At, history
<1>6. ASSUME NEW w \in Workers, GiveUp(w) PROVE OneHolder'
  BY <1>6 DEF Section, LockInv, OneHolder, InSection, GiveUp, At, history
<1>7. ASSUME NEW w \in Workers, Take(w) PROVE OneHolder'
  BY <1>7 DEF LockInv, OneHolder, HolderNamed, ReadIsCurrent, InSection, IsFree, Take, At,
     CanWrite, Others
<1>8. ASSUME NEW w \in Workers, TakeRefused(w) PROVE OneHolder'
  BY <1>8 DEF Section, LockInv, OneHolder, InSection, TakeRefused, At, history
<1>9. ASSUME NEW w \in Workers, TakeFails(w) PROVE OneHolder'
  BY <1>9 DEF Section, LockInv, OneHolder, InSection, TakeFails, At
<1>10. ASSUME NEW w \in Workers, LoadForward(w) PROVE OneHolder'
  BY <1>10 DEF Section, LockInv, OneHolder, InSection, LoadForward, At, history
<1>11. ASSUME NEW w \in Workers, LoadReverse(w) PROVE OneHolder'
  BY <1>11 DEF Section, LockInv, OneHolder, InSection, LoadReverse, At, history
<1>12. ASSUME NEW w \in Workers, WriteForward(w) PROVE OneHolder'
  BY <1>12 DEF Section, LockInv, OneHolder, InSection, WriteForward, At
<1>13. ASSUME NEW w \in Workers, WriteReverse(w) PROVE OneHolder'
  BY <1>13 DEF Section, LockInv, OneHolder, InSection, WriteReverse, At
<1>14. ASSUME NEW w \in Workers, ReadOwner(w) PROVE OneHolder'
  BY <1>14 DEF Section, LockInv, OneHolder, InSection, ReadOwner, At, history
<1>15. ASSUME NEW w \in Workers, Release(w) PROVE OneHolder'
  BY <1>15 DEF Section, LockInv, OneHolder, InSection, Release, At
<1>16. ASSUME NEW w \in Workers, CallFails(w) PROVE OneHolder'
  BY <1>16 DEF Section, LockInv, OneHolder, InSection, CallFails
<1>17. ASSUME NEW w \in Workers, Crash(w) PROVE OneHolder'
  BY <1>17 DEF Section, LockInv, OneHolder, InSection, Crash
<1>18. CASE Replicate
  BY <1>18 DEF LockInv, OneHolder, InSection, Replicate, history
<1>19. CASE Failover
  BY <1>19 DEF LockInv, OneHolder, InSection, Failover
<1>20. CASE Tick
  BY <1>20 DEF LockInv, OneHolder, InSection, Tick, history
<1>21. CASE UNCHANGED vars
  BY <1>21 DEF LockInv, OneHolder, InSection, vars, history
<1>22. ASSUME NEW w \in Workers, WriteUnheard(w) PROVE OneHolder'
  <2>0. UNCHANGED shared
    BY <1>22 DEF WriteUnheard, locking
  <2>1. CASE pc[w] = "hset" /\ pc' = [pc EXCEPT ![w] = "idle"]
    BY <2>0, <2>1 DEF Section, LockInv, OneHolder, InSection
  <2>2. CASE pc[w] \in {"writeF", "writeR"} /\ pc' = [pc EXCEPT ![w] = "unlock"]
    BY <2>0, <2>2 DEF Section, LockInv, OneHolder, InSection
  <2> QED
    BY <1>22, <2>1, <2>2, UnheardMoves
<1> QED
  BY <1>1, <1>2, <1>3, <1>4, <1>5, <1>6, <1>7, <1>8, <1>9, <1>10, <1>11, <1>12, <1>13, <1>14,
     <1>15, <1>16, <1>17, <1>18, <1>19, <1>20, <1>21, <1>22 DEF Next, Step

\* The lock names the holder until it is taken over, and its holder alone frees it.
LEMMA NamedStep ==
    TypeOK /\ LockInv /\ [Next]_vars => HolderNamed'
<1> SUFFICES ASSUME TypeOK /\ LockInv, [Next]_vars PROVE HolderNamed'
  OBVIOUS
<1>1. ASSUME NEW w \in Workers, StartForward(w) PROVE HolderNamed'
  BY <1>1 DEF Section, LockInv, HolderNamed, InSection, StartForward, At, locking, history
<1>2. ASSUME NEW w \in Workers, StartReverse(w) PROVE HolderNamed'
  BY <1>2 DEF Section, LockInv, HolderNamed, InSection, StartReverse, At, locking, history
<1>3. ASSUME NEW w \in Workers, NEW v \in Values, Request(w, v) PROVE HolderNamed'
  BY <1>3 DEF Section, LockInv, HolderNamed, InSection, Request, At, locking
<1>4. ASSUME NEW w \in Workers, HSet(w) PROVE HolderNamed'
  BY <1>4 DEF Section, LockInv, HolderNamed, InSection, HSet, At, locking
<1>5. ASSUME NEW w \in Workers, ReadFree(w) PROVE HolderNamed'
  BY <1>5 DEF Section, LockInv, HolderNamed, InSection, ReadFree, At, history
<1>6. ASSUME NEW w \in Workers, GiveUp(w) PROVE HolderNamed'
  BY <1>6 DEF Section, LockInv, HolderNamed, InSection, GiveUp, At, locking, history
<1>7. ASSUME NEW w \in Workers, Take(w) PROVE HolderNamed'
  BY <1>7, NobodyAssumption DEF LockInv, HolderNamed, ReadIsCurrent, InSection, IsFree, Take,
     At, WriteLock, CanWrite, Others
<1>8. ASSUME NEW w \in Workers, TakeRefused(w) PROVE HolderNamed'
  BY <1>8 DEF Section, LockInv, HolderNamed, InSection, TakeRefused, At, locking, history
<1>9. ASSUME NEW w \in Workers, TakeFails(w) PROVE HolderNamed'
  <2>1. CASE WriteLock([owner |-> w, age |-> 0])
    BY <1>9, <2>1, NobodyAssumption DEF Section, HolderNamed, InSection, TakeFails, At,
       WriteLock
  <2>2. CASE UNCHANGED <<locking, contended>>
    BY <1>9, <2>2 DEF Section, LockInv, HolderNamed, InSection, TakeFails, At, locking
  <2> QED
    BY <1>9, <2>1, <2>2 DEF TakeFails
<1>10. ASSUME NEW w \in Workers, LoadForward(w) PROVE HolderNamed'
  BY <1>10 DEF Section, LockInv, HolderNamed, InSection, LoadForward, At, locking, history
<1>11. ASSUME NEW w \in Workers, LoadReverse(w) PROVE HolderNamed'
  BY <1>11 DEF Section, LockInv, HolderNamed, InSection, LoadReverse, At, locking, history
<1>12. ASSUME NEW w \in Workers, WriteForward(w) PROVE HolderNamed'
  BY <1>12 DEF Section, LockInv, HolderNamed, InSection, WriteForward, At, locking
<1>13. ASSUME NEW w \in Workers, WriteReverse(w) PROVE HolderNamed'
  BY <1>13 DEF Section, LockInv, HolderNamed, InSection, WriteReverse, At, locking
<1>14. ASSUME NEW w \in Workers, ReadOwner(w) PROVE HolderNamed'
  BY <1>14 DEF Section, LockInv, HolderNamed, InSection, ReadOwner, At, history
<1>15. ASSUME NEW w \in Workers, Release(w) PROVE HolderNamed'
  BY <1>15 DEF TypeOK, Section, LockInv, OneHolder, HolderNamed, InSection, Release, At
<1>16. ASSUME NEW w \in Workers, CallFails(w) PROVE HolderNamed'
  BY <1>16 DEF Section, LockInv, HolderNamed, InSection, CallFails, locking
<1>17. ASSUME NEW w \in Workers, Crash(w) PROVE HolderNamed'
  BY <1>17 DEF Section, LockInv, HolderNamed, InSection, Crash
<1>18. CASE Replicate
  BY <1>18 DEF LockInv, HolderNamed, InSection, Replicate, locking, history
<1>19. CASE Failover
  BY <1>19 DEF LockInv, HolderNamed, InSection, Failover, locking
<1>20. CASE Tick
  BY <1>20 DEF LockInv, HolderNamed, InSection, Tick, history
<1>21. CASE UNCHANGED vars
  BY <1>21 DEF LockInv, HolderNamed, InSection, vars, locking, history
<1>22. ASSUME NEW w \in Workers, WriteUnheard(w) PROVE HolderNamed'
  <2>0. UNCHANGED <<lock, shared>>
    BY <1>22 DEF WriteUnheard, locking
  <2>1. CASE pc[w] = "hset" /\ pc' = [pc EXCEPT ![w] = "idle"]
    BY <2>0, <2>1 DEF Section, LockInv, HolderNamed, InSection
  <2>2. CASE pc[w] \in {"writeF", "writeR"} /\ pc' = [pc EXCEPT ![w] = "unlock"]
    BY <2>0, <2>2 DEF Section, LockInv, HolderNamed, InSection
  <2> QED
    BY <1>22, <2>1, <2>2, UnheardMoves
<1> QED
  BY <1>1, <1>2, <1>3, <1>4, <1>5, <1>6, <1>7, <1>8, <1>9, <1>10, <1>11, <1>12, <1>13, <1>14,
     <1>15, <1>16, <1>17, <1>18, <1>19, <1>20, <1>21, <1>22 DEF Next, Step

\* A write of the lock makes what others have read of it outdated.
LEMMA ReadStep ==
    TypeOK /\ LockInv /\ [Next]_vars => ReadIsCurrent'
<1> SUFFICES ASSUME TypeOK /\ LockInv, [Next]_vars PROVE ReadIsCurrent'
  OBVIOUS
<1>1. ASSUME NEW w \in Workers, StartForward(w) PROVE ReadIsCurrent'
  BY <1>1 DEF LockInv, ReadIsCurrent, StartForward, At, locking
<1>2. ASSUME NEW w \in Workers, StartReverse(w) PROVE ReadIsCurrent'
  BY <1>2 DEF LockInv, ReadIsCurrent, StartReverse, At, locking
<1>3. ASSUME NEW w \in Workers, NEW v \in Values, Request(w, v) PROVE ReadIsCurrent'
  BY <1>3 DEF LockInv, ReadIsCurrent, Request, At, locking
<1>4. ASSUME NEW w \in Workers, HSet(w) PROVE ReadIsCurrent'
  BY <1>4 DEF LockInv, ReadIsCurrent, HSet, At, locking
<1>5. ASSUME NEW w \in Workers, ReadFree(w) PROVE ReadIsCurrent'
  BY <1>5 DEF LockInv, ReadIsCurrent, ReadFree, At
<1>6. ASSUME NEW w \in Workers, GiveUp(w) PROVE ReadIsCurrent'
  BY <1>6 DEF LockInv, ReadIsCurrent, GiveUp, At, locking
<1>7. ASSUME NEW w \in Workers, Take(w) PROVE ReadIsCurrent'
  BY <1>7 DEF ReadIsCurrent, Take, WriteLock
<1>8. ASSUME NEW w \in Workers, TakeRefused(w) PROVE ReadIsCurrent'
  BY <1>8 DEF LockInv, ReadIsCurrent, TakeRefused, At, locking
<1>9. ASSUME NEW w \in Workers, TakeFails(w) PROVE ReadIsCurrent'
  <2>1. CASE WriteLock([owner |-> w, age |-> 0])
    BY <1>9, <2>1 DEF ReadIsCurrent, TakeFails, WriteLock
  <2>2. CASE UNCHANGED <<locking, contended>>
    BY <1>9, <2>2 DEF LockInv, ReadIsCurrent, TakeFails, At, locking
  <2> QED
    BY <1>9, <2>1, <2>2 DEF TakeFails
<1>10. ASSUME NEW w \in Workers, LoadForward(w) PROVE ReadIsCurrent'
  BY <1>10 DEF LockInv, ReadIsCurrent, LoadForward, At, locking
<1>11. ASSUME NEW w \in Workers, LoadReverse(w) PROVE ReadIsCurrent'
  BY <1>11 DEF LockInv, ReadIsCurrent, LoadReverse, At, locking
<1>12. ASSUME NEW w \in Workers, WriteForward(w) PROVE ReadIsCurrent'
  BY <1>12 DEF LockInv, ReadIsCurrent, WriteForward, At, locking
<1>13. ASSUME NEW w \in Workers, WriteReverse(w) PROVE ReadIsCurrent'
  BY <1>13 DEF LockInv, ReadIsCurrent, WriteReverse, At, locking
<1>14. ASSUME NEW w \in Workers, ReadOwner(w) PROVE ReadIsCurrent'
  BY <1>14 DEF LockInv, ReadIsCurrent, ReadOwner, At
<1>15. ASSUME NEW w \in Workers, Release(w) PROVE ReadIsCurrent'
  BY <1>15 DEF LockInv, ReadIsCurrent, Release, At, locking, WriteLock
<1>16. ASSUME NEW w \in Workers, CallFails(w) PROVE ReadIsCurrent'
  BY <1>16 DEF LockInv, ReadIsCurrent, CallFails, locking
<1>17. ASSUME NEW w \in Workers, Crash(w) PROVE ReadIsCurrent'
  BY <1>17 DEF LockInv, ReadIsCurrent, Crash
<1>18. CASE Replicate
  BY <1>18 DEF LockInv, ReadIsCurrent, Replicate, locking
<1>19. CASE Failover
  BY <1>19 DEF LockInv, ReadIsCurrent, Failover, locking
<1>20. CASE Tick
  BY <1>20 DEF LockInv, ReadIsCurrent, IsFree, Tick
<1>21. CASE UNCHANGED vars
  BY <1>21 DEF LockInv, ReadIsCurrent, vars, locking
<1>22. ASSUME NEW w \in Workers, WriteUnheard(w) PROVE ReadIsCurrent'
  <2>0. UNCHANGED <<lock, current>>
    BY <1>22 DEF WriteUnheard, locking
  <2>1. CASE pc[w] = "hset" /\ pc' = [pc EXCEPT ![w] = "idle"]
    BY <2>0, <2>1 DEF LockInv, ReadIsCurrent
  <2>2. CASE pc[w] \in {"writeF", "writeR"} /\ pc' = [pc EXCEPT ![w] = "unlock"]
    BY <2>0, <2>2 DEF LockInv, ReadIsCurrent
  <2> QED
    BY <1>22, <2>1, <2>2, UnheardMoves
<1> QED
  BY <1>1, <1>2, <1>3, <1>4, <1>5, <1>6, <1>7, <1>8, <1>9, <1>10, <1>11, <1>12, <1>13, <1>14,
     <1>15, <1>16, <1>17, <1>18, <1>19, <1>20, <1>21, <1>22 DEF Next, Step

\* The lock is freed by its holder at the end of its section.
LEMMA ReleaseStep ==
    TypeOK /\ LockInv /\ [Next]_vars => FreedByHolder
<1> SUFFICES ASSUME TypeOK /\ LockInv, [Next]_vars PROVE FreedByHolder
  OBVIOUS
<1>1. ASSUME NEW w \in Workers, StartForward(w) PROVE FreedByHolder
  BY <1>1, NobodyAssumption DEF FreedByHolder, StartForward, locking
<1>2. ASSUME NEW w \in Workers, StartReverse(w) PROVE FreedByHolder
  BY <1>2, NobodyAssumption DEF FreedByHolder, StartReverse, locking
<1>3. ASSUME NEW w \in Workers, NEW v \in Values, Request(w, v) PROVE FreedByHolder
  BY <1>3, NobodyAssumption DEF FreedByHolder, Request, locking
<1>4. ASSUME NEW w \in Workers, HSet(w) PROVE FreedByHolder
  BY <1>4, NobodyAssumption DEF FreedByHolder, HSet, locking
<1>5. ASSUME NEW w \in Workers, ReadFree(w) PROVE FreedByHolder
  BY <1>5, NobodyAssumption DEF FreedByHolder, ReadFree
<1>6. ASSUME NEW w \in Workers, GiveUp(w) PROVE FreedByHolder
  BY <1>6, NobodyAssumption DEF FreedByHolder, GiveUp, locking
<1>7. ASSUME NEW w \in Workers, Take(w) PROVE FreedByHolder
  BY <1>7, NobodyAssumption DEF FreedByHolder, Take, WriteLock
<1>8. ASSUME NEW w \in Workers, TakeRefused(w) PROVE FreedByHolder
  BY <1>8, NobodyAssumption DEF FreedByHolder, TakeRefused, locking
<1>9. ASSUME NEW w \in Workers, TakeFails(w) PROVE FreedByHolder
  <2>1. CASE WriteLock([owner |-> w, age |-> 0])
    BY <1>9, <2>1, NobodyAssumption DEF FreedByHolder, WriteLock
  <2>2. CASE UNCHANGED <<locking, contended>>
    BY <1>9, <2>2, NobodyAssumption DEF FreedByHolder, locking
  <2> QED
    BY <1>9, <2>1, <2>2 DEF TakeFails
<1>10. ASSUME NEW w \in Workers, LoadForward(w) PROVE FreedByHolder
  BY <1>10, NobodyAssumption DEF FreedByHolder, LoadForward, locking
<1>11. ASSUME NEW w \in Workers, LoadReverse(w) PROVE FreedByHolder
  BY <1>11, NobodyAssumption DEF FreedByHolder, LoadReverse, locking
<1>12. ASSUME NEW w \in Workers, WriteForward(w) PROVE FreedByHolder
  BY <1>12, NobodyAssumption DEF FreedByHolder, WriteForward, locking
<1>13. ASSUME NEW w \in Workers, WriteReverse(w) PROVE FreedByHolder
  BY <1>13, NobodyAssumption DEF FreedByHolder, WriteReverse, locking
<1>14. ASSUME NEW w \in Workers, ReadOwner(w) PROVE FreedByHolder
  BY <1>14, NobodyAssumption DEF FreedByHolder, ReadOwner
<1>15. ASSUME NEW w \in Workers, Release(w) PROVE FreedByHolder
  BY <1>15, NobodyAssumption DEF FreedByHolder, LockInv, ReadIsCurrent, Release, At, locking,
     CanWrite
<1>16. ASSUME NEW w \in Workers, CallFails(w) PROVE FreedByHolder
  BY <1>16, NobodyAssumption DEF FreedByHolder, CallFails, locking
<1>17. ASSUME NEW w \in Workers, Crash(w) PROVE FreedByHolder
  BY <1>17, NobodyAssumption DEF FreedByHolder, Crash
<1>18. CASE Replicate
  BY <1>18, NobodyAssumption DEF FreedByHolder, Replicate, locking
<1>19. CASE Failover
  BY <1>19, NobodyAssumption DEF FreedByHolder, Failover, locking
<1>20. CASE Tick
  BY <1>20 DEF FreedByHolder, Tick
<1>21. CASE UNCHANGED vars
  BY <1>21, NobodyAssumption DEF FreedByHolder, vars, locking
<1>22. ASSUME NEW w \in Workers, WriteUnheard(w) PROVE FreedByHolder
  BY <1>22, NobodyAssumption DEF FreedByHolder, WriteUnheard, locking
<1> QED
  BY <1>1, <1>2, <1>3, <1>4, <1>5, <1>6, <1>7, <1>8, <1>9, <1>10, <1>11, <1>12, <1>13, <1>14,
     <1>15, <1>16, <1>17, <1>18, <1>19, <1>20, <1>21, <1>22 DEF Next, Step

-----------------------------------------------------------------------------
(* Waiting.                                                                *)

\* A waiter sees the lock grow old with its own waiting, or sees it written.
LEMMA WaitStep ==
    TypeOK /\ LockInv /\ WaitExplained /\ [Next]_vars => WaitExplained'
<1> SUFFICES ASSUME TypeOK /\ LockInv /\ WaitExplained, [Next]_vars PROVE WaitExplained'
  OBVIOUS
<1>1. ASSUME NEW w \in Workers, StartForward(w) PROVE WaitExplained'
  BY <1>1 DEF WaitExplained, StartForward, At, locking, history
<1>2. ASSUME NEW w \in Workers, StartReverse(w) PROVE WaitExplained'
  BY <1>2 DEF WaitExplained, StartReverse, At, locking, history
<1>3. ASSUME NEW w \in Workers, NEW v \in Values, Request(w, v) PROVE WaitExplained'
  BY <1>3 DEF TypeOK, WaitExplained, Request, At, locking
<1>4. ASSUME NEW w \in Workers, HSet(w) PROVE WaitExplained'
  BY <1>4 DEF WaitExplained, HSet, At, locking
<1>5. ASSUME NEW w \in Workers, ReadFree(w) PROVE WaitExplained'
  BY <1>5 DEF WaitExplained, ReadFree, At, worker, history
<1>6. ASSUME NEW w \in Workers, GiveUp(w) PROVE WaitExplained'
  BY <1>6 DEF WaitExplained, GiveUp, At, locking, worker, history
<1>7. ASSUME NEW w \in Workers, Take(w) PROVE WaitExplained'
  BY <1>7 DEF WaitExplained, Waiting, Take, WriteLock
<1>8. ASSUME NEW w \in Workers, TakeRefused(w) PROVE WaitExplained'
  BY <1>8 DEF WaitExplained, TakeRefused, At, locking, worker, history, CanWrite
<1>9. ASSUME NEW w \in Workers, TakeFails(w) PROVE WaitExplained'
  <2>1. CASE WriteLock([owner |-> w, age |-> 0])
    BY <1>9, <2>1 DEF WaitExplained, Waiting, TakeFails, WriteLock
  <2>2. CASE UNCHANGED <<locking, contended>>
    BY <1>9, <2>2 DEF TypeOK, LockInv, ReadIsCurrent, WaitExplained, IsFree, CanWrite,
       TakeFails, At, worker, locking
  <2> QED
    BY <1>9, <2>1, <2>2 DEF TakeFails
<1>10. ASSUME NEW w \in Workers, LoadForward(w) PROVE WaitExplained'
  BY <1>10 DEF WaitExplained, LoadForward, At, locking, history
<1>11. ASSUME NEW w \in Workers, LoadReverse(w) PROVE WaitExplained'
  BY <1>11 DEF WaitExplained, LoadReverse, At, locking, history
<1>12. ASSUME NEW w \in Workers, WriteForward(w) PROVE WaitExplained'
  BY <1>12 DEF WaitExplained, WriteForward, At, locking, worker
<1>13. ASSUME NEW w \in Workers, WriteReverse(w) PROVE WaitExplained'
  BY <1>13 DEF WaitExplained, WriteReverse, At, locking
<1>14. ASSUME NEW w \in Workers, ReadOwner(w) PROVE WaitExplained'
  BY <1>14 DEF WaitExplained, ReadOwner, At, worker, history
<1>15. ASSUME NEW w \in Workers, Release(w) PROVE WaitExplained'
  BY <1>15 DEF WaitExplained, Waiting, Release, At, locking, worker, WriteLock
<1>16. ASSUME NEW w \in Workers, CallFails(w) PROVE WaitExplained'
  BY <1>16 DEF WaitExplained, CallFails, locking
<1>17. ASSUME NEW w \in Workers, Crash(w) PROVE WaitExplained'
  BY <1>17 DEF TypeOK, WaitExplained, Crash
<1>18. CASE Replicate
  BY <1>18 DEF WaitExplained, Replicate, locking, worker, history
<1>19. CASE Failover
  BY <1>19 DEF WaitExplained, Failover, locking, worker
<1>20. CASE Tick
  BY <1>20 DEF TypeOK, WaitExplained, Tick, history
<1>21. CASE UNCHANGED vars
  BY <1>21 DEF WaitExplained, vars, locking, worker, history
<1>22. ASSUME NEW w \in Workers, WriteUnheard(w) PROVE WaitExplained'
  <2>0. UNCHANGED <<lock, current, waited, contended>>
    BY <1>22 DEF WriteUnheard, locking
  <2>1. CASE pc[w] = "hset" /\ pc' = [pc EXCEPT ![w] = "idle"]
    BY <2>0, <2>1 DEF WaitExplained
  <2>2. CASE pc[w] \in {"writeF", "writeR"} /\ pc' = [pc EXCEPT ![w] = "unlock"]
    BY <2>0, <2>2 DEF WaitExplained
  <2> QED
    BY <1>22, <2>1, <2>2, UnheardMoves
<1> QED
  BY <1>1, <1>2, <1>3, <1>4, <1>5, <1>6, <1>7, <1>8, <1>9, <1>10, <1>11, <1>12, <1>13, <1>14,
     <1>15, <1>16, <1>17, <1>18, <1>19, <1>20, <1>21, <1>22 DEF Next, Step

\* A worker that gives up has seen the lock written.
LEMMA TimeoutStep ==
    TypeOK /\ WaitExplained /\ [Next]_vars => NoTimeoutBefore
<1> SUFFICES ASSUME TypeOK /\ WaitExplained, [Next]_vars PROVE NoTimeoutBefore
  OBVIOUS
<1>1. ASSUME NEW w \in Workers, StartForward(w) PROVE NoTimeoutBefore
  BY <1>1 DEF NoTimeoutBefore, StartForward, At
<1>2. ASSUME NEW w \in Workers, StartReverse(w) PROVE NoTimeoutBefore
  BY <1>2 DEF NoTimeoutBefore, StartReverse, At
<1>3. ASSUME NEW w \in Workers, NEW v \in Values, Request(w, v) PROVE NoTimeoutBefore
  BY <1>3 DEF NoTimeoutBefore, Request, At
<1>4. ASSUME NEW w \in Workers, HSet(w) PROVE NoTimeoutBefore
  BY <1>4 DEF NoTimeoutBefore, HSet, At
<1>5. ASSUME NEW w \in Workers, ReadFree(w) PROVE NoTimeoutBefore
  BY <1>5 DEF NoTimeoutBefore, ReadFree, At
<1>6. ASSUME NEW w \in Workers, GiveUp(w) PROVE NoTimeoutBefore
  BY <1>6, LimitsAssumption DEF NoTimeoutBefore, TypeOK, WaitExplained, IsFree, GiveUp, At
<1>7. ASSUME NEW w \in Workers, Take(w) PROVE NoTimeoutBefore
  BY <1>7 DEF NoTimeoutBefore, Take, At
<1>8. ASSUME NEW w \in Workers, TakeRefused(w) PROVE NoTimeoutBefore
  BY <1>8 DEF NoTimeoutBefore, WaitExplained, TakeRefused, At, CanWrite
<1>9. ASSUME NEW w \in Workers, TakeFails(w) PROVE NoTimeoutBefore
  BY <1>9 DEF NoTimeoutBefore, TypeOK, TakeFails
<1>10. ASSUME NEW w \in Workers, LoadForward(w) PROVE NoTimeoutBefore
  BY <1>10 DEF NoTimeoutBefore, LoadForward, At
<1>11. ASSUME NEW w \in Workers, LoadReverse(w) PROVE NoTimeoutBefore
  BY <1>11 DEF NoTimeoutBefore, LoadReverse, At
<1>12. ASSUME NEW w \in Workers, WriteForward(w) PROVE NoTimeoutBefore
  BY <1>12 DEF NoTimeoutBefore, WriteForward, At
<1>13. ASSUME NEW w \in Workers, WriteReverse(w) PROVE NoTimeoutBefore
  BY <1>13 DEF NoTimeoutBefore, WriteReverse, At
<1>14. ASSUME NEW w \in Workers, ReadOwner(w) PROVE NoTimeoutBefore
  BY <1>14 DEF NoTimeoutBefore, ReadOwner, At
<1>15. ASSUME NEW w \in Workers, Release(w) PROVE NoTimeoutBefore
  BY <1>15 DEF NoTimeoutBefore, Release, At
<1>16. ASSUME NEW w \in Workers, CallFails(w) PROVE NoTimeoutBefore
  BY <1>16 DEF NoTimeoutBefore, CallFails
<1>17. ASSUME NEW w \in Workers, Crash(w) PROVE NoTimeoutBefore
  BY <1>17 DEF NoTimeoutBefore, Crash
<1>18. CASE Replicate
  BY <1>18 DEF NoTimeoutBefore, Replicate
<1>19. CASE Failover
  BY <1>19 DEF NoTimeoutBefore, Failover
<1>20. CASE Tick
  BY <1>20 DEF NoTimeoutBefore, Tick
<1>21. CASE UNCHANGED vars
  BY <1>21 DEF NoTimeoutBefore, vars
<1>22. ASSUME NEW w \in Workers, WriteUnheard(w) PROVE NoTimeoutBefore
  BY <1>22 DEF NoTimeoutBefore, WriteUnheard, At
<1> QED
  BY <1>1, <1>2, <1>3, <1>4, <1>5, <1>6, <1>7, <1>8, <1>9, <1>10, <1>11, <1>12, <1>13, <1>14,
     <1>15, <1>16, <1>17, <1>18, <1>19, <1>20, <1>21, <1>22 DEF Next, Step

-----------------------------------------------------------------------------
(* The entries.                                                            *)

\* A forward entry is dropped only by a failover or an overtaken holder.
LEMMA KeptGrows ==
    TypeOK /\ PhaseFitsBackend /\ LockInv /\ DataInv /\ [Next]_vars => Kept \subseteq Kept'
<1> SUFFICES ASSUME TypeOK /\ PhaseFitsBackend /\ LockInv /\ DataInv, [Next]_vars
             PROVE Kept \subseteq Kept'
  OBVIOUS
<1>1. ASSUME NEW w \in Workers, StartForward(w) PROVE Kept \subseteq Kept'
  BY <1>1 DEF Kept, StartForward, store, history
<1>2. ASSUME NEW w \in Workers, StartReverse(w) PROVE Kept \subseteq Kept'
  BY <1>2 DEF Kept, StartReverse, store, history
<1>3. ASSUME NEW w \in Workers, NEW v \in Values, Request(w, v) PROVE Kept \subseteq Kept'
  BY <1>3 DEF Kept, Request, store
<1>4. ASSUME NEW w \in Workers, HSet(w) PROVE Kept \subseteq Kept'
  BY <1>4 DEF Kept, HSet
<1>5. ASSUME NEW w \in Workers, ReadFree(w) PROVE Kept \subseteq Kept'
  BY <1>5 DEF Kept, ReadFree, store, history
<1>6. ASSUME NEW w \in Workers, GiveUp(w) PROVE Kept \subseteq Kept'
  BY <1>6 DEF Kept, GiveUp, store, history
<1>7. ASSUME NEW w \in Workers, Take(w) PROVE Kept \subseteq Kept'
  BY <1>7 DEF Kept, Take, store
<1>8. ASSUME NEW w \in Workers, TakeRefused(w) PROVE Kept \subseteq Kept'
  BY <1>8 DEF Kept, TakeRefused, store, history
<1>9. ASSUME NEW w \in Workers, TakeFails(w) PROVE Kept \subseteq Kept'
  BY <1>9 DEF Kept, TakeFails, store
<1>10. ASSUME NEW w \in Workers, LoadForward(w) PROVE Kept \subseteq Kept'
  BY <1>10 DEF Kept, LoadForward, store, history
<1>11. ASSUME NEW w \in Workers, LoadReverse(w) PROVE Kept \subseteq Kept'
  BY <1>11 DEF Kept, LoadReverse, store, history
<1>12. ASSUME NEW w \in Workers, WriteForward(w) PROVE Kept \subseteq Kept'
  BY <1>12 DEF DataInv, ImageCurrent, Kept, Merged, WriteForward, At
<1>13. ASSUME NEW w \in Workers, WriteReverse(w) PROVE Kept \subseteq Kept'
  BY <1>13 DEF Kept, WriteReverse
<1>14. ASSUME NEW w \in Workers, ReadOwner(w) PROVE Kept \subseteq Kept'
  BY <1>14 DEF Kept, ReadOwner, store, history
<1>15. ASSUME NEW w \in Workers, Release(w) PROVE Kept \subseteq Kept'
  BY <1>15 DEF Kept, Release, store
<1>16. ASSUME NEW w \in Workers, CallFails(w) PROVE Kept \subseteq Kept'
  BY <1>16 DEF Kept, CallFails, store
<1>17. ASSUME NEW w \in Workers, Crash(w) PROVE Kept \subseteq Kept'
  BY <1>17 DEF Kept, Crash, store
<1>18. CASE Replicate
  BY <1>18 DEF Kept, Replicate, history
<1>19. CASE Failover
  BY <1>19 DEF Kept, Failover
<1>20. CASE Tick
  BY <1>20 DEF Kept, Tick, store, history
<1>21. CASE UNCHANGED vars
  BY <1>21 DEF Kept, vars, store, history
<1>22. ASSUME NEW w \in Workers, WriteUnheard(w) PROVE Kept \subseteq Kept'
  BY <1>22 DEF DataInv, ImageCurrent, Kept, Merged, WriteUnheard, At
<1> QED
  BY <1>1, <1>2, <1>3, <1>4, <1>5, <1>6, <1>7, <1>8, <1>9, <1>10, <1>11, <1>12, <1>13, <1>14,
     <1>15, <1>16, <1>17, <1>18, <1>19, <1>20, <1>21, <1>22 DEF Next, Step

\* What can be resolved stays so, or a fault or an overtaken holder cut it.
LEMMA ResolvableGrows ==
    TypeOK /\ PhaseFitsBackend /\ LockInv /\ DataInv /\ [Next]_vars
        => Resolvable \subseteq Resolvable'
<1> SUFFICES ASSUME TypeOK /\ PhaseFitsBackend /\ LockInv /\ DataInv, [Next]_vars
             PROVE Resolvable \subseteq Resolvable'
  OBVIOUS
<1>1. ASSUME NEW w \in Workers, StartForward(w) PROVE Resolvable \subseteq Resolvable'
  BY <1>1 DEF Merged, Resolvable, InFlight, StartForward, At, store, history
<1>2. ASSUME NEW w \in Workers, StartReverse(w) PROVE Resolvable \subseteq Resolvable'
  BY <1>2 DEF Merged, Resolvable, InFlight, StartReverse, At, store, history
<1>3. ASSUME NEW w \in Workers, NEW v \in Values, Request(w, v)
      PROVE Resolvable \subseteq Resolvable'
  BY <1>3 DEF TypeOK, Merged, Resolvable, InFlight, Request, At, store
<1>4. ASSUME NEW w \in Workers, HSet(w) PROVE Resolvable \subseteq Resolvable'
  BY <1>4 DEF TypeOK, Phases, PhaseFitsBackend, Resolvable, InFlight, HSet, At
<1>5. ASSUME NEW w \in Workers, ReadFree(w) PROVE Resolvable \subseteq Resolvable'
  BY <1>5 DEF Merged, Resolvable, InFlight, ReadFree, At, store, worker, history
<1>6. ASSUME NEW w \in Workers, GiveUp(w) PROVE Resolvable \subseteq Resolvable'
  BY <1>6 DEF Merged, Resolvable, InFlight, GiveUp, At, store, worker, history
<1>7. ASSUME NEW w \in Workers, Take(w) PROVE Resolvable \subseteq Resolvable'
  BY <1>7 DEF Merged, Resolvable, InFlight, Take, At, store
<1>8. ASSUME NEW w \in Workers, TakeRefused(w) PROVE Resolvable \subseteq Resolvable'
  BY <1>8 DEF Merged, Resolvable, InFlight, TakeRefused, At, store, worker, history
<1>9. ASSUME NEW w \in Workers, TakeFails(w) PROVE Resolvable \subseteq Resolvable'
  BY <1>9 DEF Merged, Resolvable, InFlight, TakeFails, At, store, worker
<1>10. ASSUME NEW w \in Workers, LoadForward(w) PROVE Resolvable \subseteq Resolvable'
  BY <1>10 DEF Merged, Resolvable, InFlight, LoadForward, At, store, history
<1>11. ASSUME NEW w \in Workers, LoadReverse(w) PROVE Resolvable \subseteq Resolvable'
  BY <1>11 DEF Merged, Resolvable, InFlight, LoadReverse, At, store, history
<1>12. ASSUME NEW w \in Workers, WriteForward(w) PROVE Resolvable \subseteq Resolvable'
  BY <1>12 DEF Merged, Resolvable, InFlight, WriteForward, At, worker
<1>13. ASSUME NEW w \in Workers, WriteReverse(w) PROVE Resolvable \subseteq Resolvable'
  BY <1>13 DEF DataInv, ImageCurrent, Merged, Resolvable, InFlight, WriteReverse, At
<1>14. ASSUME NEW w \in Workers, ReadOwner(w) PROVE Resolvable \subseteq Resolvable'
  BY <1>14 DEF Merged, Resolvable, InFlight, ReadOwner, At, store, worker, history
<1>15. ASSUME NEW w \in Workers, Release(w) PROVE Resolvable \subseteq Resolvable'
  BY <1>15 DEF Merged, Resolvable, InFlight, Release, At, store, worker
<1>16. ASSUME NEW w \in Workers, CallFails(w) PROVE Resolvable \subseteq Resolvable'
  BY <1>16 DEF DataInv, ReverseHasForward, Kept, Merged, Resolvable, InFlight, CallFails, store,
     Cut
<1>17. ASSUME NEW w \in Workers, Crash(w) PROVE Resolvable \subseteq Resolvable'
  BY <1>17 DEF DataInv, ReverseHasForward, Kept, Merged, Resolvable, InFlight, Crash, store, Cut
<1>18. CASE Replicate
  BY <1>18 DEF TypeOK, Phases, PhaseFitsBackend, Resolvable, InFlight, Replicate, history
<1>19. CASE Failover
  BY <1>19 DEF TypeOK, Phases, PhaseFitsBackend, Resolvable, InFlight, Failover
<1>20. CASE Tick
  BY <1>20 DEF Merged, Resolvable, InFlight, Tick, store, history
<1>21. CASE UNCHANGED vars
  BY <1>21 DEF Merged, Resolvable, InFlight, vars, store, worker, history
<1>22. ASSUME NEW w \in Workers, WriteUnheard(w) PROVE Resolvable \subseteq Resolvable'
  <2>1. CASE pc[w] = "hset"
    BY <1>22, <2>1 DEF TypeOK, Phases, PhaseFitsBackend, Resolvable, InFlight,
       WriteUnheard, At
  <2>2. CASE pc[w] = "writeF"
    <3>1. /\ pc' = [pc EXCEPT ![w] = "unlock"] /\ image' = [image EXCEPT ![w] = Empty]
          /\ mem' = mem /\ rev' = rev /\ excused \subseteq excused'
      BY <1>22, <2>2 DEF WriteUnheard, At
    <3> QED
      BY <2>2, <3>1 DEF Merged, Resolvable, InFlight
  <2>3. CASE pc[w] = "writeR"
    <3>1. /\ pc' = [pc EXCEPT ![w] = "unlock"] /\ image' = [image EXCEPT ![w] = Empty]
          /\ mem' = mem /\ rev' = Merged(w).r
      BY <1>22, <2>3 DEF WriteUnheard, At
    <3>2. rev \subseteq rev' \cup excused' /\ excused \subseteq excused'
      BY <1>22, <2>3 DEF DataInv, ImageCurrent, Merged, WriteUnheard, At
    <3> QED
      BY <2>3, <3>1, <3>2 DEF Merged, Resolvable, InFlight
  <2> QED
    BY <1>22, <2>1, <2>2, <2>3, UnheardMoves
<1> QED
  BY <1>1, <1>2, <1>3, <1>4, <1>5, <1>6, <1>7, <1>8, <1>9, <1>10, <1>11, <1>12, <1>13, <1>14,
     <1>15, <1>16, <1>17, <1>18, <1>19, <1>20, <1>21, <1>22 DEF Next, Step

\* A start begins without a reverse map, after a crash too.
LEMMA NotLoadedStep ==
    TypeOK /\ PhaseFitsBackend /\ LockInv /\ DataInv /\ [Next]_vars => NotLoaded'
<1> SUFFICES ASSUME TypeOK /\ PhaseFitsBackend /\ LockInv /\ DataInv, [Next]_vars
             PROVE NotLoaded'
  OBVIOUS
<1>1. ASSUME NEW w \in Workers, StartForward(w) PROVE NotLoaded'
  BY <1>1 DEF DataInv, NotLoaded, StartForward, At
<1>2. ASSUME NEW w \in Workers, StartReverse(w) PROVE NotLoaded'
  BY <1>2 DEF TypeOK, DataInv, NotLoaded, StartReverse, At
<1>3. ASSUME NEW w \in Workers, NEW v \in Values, Request(w, v) PROVE NotLoaded'
  BY <1>3 DEF TypeOK, DataInv, NotLoaded, Request, At
<1>4. ASSUME NEW w \in Workers, HSet(w) PROVE NotLoaded'
  BY <1>4 DEF DataInv, NotLoaded, HSet, At
<1>5. ASSUME NEW w \in Workers, ReadFree(w) PROVE NotLoaded'
  BY <1>5 DEF DataInv, NotLoaded, ReadFree, At, worker
<1>6. ASSUME NEW w \in Workers, GiveUp(w) PROVE NotLoaded'
  BY <1>6 DEF DataInv, NotLoaded, GiveUp, At, worker
<1>7. ASSUME NEW w \in Workers, Take(w) PROVE NotLoaded'
  BY <1>7 DEF DataInv, NotLoaded, Take, At
<1>8. ASSUME NEW w \in Workers, TakeRefused(w) PROVE NotLoaded'
  BY <1>8 DEF DataInv, NotLoaded, TakeRefused, At, worker
<1>9. ASSUME NEW w \in Workers, TakeFails(w) PROVE NotLoaded'
  BY <1>9 DEF DataInv, NotLoaded, TakeFails, At, worker
<1>10. ASSUME NEW w \in Workers, LoadForward(w) PROVE NotLoaded'
  BY <1>10 DEF DataInv, NotLoaded, LoadForward, At
<1>11. ASSUME NEW w \in Workers, LoadReverse(w) PROVE NotLoaded'
  BY <1>11 DEF DataInv, NotLoaded, LoadReverse, At
<1>12. ASSUME NEW w \in Workers, WriteForward(w) PROVE NotLoaded'
  BY <1>12 DEF DataInv, NotLoaded, WriteForward, At, worker
<1>13. ASSUME NEW w \in Workers, WriteReverse(w) PROVE NotLoaded'
  BY <1>13 DEF DataInv, NotLoaded, WriteReverse, At
<1>14. ASSUME NEW w \in Workers, ReadOwner(w) PROVE NotLoaded'
  BY <1>14 DEF DataInv, NotLoaded, ReadOwner, At, worker
<1>15. ASSUME NEW w \in Workers, Release(w) PROVE NotLoaded'
  BY <1>15 DEF DataInv, NotLoaded, Release, At, worker
<1>16. ASSUME NEW w \in Workers, CallFails(w) PROVE NotLoaded'
  BY <1>16 DEF DataInv, NotLoaded, CallFails
<1>17. ASSUME NEW w \in Workers, Crash(w) PROVE NotLoaded'
  BY <1>17 DEF TypeOK, DataInv, NotLoaded, Empty, Crash
<1>18. CASE Replicate
  BY <1>18 DEF DataInv, NotLoaded, Replicate, worker
<1>19. CASE Failover
  BY <1>19 DEF DataInv, NotLoaded, Failover, worker
<1>20. CASE Tick
  BY <1>20 DEF DataInv, NotLoaded, Tick
<1>21. CASE UNCHANGED vars
  BY <1>21 DEF DataInv, NotLoaded, vars, worker
<1>22. ASSUME NEW w \in Workers, WriteUnheard(w) PROVE NotLoaded'
  <2>0. UNCHANGED mem
    BY <1>22 DEF WriteUnheard, locking
  <2>1. CASE pc[w] = "hset" /\ pc' = [pc EXCEPT ![w] = "idle"]
    BY <2>0, <2>1 DEF DataInv, NotLoaded
  <2>2. CASE pc[w] \in {"writeF", "writeR"} /\ pc' = [pc EXCEPT ![w] = "unlock"]
    BY <2>0, <2>2 DEF DataInv, NotLoaded
  <2> QED
    BY <1>22, <2>1, <2>2, UnheardMoves
<1> QED
  BY <1>1, <1>2, <1>3, <1>4, <1>5, <1>6, <1>7, <1>8, <1>9, <1>10, <1>11, <1>12, <1>13, <1>14,
     <1>15, <1>16, <1>17, <1>18, <1>19, <1>20, <1>21, <1>22 DEF Next, Step

\* Reverse entries come with their forward entries.
LEMMA ReverseHasForwardStep ==
    TypeOK /\ PhaseFitsBackend /\ LockInv /\ DataInv /\ [Next]_vars => ReverseHasForward'
<1> SUFFICES ASSUME TypeOK /\ PhaseFitsBackend /\ LockInv /\ DataInv, [Next]_vars
             PROVE ReverseHasForward'
  OBVIOUS
<1>0. Kept \subseteq Kept'
  BY KeptGrows
<1>1. ASSUME NEW w \in Workers, StartForward(w) PROVE ReverseHasForward'
  BY <1>1, <1>0 DEF DataInv, NotLoaded, ReverseHasForward, Merged, StartForward, At, store
<1>2. ASSUME NEW w \in Workers, StartReverse(w) PROVE ReverseHasForward'
  BY <1>2, <1>0 DEF DataInv, ReverseHasForward, Merged, StartReverse, At, store
<1>3. ASSUME NEW w \in Workers, NEW v \in Values, Request(w, v) PROVE ReverseHasForward'
  BY <1>3 DEF TypeOK, DataInv, ReverseHasForward, Kept, Merged, Request, At, store
<1>4. ASSUME NEW w \in Workers, HSet(w) PROVE ReverseHasForward'
  BY <1>4 DEF DataInv, ReverseHasForward, Kept, Merged, HSet, At
<1>5. ASSUME NEW w \in Workers, ReadFree(w) PROVE ReverseHasForward'
  BY <1>5, <1>0 DEF DataInv, ReverseHasForward, Merged, ReadFree, At, store, worker
<1>6. ASSUME NEW w \in Workers, GiveUp(w) PROVE ReverseHasForward'
  BY <1>6, <1>0 DEF DataInv, ReverseHasForward, Merged, GiveUp, At, store, worker
<1>7. ASSUME NEW w \in Workers, Take(w) PROVE ReverseHasForward'
  BY <1>7 DEF DataInv, ReverseHasForward, Kept, Merged, Take, At, store
<1>8. ASSUME NEW w \in Workers, TakeRefused(w) PROVE ReverseHasForward'
  BY <1>8, <1>0 DEF DataInv, ReverseHasForward, Merged, TakeRefused, At, store, worker
<1>9. ASSUME NEW w \in Workers, TakeFails(w) PROVE ReverseHasForward'
  BY <1>9 DEF DataInv, ReverseHasForward, Kept, Merged, TakeFails, At, store, worker
<1>10. ASSUME NEW w \in Workers, LoadForward(w) PROVE ReverseHasForward'
  BY <1>10, <1>0 DEF DataInv, ReverseHasForward, Merged, LoadForward, At, store
<1>11. ASSUME NEW w \in Workers, LoadReverse(w) PROVE ReverseHasForward'
  BY <1>11, <1>0 DEF TypeOK, DataInv, ReverseHasForward, Merged, LoadReverse, At, store
<1>12. ASSUME NEW w \in Workers, WriteForward(w) PROVE ReverseHasForward'
  BY <1>12 DEF DataInv, ReverseHasForward, ImageCurrent, Kept, Merged, WriteForward, At, worker
<1>13. ASSUME NEW w \in Workers, WriteReverse(w) PROVE ReverseHasForward'
  BY <1>13 DEF TypeOK, DataInv, ReverseHasForward, Kept, Merged, WriteReverse, At
<1>14. ASSUME NEW w \in Workers, ReadOwner(w) PROVE ReverseHasForward'
  BY <1>14, <1>0 DEF DataInv, ReverseHasForward, Merged, ReadOwner, At, store, worker
<1>15. ASSUME NEW w \in Workers, Release(w) PROVE ReverseHasForward'
  BY <1>15 DEF DataInv, ReverseHasForward, Kept, Merged, Release, At, store, worker
<1>16. ASSUME NEW w \in Workers, CallFails(w) PROVE ReverseHasForward'
  BY <1>16 DEF TypeOK, DataInv, ReverseHasForward, Kept, Merged, CallFails, store
<1>17. ASSUME NEW w \in Workers, Crash(w) PROVE ReverseHasForward'
  BY <1>17 DEF DataInv, ReverseHasForward, Kept, Merged, Crash, store, Empty
<1>18. CASE Replicate
  BY <1>18, <1>0 DEF DataInv, ReverseHasForward, Merged, Replicate, worker
<1>19. CASE Failover
  BY <1>19 DEF DataInv, ReplicaPaired, ReverseHasForward, Kept, Merged, Failover, worker
<1>20. CASE Tick
  BY <1>20, <1>0 DEF DataInv, ReverseHasForward, Merged, Tick, store
<1>21. CASE UNCHANGED vars
  BY <1>21 DEF DataInv, ReverseHasForward, Kept, Merged, vars, store, worker, history
<1>22. ASSUME NEW w \in Workers, WriteUnheard(w) PROVE ReverseHasForward'
  <2>1. CASE pc[w] = "hset"
    BY <1>22, <2>1 DEF TypeOK, DataInv, ReverseHasForward, Kept, Merged,
       WriteUnheard, At
  <2>2. CASE pc[w] = "writeF"
    BY <1>22, <2>2 DEF TypeOK, ImageCurrent, DataInv, ReverseHasForward, Kept,
       Merged, WriteUnheard, At
  <2>3. CASE pc[w] = "writeR"
    BY <1>22, <2>3 DEF TypeOK, DataInv, ReverseHasForward, Kept, Merged,
       WriteUnheard, At
  <2> QED
    BY <1>22, <2>1, <2>2, <2>3, UnheardMoves
<1> QED
  BY <1>1, <1>2, <1>3, <1>4, <1>5, <1>6, <1>7, <1>8, <1>9, <1>10, <1>11, <1>12, <1>13, <1>14,
     <1>15, <1>16, <1>17, <1>18, <1>19, <1>20, <1>21, <1>22 DEF Next, Step

\* What a save has loaded stays resolvable while it is merged.
LEMMA ImageResolvesStep ==
    TypeOK /\ PhaseFitsBackend /\ LockInv /\ DataInv /\ [Next]_vars => ImageResolves'
<1> SUFFICES ASSUME TypeOK /\ PhaseFitsBackend /\ LockInv /\ DataInv, [Next]_vars
             PROVE ImageResolves'
  OBVIOUS
<1>0. Resolvable \subseteq Resolvable'
  BY ResolvableGrows
<1>1. ASSUME NEW w \in Workers, StartForward(w) PROVE ImageResolves'
  BY <1>1, <1>0 DEF DataInv, ImageResolves, StartForward, At
<1>2. ASSUME NEW w \in Workers, StartReverse(w) PROVE ImageResolves'
  BY <1>2, <1>0 DEF DataInv, ImageResolves, StartReverse, At
<1>3. ASSUME NEW w \in Workers, NEW v \in Values, Request(w, v) PROVE ImageResolves'
  BY <1>3, <1>0 DEF DataInv, ImageResolves, Request, At
<1>4. ASSUME NEW w \in Workers, HSet(w) PROVE ImageResolves'
  BY <1>4, <1>0 DEF DataInv, ImageResolves, HSet, At
<1>5. ASSUME NEW w \in Workers, ReadFree(w) PROVE ImageResolves'
  BY <1>5, <1>0 DEF DataInv, ImageResolves, ReadFree, At, worker
<1>6. ASSUME NEW w \in Workers, GiveUp(w) PROVE ImageResolves'
  BY <1>6, <1>0 DEF DataInv, ImageResolves, GiveUp, At, worker
<1>7. ASSUME NEW w \in Workers, Take(w) PROVE ImageResolves'
  BY <1>7, <1>0 DEF DataInv, ImageResolves, Take, At
<1>8. ASSUME NEW w \in Workers, TakeRefused(w) PROVE ImageResolves'
  BY <1>8, <1>0 DEF DataInv, ImageResolves, TakeRefused, At, worker
<1>9. ASSUME NEW w \in Workers, TakeFails(w) PROVE ImageResolves'
  BY <1>9, <1>0 DEF DataInv, ImageResolves, TakeFails, At, worker
<1>10. ASSUME NEW w \in Workers, LoadForward(w) PROVE ImageResolves'
  BY <1>10, <1>0 DEF TypeOK, DataInv, ImageResolves, StoredResolve, Resolvable, LoadForward, At
<1>11. ASSUME NEW w \in Workers, LoadReverse(w) PROVE ImageResolves'
  BY <1>11, <1>0 DEF DataInv, ImageResolves, LoadReverse, At
<1>12. ASSUME NEW w \in Workers, WriteForward(w) PROVE ImageResolves'
  BY <1>12, <1>0 DEF DataInv, ImageResolves, WriteForward, At, worker
<1>13. ASSUME NEW w \in Workers, WriteReverse(w) PROVE ImageResolves'
  BY <1>13, <1>0 DEF TypeOK, DataInv, ImageResolves, WriteReverse, At
<1>14. ASSUME NEW w \in Workers, ReadOwner(w) PROVE ImageResolves'
  BY <1>14, <1>0 DEF DataInv, ImageResolves, ReadOwner, At, worker
<1>15. ASSUME NEW w \in Workers, Release(w) PROVE ImageResolves'
  BY <1>15, <1>0 DEF DataInv, ImageResolves, Release, At, worker
<1>16. ASSUME NEW w \in Workers, CallFails(w) PROVE ImageResolves'
  BY <1>16, <1>0 DEF TypeOK, DataInv, ImageResolves, CallFails
<1>17. ASSUME NEW w \in Workers, Crash(w) PROVE ImageResolves'
  BY <1>17, <1>0 DEF TypeOK, DataInv, ImageResolves, Crash
<1>18. CASE Replicate
  BY <1>18, <1>0 DEF DataInv, ImageResolves, Replicate, worker
<1>19. CASE Failover
  BY <1>19, <1>0 DEF DataInv, ImageResolves, Failover, worker
<1>20. CASE Tick
  BY <1>20, <1>0 DEF DataInv, ImageResolves, Tick
<1>21. CASE UNCHANGED vars
  BY <1>21, <1>0 DEF DataInv, ImageResolves, vars, worker
<1>22. ASSUME NEW w \in Workers, WriteUnheard(w) PROVE ImageResolves'
  BY <1>22, <1>0 DEF TypeOK, DataInv, ImageResolves, WriteUnheard, At
<1> QED
  BY <1>1, <1>2, <1>3, <1>4, <1>5, <1>6, <1>7, <1>8, <1>9, <1>10, <1>11, <1>12, <1>13, <1>14,
     <1>15, <1>16, <1>17, <1>18, <1>19, <1>20, <1>21, <1>22 DEF Next, Step

\* A replica is given both entries of a value.
LEMMA ReplicaPairedStep ==
    TypeOK /\ PhaseFitsBackend /\ LockInv /\ DataInv /\ [Next]_vars => ReplicaPaired'
<1> SUFFICES ASSUME TypeOK /\ PhaseFitsBackend /\ LockInv /\ DataInv, [Next]_vars
             PROVE ReplicaPaired'
  OBVIOUS
<1>1. ASSUME NEW w \in Workers, StartForward(w) PROVE ReplicaPaired'
  BY <1>1 DEF DataInv, ReplicaPaired, StartForward, store, history
<1>2. ASSUME NEW w \in Workers, StartReverse(w) PROVE ReplicaPaired'
  BY <1>2 DEF DataInv, ReplicaPaired, StartReverse, store, history
<1>3. ASSUME NEW w \in Workers, NEW v \in Values, Request(w, v) PROVE ReplicaPaired'
  BY <1>3 DEF DataInv, ReplicaPaired, Request, store
<1>4. ASSUME NEW w \in Workers, HSet(w) PROVE ReplicaPaired'
  BY <1>4 DEF DataInv, ReplicaPaired, HSet
<1>5. ASSUME NEW w \in Workers, ReadFree(w) PROVE ReplicaPaired'
  BY <1>5 DEF DataInv, ReplicaPaired, ReadFree, store, history
<1>6. ASSUME NEW w \in Workers, GiveUp(w) PROVE ReplicaPaired'
  BY <1>6 DEF DataInv, ReplicaPaired, GiveUp, store, history
<1>7. ASSUME NEW w \in Workers, Take(w) PROVE ReplicaPaired'
  BY <1>7 DEF DataInv, ReplicaPaired, Take, store
<1>8. ASSUME NEW w \in Workers, TakeRefused(w) PROVE ReplicaPaired'
  BY <1>8 DEF DataInv, ReplicaPaired, TakeRefused, store, history
<1>9. ASSUME NEW w \in Workers, TakeFails(w) PROVE ReplicaPaired'
  BY <1>9 DEF DataInv, ReplicaPaired, TakeFails, store
<1>10. ASSUME NEW w \in Workers, LoadForward(w) PROVE ReplicaPaired'
  BY <1>10 DEF DataInv, ReplicaPaired, LoadForward, store, history
<1>11. ASSUME NEW w \in Workers, LoadReverse(w) PROVE ReplicaPaired'
  BY <1>11 DEF DataInv, ReplicaPaired, LoadReverse, store, history
<1>12. ASSUME NEW w \in Workers, WriteForward(w) PROVE ReplicaPaired'
  BY <1>12 DEF DataInv, ReplicaPaired, WriteForward
<1>13. ASSUME NEW w \in Workers, WriteReverse(w) PROVE ReplicaPaired'
  BY <1>13 DEF DataInv, ReplicaPaired, WriteReverse
<1>14. ASSUME NEW w \in Workers, ReadOwner(w) PROVE ReplicaPaired'
  BY <1>14 DEF DataInv, ReplicaPaired, ReadOwner, store, history
<1>15. ASSUME NEW w \in Workers, Release(w) PROVE ReplicaPaired'
  BY <1>15 DEF DataInv, ReplicaPaired, Release, store
<1>16. ASSUME NEW w \in Workers, CallFails(w) PROVE ReplicaPaired'
  BY <1>16 DEF DataInv, ReplicaPaired, CallFails, store
<1>17. ASSUME NEW w \in Workers, Crash(w) PROVE ReplicaPaired'
  BY <1>17 DEF DataInv, ReplicaPaired, Crash, store
<1>18. CASE Replicate
  BY <1>18 DEF Section, PhaseFitsBackend, DataInv, ReplicaPaired, StoredResolve,
     ReverseHasForward, Kept, InFlight, Replicate, history
<1>19. CASE Failover
  BY <1>19 DEF DataInv, ReplicaPaired, Failover
<1>20. CASE Tick
  BY <1>20 DEF DataInv, ReplicaPaired, Tick, store, history
<1>21. CASE UNCHANGED vars
  BY <1>21 DEF DataInv, ReplicaPaired, vars, store, history
<1>22. ASSUME NEW w \in Workers, WriteUnheard(w) PROVE ReplicaPaired'
  BY <1>22 DEF DataInv, ReplicaPaired, WriteUnheard
<1> QED
  BY <1>1, <1>2, <1>3, <1>4, <1>5, <1>6, <1>7, <1>8, <1>9, <1>10, <1>11, <1>12, <1>13, <1>14,
     <1>15, <1>16, <1>17, <1>18, <1>19, <1>20, <1>21, <1>22 DEF Next, Step

\* Nobody writes while a holder that was not overtaken merges.
LEMMA ImageCurrentStep ==
    TypeOK /\ PhaseFitsBackend /\ LockInv /\ DataInv /\ [Next]_vars => ImageCurrent'
<1> SUFFICES ASSUME TypeOK /\ PhaseFitsBackend /\ LockInv /\ DataInv, [Next]_vars
             PROVE ImageCurrent'
  OBVIOUS
<1>1. ASSUME NEW w \in Workers, StartForward(w) PROVE ImageCurrent'
  BY <1>1 DEF DataInv, ImageCurrent, StartForward, At, store, history
<1>2. ASSUME NEW w \in Workers, StartReverse(w) PROVE ImageCurrent'
  BY <1>2 DEF DataInv, ImageCurrent, StartReverse, At, store, history
<1>3. ASSUME NEW w \in Workers, NEW v \in Values, Request(w, v) PROVE ImageCurrent'
  BY <1>3 DEF DataInv, ImageCurrent, Request, At, store
<1>4. ASSUME NEW w \in Workers, HSet(w) PROVE ImageCurrent'
  BY <1>4 DEF Section, PhaseFitsBackend, ImageCurrent, HSet, At
<1>5. ASSUME NEW w \in Workers, ReadFree(w) PROVE ImageCurrent'
  BY <1>5 DEF DataInv, ImageCurrent, ReadFree, At, store, worker, history
<1>6. ASSUME NEW w \in Workers, GiveUp(w) PROVE ImageCurrent'
  BY <1>6 DEF DataInv, ImageCurrent, GiveUp, At, store, worker, history
<1>7. ASSUME NEW w \in Workers, Take(w) PROVE ImageCurrent'
  BY <1>7 DEF DataInv, ImageCurrent, Take, At, store
<1>8. ASSUME NEW w \in Workers, TakeRefused(w) PROVE ImageCurrent'
  BY <1>8 DEF DataInv, ImageCurrent, TakeRefused, At, store, worker, history
<1>9. ASSUME NEW w \in Workers, TakeFails(w) PROVE ImageCurrent'
  BY <1>9 DEF DataInv, ImageCurrent, TakeFails, At, store, worker
<1>10. ASSUME NEW w \in Workers, LoadForward(w) PROVE ImageCurrent'
  BY <1>10 DEF TypeOK, Phases, ImageCurrent, LockInv, OneHolder, InSection, LoadForward, At,
     store, history
<1>11. ASSUME NEW w \in Workers, LoadReverse(w) PROVE ImageCurrent'
  BY <1>11 DEF TypeOK, DataInv, ImageCurrent, LoadReverse, At, store, history
<1>12. ASSUME NEW w \in Workers, WriteForward(w) PROVE ImageCurrent'
  BY <1>12 DEF TypeOK, Section, DataInv, ImageCurrent, LockInv, OneHolder, InSection,
     WriteForward, At, worker
<1>13. ASSUME NEW w \in Workers, WriteReverse(w) PROVE ImageCurrent'
  BY <1>13 DEF TypeOK, Phases, ImageCurrent, LockInv, OneHolder, InSection, WriteReverse, At
<1>14. ASSUME NEW w \in Workers, ReadOwner(w) PROVE ImageCurrent'
  BY <1>14 DEF TypeOK, Phases, ImageCurrent, LockInv, OneHolder, InSection, ReadOwner, At,
     history
<1>15. ASSUME NEW w \in Workers, Release(w) PROVE ImageCurrent'
  BY <1>15 DEF TypeOK, Phases, ImageCurrent, LockInv, OneHolder, InSection, Release, At
<1>16. ASSUME NEW w \in Workers, CallFails(w) PROVE ImageCurrent'
  BY <1>16 DEF TypeOK, DataInv, ImageCurrent, CallFails, store
<1>17. ASSUME NEW w \in Workers, Crash(w) PROVE ImageCurrent'
  BY <1>17 DEF TypeOK, DataInv, ImageCurrent, Crash, store
<1>18. CASE Replicate
  BY <1>18 DEF Section, PhaseFitsBackend, ImageCurrent, Replicate
<1>19. CASE Failover
  BY <1>19 DEF Section, PhaseFitsBackend, ImageCurrent, Failover
<1>20. CASE Tick
  BY <1>20 DEF DataInv, ImageCurrent, Tick, store, history
<1>21. CASE UNCHANGED vars
  BY <1>21 DEF DataInv, ImageCurrent, vars, store, worker, history
<1>22. ASSUME NEW w \in Workers, WriteUnheard(w) PROVE ImageCurrent'
  <2>1. CASE pc[w] = "hset"
    <3>1. pc' = [pc EXCEPT ![w] = "idle"]
      BY <1>22, <2>1 DEF WriteUnheard, At
    <3> QED
      BY <2>1, <3>1 DEF Section, PhaseFitsBackend, ImageCurrent
  <2>2. CASE pc[w] = "writeF"
    BY <1>22, <2>2 DEF TypeOK, Section, DataInv, ImageCurrent, LockInv, OneHolder,
       InSection, WriteUnheard, At
  <2>3. CASE pc[w] = "writeR"
    BY <1>22, <2>3 DEF TypeOK, Phases, ImageCurrent, LockInv, OneHolder,
       InSection, WriteUnheard, At
  <2> QED
    BY <1>22, <2>1, <2>2, <2>3, UnheardMoves
<1> QED
  BY <1>1, <1>2, <1>3, <1>4, <1>5, <1>6, <1>7, <1>8, <1>9, <1>10, <1>11, <1>12, <1>13, <1>14,
     <1>15, <1>16, <1>17, <1>18, <1>19, <1>20, <1>21, <1>22 DEF Next, Step

\* A save adds both entries before it is reported, and no step drops one.
LEMMA SavedStaysStep ==
    TypeOK /\ PhaseFitsBackend /\ LockInv /\ DataInv /\ [Next]_vars => SavedStays'
<1> SUFFICES ASSUME TypeOK /\ PhaseFitsBackend /\ LockInv /\ DataInv, [Next]_vars
             PROVE SavedStays'
  OBVIOUS
<1>0. Kept \subseteq Kept'
  BY KeptGrows
<1>1. ASSUME NEW w \in Workers, StartForward(w) PROVE SavedStays'
  BY <1>1 DEF DataInv, SavedStays, StartForward, store, history
<1>2. ASSUME NEW w \in Workers, StartReverse(w) PROVE SavedStays'
  BY <1>2 DEF DataInv, SavedStays, StartReverse, store, history
<1>3. ASSUME NEW w \in Workers, NEW v \in Values, Request(w, v) PROVE SavedStays'
  BY <1>3 DEF DataInv, SavedStays, Request, store
<1>4. ASSUME NEW w \in Workers, HSet(w) PROVE SavedStays'
  BY <1>4 DEF DataInv, SavedStays, HSet
<1>5. ASSUME NEW w \in Workers, ReadFree(w) PROVE SavedStays'
  BY <1>5 DEF DataInv, SavedStays, ReadFree, store, history
<1>6. ASSUME NEW w \in Workers, GiveUp(w) PROVE SavedStays'
  BY <1>6 DEF DataInv, SavedStays, GiveUp, store, history
<1>7. ASSUME NEW w \in Workers, Take(w) PROVE SavedStays'
  BY <1>7 DEF DataInv, SavedStays, Take, store
<1>8. ASSUME NEW w \in Workers, TakeRefused(w) PROVE SavedStays'
  BY <1>8 DEF DataInv, SavedStays, TakeRefused, store, history
<1>9. ASSUME NEW w \in Workers, TakeFails(w) PROVE SavedStays'
  BY <1>9 DEF DataInv, SavedStays, TakeFails, store
<1>10. ASSUME NEW w \in Workers, LoadForward(w) PROVE SavedStays'
  BY <1>10 DEF DataInv, SavedStays, LoadForward, store, history
<1>11. ASSUME NEW w \in Workers, LoadReverse(w) PROVE SavedStays'
  BY <1>11 DEF DataInv, SavedStays, LoadReverse, store, history
<1>12. ASSUME NEW w \in Workers, WriteForward(w) PROVE SavedStays'
  BY <1>12 DEF DataInv, SavedStays, ImageCurrent, Merged, WriteForward, At
<1>13. ASSUME NEW w \in Workers, WriteReverse(w) PROVE SavedStays'
  BY <1>13 DEF DataInv, SavedStays, ReverseHasForward, ImageCurrent, Kept, Merged, WriteReverse,
     At
<1>14. ASSUME NEW w \in Workers, ReadOwner(w) PROVE SavedStays'
  BY <1>14 DEF DataInv, SavedStays, ReadOwner, store, history
<1>15. ASSUME NEW w \in Workers, Release(w) PROVE SavedStays'
  BY <1>15 DEF DataInv, SavedStays, Release, store
<1>16. ASSUME NEW w \in Workers, CallFails(w) PROVE SavedStays'
  BY <1>16 DEF DataInv, SavedStays, CallFails, store
<1>17. ASSUME NEW w \in Workers, Crash(w) PROVE SavedStays'
  BY <1>17 DEF DataInv, SavedStays, Crash, store
<1>18. CASE Replicate
  BY <1>18 DEF DataInv, SavedStays, Replicate, history
<1>19. CASE Failover
  BY <1>19 DEF DataInv, SavedStays, Failover
<1>20. CASE Tick
  BY <1>20 DEF DataInv, SavedStays, Tick, store, history
<1>21. CASE UNCHANGED vars
  BY <1>21 DEF DataInv, SavedStays, vars, store, history
<1>22. ASSUME NEW w \in Workers, WriteUnheard(w) PROVE SavedStays'
  <2>1. CASE pc[w] = "hset"
    BY <1>22, <2>1 DEF DataInv, SavedStays, WriteUnheard, At
  <2>2. CASE pc[w] = "writeF"
    BY <1>22, <2>2 DEF DataInv, SavedStays, ImageCurrent, Merged, WriteUnheard, At
  <2>3. CASE pc[w] = "writeR"
    BY <1>22, <2>3 DEF DataInv, SavedStays, ImageCurrent, Merged, WriteUnheard, At
  <2> QED
    BY <1>22, <2>1, <2>2, <2>3, UnheardMoves
<1> QED
  BY <1>1, <1>2, <1>3, <1>4, <1>5, <1>6, <1>7, <1>8, <1>9, <1>10, <1>11, <1>12, <1>13, <1>14,
     <1>15, <1>16, <1>17, <1>18, <1>19, <1>20, <1>21, <1>22 DEF Next, Step

\* A worker learns a forward entry from the storage or makes it with its reverse.
LEMMA AnswersResolveStep ==
    TypeOK /\ PhaseFitsBackend /\ LockInv /\ DataInv /\ [Next]_vars => AnswersResolve'
<1> SUFFICES ASSUME TypeOK /\ PhaseFitsBackend /\ LockInv /\ DataInv, [Next]_vars
             PROVE AnswersResolve'
  OBVIOUS
<1>0. Resolvable \subseteq Resolvable'
  BY ResolvableGrows
<1>1. ASSUME NEW w \in Workers, StartForward(w) PROVE AnswersResolve'
  BY <1>1, <1>0 DEF DataInv, AnswersResolve, StoredResolve, Resolvable, StartForward
<1>2. ASSUME NEW w \in Workers, StartReverse(w) PROVE AnswersResolve'
  BY <1>2, <1>0 DEF DataInv, NotLoaded, AnswersResolve, Resolvable, StartReverse, At
<1>3. ASSUME NEW w \in Workers, NEW v \in Values, Request(w, v) PROVE AnswersResolve'
  BY <1>3, <1>0 DEF TypeOK, DataInv, AnswersResolve, StoredResolve, Resolvable, Request, At
<1>4. ASSUME NEW w \in Workers, HSet(w) PROVE AnswersResolve'
  BY <1>4, <1>0 DEF DataInv, AnswersResolve, Resolvable, HSet
<1>5. ASSUME NEW w \in Workers, ReadFree(w) PROVE AnswersResolve'
  BY <1>5, <1>0 DEF DataInv, AnswersResolve, Resolvable, ReadFree, worker
<1>6. ASSUME NEW w \in Workers, GiveUp(w) PROVE AnswersResolve'
  BY <1>6, <1>0 DEF DataInv, AnswersResolve, Resolvable, GiveUp, worker
<1>7. ASSUME NEW w \in Workers, Take(w) PROVE AnswersResolve'
  BY <1>7, <1>0 DEF DataInv, AnswersResolve, Resolvable, Take
<1>8. ASSUME NEW w \in Workers, TakeRefused(w) PROVE AnswersResolve'
  BY <1>8, <1>0 DEF DataInv, AnswersResolve, Resolvable, TakeRefused, worker
<1>9. ASSUME NEW w \in Workers, TakeFails(w) PROVE AnswersResolve'
  BY <1>9, <1>0 DEF DataInv, AnswersResolve, Resolvable, TakeFails, worker
<1>10. ASSUME NEW w \in Workers, LoadForward(w) PROVE AnswersResolve'
  BY <1>10, <1>0 DEF DataInv, AnswersResolve, Resolvable, LoadForward
<1>11. ASSUME NEW w \in Workers, LoadReverse(w) PROVE AnswersResolve'
  BY <1>11, <1>0 DEF DataInv, AnswersResolve, Resolvable, LoadReverse
<1>12. ASSUME NEW w \in Workers, WriteForward(w) PROVE AnswersResolve'
  BY <1>12, <1>0 DEF DataInv, AnswersResolve, Resolvable, WriteForward, worker
<1>13. ASSUME NEW w \in Workers, WriteReverse(w) PROVE AnswersResolve'
  BY <1>13, <1>0 DEF DataInv, AnswersResolve, ImageResolves, Resolvable, Merged, WriteReverse,
     At
<1>14. ASSUME NEW w \in Workers, ReadOwner(w) PROVE AnswersResolve'
  BY <1>14, <1>0 DEF DataInv, AnswersResolve, Resolvable, ReadOwner, worker
<1>15. ASSUME NEW w \in Workers, Release(w) PROVE AnswersResolve'
  BY <1>15, <1>0 DEF DataInv, AnswersResolve, Resolvable, Release, worker
<1>16. ASSUME NEW w \in Workers, CallFails(w) PROVE AnswersResolve'
  BY <1>16, <1>0 DEF DataInv, AnswersResolve, Resolvable, CallFails
<1>17. ASSUME NEW w \in Workers, Crash(w) PROVE AnswersResolve'
  BY <1>17, <1>0 DEF DataInv, AnswersResolve, Resolvable, Crash, Empty
<1>18. CASE Replicate
  BY <1>18, <1>0 DEF DataInv, AnswersResolve, Resolvable, Replicate, worker
<1>19. CASE Failover
  BY <1>19, <1>0 DEF DataInv, AnswersResolve, Resolvable, Failover, worker
<1>20. CASE Tick
  BY <1>20, <1>0 DEF DataInv, AnswersResolve, Resolvable, Tick
<1>21. CASE UNCHANGED vars
  BY <1>21, <1>0 DEF DataInv, AnswersResolve, Resolvable, vars, worker
<1>22. ASSUME NEW w \in Workers, WriteUnheard(w) PROVE AnswersResolve'
  BY <1>22, <1>0 DEF DataInv, AnswersResolve, Resolvable, WriteUnheard
<1> QED
  BY <1>1, <1>2, <1>3, <1>4, <1>5, <1>6, <1>7, <1>8, <1>9, <1>10, <1>11, <1>12, <1>13, <1>14,
     <1>15, <1>16, <1>17, <1>18, <1>19, <1>20, <1>21, <1>22 DEF Next, Step

\* A forward entry is stored with its reverse entry under way.
LEMMA StoredResolveStep ==
    TypeOK /\ PhaseFitsBackend /\ LockInv /\ DataInv /\ [Next]_vars => StoredResolve'
<1> SUFFICES ASSUME TypeOK /\ PhaseFitsBackend /\ LockInv /\ DataInv, [Next]_vars
             PROVE StoredResolve'
  OBVIOUS
<1>0. Resolvable \subseteq Resolvable'
  BY ResolvableGrows
<1>1. ASSUME NEW w \in Workers, StartForward(w) PROVE StoredResolve'
  BY <1>1 DEF DataInv, StoredResolve, Merged, InFlight, StartForward, At, store, history
<1>2. ASSUME NEW w \in Workers, StartReverse(w) PROVE StoredResolve'
  BY <1>2 DEF DataInv, StoredResolve, Merged, InFlight, StartReverse, At, store, history
<1>3. ASSUME NEW w \in Workers, NEW v \in Values, Request(w, v) PROVE StoredResolve'
  BY <1>3 DEF TypeOK, DataInv, StoredResolve, Merged, InFlight, Request, At, store
<1>4. ASSUME NEW w \in Workers, HSet(w) PROVE StoredResolve'
  BY <1>4 DEF DataInv, StoredResolve, Merged, InFlight, HSet, At
<1>5. ASSUME NEW w \in Workers, ReadFree(w) PROVE StoredResolve'
  BY <1>5 DEF DataInv, StoredResolve, Merged, InFlight, ReadFree, At, store, worker, history
<1>6. ASSUME NEW w \in Workers, GiveUp(w) PROVE StoredResolve'
  BY <1>6 DEF DataInv, StoredResolve, Merged, InFlight, GiveUp, At, store, worker, history
<1>7. ASSUME NEW w \in Workers, Take(w) PROVE StoredResolve'
  BY <1>7 DEF DataInv, StoredResolve, Merged, InFlight, Take, At, store
<1>8. ASSUME NEW w \in Workers, TakeRefused(w) PROVE StoredResolve'
  BY <1>8 DEF DataInv, StoredResolve, Merged, InFlight, TakeRefused, At, store, worker, history
<1>9. ASSUME NEW w \in Workers, TakeFails(w) PROVE StoredResolve'
  BY <1>9 DEF DataInv, StoredResolve, Merged, InFlight, TakeFails, At, store, worker
<1>10. ASSUME NEW w \in Workers, LoadForward(w) PROVE StoredResolve'
  BY <1>10 DEF DataInv, StoredResolve, Merged, InFlight, LoadForward, At, store, history
<1>11. ASSUME NEW w \in Workers, LoadReverse(w) PROVE StoredResolve'
  BY <1>11 DEF DataInv, StoredResolve, Merged, InFlight, LoadReverse, At, store, history
<1>12. ASSUME NEW w \in Workers, WriteForward(w) PROVE StoredResolve'
  BY <1>12 DEF TypeOK, DataInv, StoredResolve, AnswersResolve, ImageResolves, Resolvable,
     Merged, InFlight, WriteForward, At, worker
<1>13. ASSUME NEW w \in Workers, WriteReverse(w) PROVE StoredResolve'
  BY <1>13, <1>0 DEF DataInv, StoredResolve, Resolvable, WriteReverse
<1>14. ASSUME NEW w \in Workers, ReadOwner(w) PROVE StoredResolve'
  BY <1>14 DEF DataInv, StoredResolve, Merged, InFlight, ReadOwner, At, store, worker, history
<1>15. ASSUME NEW w \in Workers, Release(w) PROVE StoredResolve'
  BY <1>15 DEF DataInv, StoredResolve, Merged, InFlight, Release, At, store, worker
<1>16. ASSUME NEW w \in Workers, CallFails(w) PROVE StoredResolve'
  BY <1>16 DEF DataInv, StoredResolve, Merged, InFlight, CallFails, store, Cut
<1>17. ASSUME NEW w \in Workers, Crash(w) PROVE StoredResolve'
  BY <1>17 DEF DataInv, StoredResolve, Merged, InFlight, Crash, store, Cut
<1>18. CASE Replicate
  BY <1>18 DEF DataInv, StoredResolve, Merged, InFlight, Replicate, worker, history
<1>19. CASE Failover
  BY <1>19 DEF DataInv, StoredResolve, ReplicaPaired, Failover
<1>20. CASE Tick
  BY <1>20 DEF DataInv, StoredResolve, Merged, InFlight, Tick, store, history
<1>21. CASE UNCHANGED vars
  BY <1>21 DEF DataInv, StoredResolve, Merged, InFlight, vars, store, worker, history
<1>22. ASSUME NEW w \in Workers, WriteUnheard(w) PROVE StoredResolve'
  <2>1. CASE pc[w] = "hset"
    BY <1>22, <2>1 DEF TypeOK, Phases, PhaseFitsBackend, DataInv, StoredResolve,
       InFlight, WriteUnheard, At
  <2>2. CASE pc[w] = "writeF"
    BY <1>22, <2>2 DEF DataInv, StoredResolve, WriteUnheard, At
  <2>3. CASE pc[w] = "writeR"
    BY <1>22, <2>3, <1>0 DEF DataInv, StoredResolve, Resolvable, WriteUnheard, At
  <2> QED
    BY <1>22, <2>1, <2>2, <2>3, UnheardMoves
<1> QED
  BY <1>1, <1>2, <1>3, <1>4, <1>5, <1>6, <1>7, <1>8, <1>9, <1>10, <1>11, <1>12, <1>13, <1>14,
     <1>15, <1>16, <1>17, <1>18, <1>19, <1>20, <1>21, <1>22 DEF Next, Step

\* No step drops an entry of a token that has both, but for a failover or an
\* overtaken holder, and what was reported or excused once remains so.
LEMMA PairsStay ==
    TypeOK /\ PhaseFitsBackend /\ LockInv /\ DataInv /\ [Next]_vars =>
        /\ fwd \cap rev \subseteq (fwd' \cap rev') \cup excused'
        /\ acked \subseteq acked'
        /\ excused \subseteq excused'
<1> SUFFICES ASSUME TypeOK, PhaseFitsBackend, LockInv, DataInv, [Next]_vars
             PROVE  /\ fwd \cap rev \subseteq (fwd' \cap rev') \cup excused'
                    /\ acked \subseteq acked'
                    /\ excused \subseteq excused'
  OBVIOUS
<1>1. CASE UNCHANGED <<fwd, rev, acked, excused>>
  BY <1>1
<1>2. ASSUME NEW w \in Workers, HSet(w)
      PROVE  /\ fwd \subseteq fwd' /\ rev \subseteq rev'
             /\ acked \subseteq acked' /\ excused = excused'
  BY <1>2 DEF HSet
<1>3. ASSUME NEW w \in Workers, WriteForward(w)
      PROVE  /\ fwd \subseteq fwd' \cup excused' /\ rev = rev'
             /\ acked = acked' /\ excused \subseteq excused'
  BY <1>3 DEF DataInv, ImageCurrent, Merged, WriteForward, At
<1>4. ASSUME NEW w \in Workers, WriteReverse(w)
      PROVE  /\ fwd = fwd' /\ rev \subseteq rev' \cup excused'
             /\ acked \subseteq acked' /\ excused \subseteq excused'
  BY <1>4 DEF DataInv, ImageCurrent, Merged, WriteReverse, At
<1>5. CASE Failover
  BY <1>5 DEF Failover
<1>6. ASSUME NEW w \in Workers, CallFails(w) \/ Crash(w)
      PROVE  UNCHANGED <<fwd, rev, acked>> /\ excused \subseteq excused'
  BY <1>6 DEF CallFails, Crash, store
<1>9. ASSUME NEW w \in Workers, WriteUnheard(w)
      PROVE  /\ fwd \subseteq fwd' \cup excused' /\ rev \subseteq rev' \cup excused'
             /\ acked = acked' /\ excused \subseteq excused'
  BY <1>9 DEF DataInv, ImageCurrent, Merged, WriteUnheard, At
<1>7. ASSUME NEW w \in Workers,
             \/ StartForward(w) \/ StartReverse(w) \/ ReadFree(w) \/ GiveUp(w) \/ Take(w)
             \/ TakeRefused(w) \/ TakeFails(w) \/ LoadForward(w) \/ LoadReverse(w)
             \/ ReadOwner(w) \/ Release(w) \/ \E v \in Values : Request(w, v)
      PROVE  UNCHANGED <<fwd, rev, acked, excused>>
  BY <1>7 DEF StartForward, StartReverse, ReadFree, GiveUp, Take, TakeRefused, TakeFails,
              LoadForward, LoadReverse, ReadOwner, Release, Request, store, history
<1>8. CASE Replicate \/ Tick \/ UNCHANGED vars
  BY <1>8, <1>1 DEF Replicate, Tick, vars, store, history
<1> QED
  BY <1>1, <1>2, <1>3, <1>4, <1>5, <1>6, <1>7, <1>8, <1>9 DEF Next, Step

-----------------------------------------------------------------------------
(* The theorems.                                                           *)

\* The invariant holds at first.
LEMMA InvInit == Init => IInv
<1> SUFFICES ASSUME Init PROVE IInv
  OBVIOUS
<1>1. TypeOK
  BY TypeInit
<1>2. PhaseFitsBackend /\ LockInv /\ WaitExplained
  BY DEF Init, PhaseFitsBackend, LockInv, OneHolder, HolderNamed, ReadIsCurrent, WaitExplained,
         InSection, Section
<1>3. NotLoaded /\ ReverseHasForward /\ ImageResolves /\ ReplicaPaired /\ ImageCurrent
  BY DEF Init, NotLoaded, ReverseHasForward, ImageResolves, ReplicaPaired, ImageCurrent, Empty
<1>4. SavedStays /\ AnswersResolve /\ StoredResolve
  BY DEF Init, SavedStays, AnswersResolve, StoredResolve, Empty
<1> QED
  BY <1>1, <1>2, <1>3, <1>4 DEF IInv, DataInv

\* The invariant is kept by every step.
LEMMA InvStep == IInv /\ [Next]_vars => IInv'
<1> SUFFICES ASSUME IInv, [Next]_vars PROVE IInv'
  OBVIOUS
<1>1. TypeOK /\ PhaseFitsBackend /\ LockInv /\ DataInv /\ WaitExplained
  BY DEF IInv
<1>2. TypeOK' /\ PhaseFitsBackend' /\ WaitExplained'
  BY <1>1, TypeStep, PhaseStep, WaitStep
<1>3. LockInv'
  BY <1>1, OneStep, NamedStep, ReadStep DEF LockInv
<1>4. NotLoaded' /\ ReverseHasForward' /\ ImageResolves' /\ ReplicaPaired' /\ ImageCurrent'
  BY <1>1, NotLoadedStep, ReverseHasForwardStep, ImageResolvesStep, ReplicaPairedStep,
     ImageCurrentStep
<1>5. SavedStays' /\ AnswersResolve' /\ StoredResolve'
  BY <1>1, SavedStaysStep, AnswersResolveStep, StoredResolveStep
<1> QED
  BY <1>2, <1>3, <1>4, <1>5 DEF IInv, DataInv

\* The invariant is one of the specification.
LEMMA Invariance == Spec => []IInv
  BY InvInit, InvStep, PTL DEF Spec

\* Every variable of the remote store keeps its type.
THEOREM RemoteTypeCorrect == Spec => []TypeOK
<1>1. IInv => TypeOK
  BY DEF IInv
<1> QED
  BY <1>1, Invariance, PTL

\* Of several workers in the locked section each was overtaken or overtook
\* (_VaultLockContext, anonymize.py:180-249).
THEOREM OneHolderAlways == Spec => []OneHolder
<1>1. IInv => OneHolder
  BY DEF IInv, LockInv
<1> QED
  BY <1>1, Invariance, PTL

\* What save() reported written is lost to a failover or an overtaken holder
\* alone (anonymize.py:1030-1042, :683-717).
THEOREM SavedStaysAlways == Spec => []SavedStays
<1>1. IInv => SavedStays
  BY DEF IInv, DataInv
<1> QED
  BY <1>1, Invariance, PTL

\* A worker's answers can be resolved, but for those that a save cut in two,
\* a failover or an overtaken holder left without a reverse entry
\* (anonymize.py:811-816).
THEOREM AnswersResolveAlways == Spec => []AnswersResolve
<1>1. IInv => AnswersResolve
  BY DEF IInv, DataInv
<1> QED
  BY <1>1, Invariance, PTL

\* The same of the forward entries that are stored.
THEOREM StoredResolveAlways == Spec => []StoredResolve
<1>1. IInv => StoredResolve
  BY DEF IInv, DataInv
<1> QED
  BY <1>1, Invariance, PTL

\* No worker frees the lock of another one (anonymize.py:224-249).
THEOREM OwnLockReleased == Spec => ReleasesOwnLock
<1>1. IInv /\ [Next]_vars => FreedByHolder
  BY ReleaseStep DEF IInv
<1> QED
  BY <1>1, Invariance, PTL DEF Spec, ReleasesOwnLock, FreedByHolder

\* A worker gives up only on a lock that was written while it waited
\* (anonymize.py:170-171, :217-222).
THEOREM TimeoutExplained == Spec => NoNeedlessTimeout
<1>1. IInv /\ [Next]_vars => NoTimeoutBefore
  BY TimeoutStep DEF IInv
<1> QED
  BY <1>1, Invariance, PTL DEF Spec, NoNeedlessTimeout, NoTimeoutBefore

\* The remote store keeps the promise of TokenLedger, with a token durable when
\* both its entries are stored: each step records, drops what a fault excuses
\* and promises what is stored by then (anonymize.py:683-717, :1030-1042).
THEOREM RemoteImplementsLedger == Spec => ImplementsLedger
<1>1. Init => Ledger!Init
  BY DEF Init, Ledger!Init
<1>2. IInv /\ IInv' /\ [Next]_vars => [Ledger!NextTransact]_(Ledger!vars)
  <2> SUFFICES ASSUME IInv, IInv', [Next]_vars PROVE Ledger!NextTransact
    OBVIOUS
  <2>1. /\ fwd \cap rev \subseteq (fwd' \cap rev') \cup excused'
        /\ acked \subseteq acked'
        /\ excused \subseteq excused'
    BY PairsStay DEF IInv
  <2>2. acked' \subseteq (fwd' \cap rev') \cup excused'
    BY DEF IInv, DataInv, SavedStays
  <2>3. fwd' \cap rev' \subseteq Values /\ acked' \in SUBSET Values /\ excused' \in SUBSET Values
    BY DEF IInv, TypeOK
  <2>4. Ledger!Transact(excused', acked')
    BY <2>1, <2>2, <2>3 DEF Ledger!Transact
  <2> QED
    BY <2>3, <2>4 DEF Ledger!NextTransact
<1> QED
  BY <1>1, <1>2, InvStep, Invariance, PTL DEF Spec, ImplementsLedger, Ledger!SpecTransact

=============================================================================
