--------------------------- MODULE RequestPathProofs ---------------------------
(***************************************************************************)
(* Proofs about RequestPath, for any requests, any size of the queue and   *)
(* any number of exceptions in the sampler's thread: the sampling, which   *)
(* does not depend on what the detection finds, and then the field gate,   *)
(* the declared fields, the rewriting and what is left after it, for lines *)
(* of any length; and that the handler and the thread always go on.        *)
(***************************************************************************)
EXTENDS RequestPath, SpanDetectionProofs

\* The queue is a sequence, whatever a sample is.
QueueInv == \E S : queue \in Seq(S)

\* A request in work is one more than those answered.
ServedInv == pc \in {"offer", "put", "count"} => served < MaxRequests

IInv == TypeOK /\ QueueInv /\ ServedInv /\ SamplesConserved /\ DriftReported

-----------------------------------------------------------------------------
(* Lemmas                                                                  *)

\* What put_nowait and get do to the queue.
LEMMA QueueLength ==
    ASSUME QueueInv
    PROVE  /\ Len(queue) \in Nat
           /\ \A x : Len(Append(queue, x)) = Len(queue) + 1 /\ \E S : Append(queue, x) \in Seq(S)
           /\ queue # <<>> => /\ Len(Tail(queue)) = Len(queue) - 1 /\ Len(queue) > 0
                              /\ \E S : Tail(queue) \in Seq(S)
<1>1. PICK S : queue \in Seq(S)
  BY DEF QueueInv
<1>2. Len(queue) \in Nat
  BY <1>1
<1>3. ASSUME NEW x
      PROVE  Len(Append(queue, x)) = Len(queue) + 1 /\ Append(queue, x) \in Seq(S \cup {x})
  <2>1. queue \in Seq(S \cup {x}) /\ x \in S \cup {x}
    BY <1>1
  <2> QED
    BY <2>1
<1>4. ASSUME queue # <<>>
      PROVE  /\ Len(Tail(queue)) = Len(queue) - 1 /\ Len(queue) > 0
             /\ Tail(queue) \in Seq(S)
  BY <1>1, <1>4
<1> QED
  BY <1>2, <1>3, <1>4

\* The queue stays a sequence.
LEMMA QueueStep ==
    QueueInv /\ [Next]_vars => QueueInv'
<1> SUFFICES ASSUME QueueInv, [Next]_vars PROVE QueueInv'
  OBVIOUS
<1>1. CASE Receive
  BY <1>1 DEF QueueInv, Receive
<1>2. CASE NotSampled
  BY <1>2 DEF QueueInv, NotSampled
<1>3. CASE Sampled
  BY <1>3 DEF QueueInv, Sampled
<1>4. CASE Offer
  BY <1>4, QueueLength DEF QueueInv, Offer
<1>5. CASE CountOffer
  BY <1>5 DEF QueueInv, CountOffer
<1>6. CASE Drop
  BY <1>6 DEF QueueInv, Drop
<1>7. CASE Answer
  BY <1>7 DEF QueueInv, Answer
<1>8. CASE Reply
  BY <1>8 DEF QueueInv, Reply
<1>9. CASE Get
  BY <1>9 DEF QueueInv, Get
<1>10. CASE Check
  BY <1>10 DEF QueueInv, Check
<1>11. CASE AppendEvent
  BY <1>11 DEF QueueInv, AppendEvent
<1>12. CASE CheckFails
  BY <1>12 DEF QueueInv, CheckFails
<1>13. CASE AppendFails
  BY <1>13 DEF QueueInv, AppendFails
<1>14. CASE UNCHANGED vars
  BY <1>14 DEF QueueInv, vars
<1> QED
  BY <1>1, <1>2, <1>3, <1>4, <1>5, <1>6, <1>7, <1>8, <1>9, <1>10, <1>11, <1>12, <1>13, <1>14
     DEF Next, Handle, Sampler

\* Counting one more outcome, of whatever item.
LEMMA CountOne ==
    ASSUME NEW f \in [Outcome -> Nat], NEW o
    PROVE  /\ [f EXCEPT ![o] = @ + 1] \in [Outcome -> Nat]
           /\ \A p \in Outcome : [f EXCEPT ![o] = @ + 1][p] = IF p = o THEN f[p] + 1 ELSE f[p]
<1>1. CASE o \in Outcome
  BY <1>1
<1>2. CASE o \notin Outcome
  BY <1>2
<1> QED
  BY <1>2

\* A request is taken while there is one left.
LEMMA ServedStep ==
    TypeOK /\ ServedInv /\ [Next]_vars => ServedInv'
<1> SUFFICES ASSUME TypeOK /\ ServedInv, [Next]_vars PROVE ServedInv'
  OBVIOUS
<1>1. CASE Receive
  BY <1>1 DEF ServedInv, Receive
<1>2. CASE NotSampled
  BY <1>2 DEF ServedInv, NotSampled
<1>3. CASE Sampled
  BY <1>3 DEF ServedInv, Sampled
<1>4. CASE Offer
  BY <1>4 DEF ServedInv, Offer
<1>5. CASE CountOffer
  BY <1>5 DEF ServedInv, CountOffer
<1>6. CASE Drop
  BY <1>6 DEF ServedInv, Drop
<1>7. CASE Answer
  BY <1>7 DEF ServedInv, Answer
<1>8. CASE Reply
  BY <1>8 DEF ServedInv, Reply
<1>9. CASE Get
  BY <1>9 DEF ServedInv, Get, handler
<1>10. CASE Check
  BY <1>10 DEF ServedInv, Check, handler
<1>11. CASE AppendEvent
  BY <1>11 DEF ServedInv, AppendEvent, handler
<1>12. CASE CheckFails
  BY <1>12 DEF ServedInv, CheckFails, handler
<1>13. CASE AppendFails
  BY <1>13 DEF ServedInv, AppendFails, handler
<1>14. CASE UNCHANGED vars
  BY <1>14 DEF ServedInv, vars, handler
<1> QED
  BY <1>1, <1>2, <1>3, <1>4, <1>5, <1>6, <1>7, <1>8, <1>9, <1>10, <1>11, <1>12, <1>13, <1>14
     DEF Next, Handle, Sampler

\* Every step keeps the types.
LEMMA TypeStep ==
    TypeOK /\ QueueInv /\ ServedInv /\ [Next]_vars => TypeOK'
<1> SUFFICES ASSUME TypeOK /\ QueueInv /\ ServedInv, [Next]_vars PROVE TypeOK'
  OBVIOUS
<1>1. CASE Receive
  <2>1. Faults' = Faults
    BY <1>1 DEF Faults, Receive, log
  <2> QED
    BY <1>1, <2>1 DEF TypeOK, Receive, counts, log, work
<1>2. CASE NotSampled
  <2>1. Faults' = Faults
    BY <1>2 DEF Faults, NotSampled, log
  <2> QED
    BY <1>2, <2>1 DEF TypeOK, NotSampled, counts, log, work
<1>3. CASE Sampled
  <2>1. Faults' = Faults
    BY <1>3 DEF Faults, Sampled, log
  <2> QED
    BY <1>3, <2>1 DEF TypeOK, Sampled, counts, log, work
<1>4. CASE Offer
  <2>1. Faults' = Faults
    BY <1>4 DEF Faults, Offer, log
  <2> QED
    BY <1>4, <2>1, RequestBounds DEF TypeOK, Offer, counts, log, work
<1>5. CASE CountOffer
  <2>1. Faults' = Faults
    BY <1>5 DEF Faults, CountOffer, log
  <2> QED
    BY <1>5, <2>1 DEF TypeOK, CountOffer, log, work
<1>6. CASE Drop
  <2>1. Faults' = Faults
    BY <1>6 DEF Faults, Drop, log
  <2> QED
    BY <1>6, <2>1 DEF TypeOK, Drop, log, work
<1>7. CASE Answer
  <2>1. Faults' = Faults
    BY <1>7 DEF Faults, Answer, log
  <2> QED
    BY <1>7, <2>1, RequestBounds DEF TypeOK, ServedInv, Answer, counts, log, work
<1>8. CASE Reply
  <2>1. Faults' = Faults
    BY <1>8 DEF Faults, Reply, log
  <2> QED
    BY <1>8, <2>1 DEF TypeOK, Reply, counts, log, work
<1>9. CASE Get
  <2>1. Faults' = Faults
    BY <1>9 DEF Faults, Get, log
  <2> QED
    BY <1>9, <2>1, RequestBounds DEF TypeOK, Get, handler, counts, log, work
<1>10. CASE Check
  <2>1. outcomes' \in [Outcome -> Nat]
    BY <1>10, CountOne DEF TypeOK, Check
  <2>2. Faults' = Faults
    BY <1>10 DEF Faults, Check, log
  <2> QED
    BY <1>10, <2>1, <2>2 DEF TypeOK, Check, handler, work, log
<1>11. CASE AppendEvent
  <2>1. events' \in [Outcome -> Nat]
    BY <1>11, CountOne DEF TypeOK, AppendEvent
  <2>2. Faults' = Faults
    BY <1>11 DEF Faults, AppendEvent
  <2> QED
    BY <1>11, <2>1, <2>2 DEF TypeOK, AppendEvent, handler, work, counts
<1>12. CASE CheckFails
  <2>1. Faults' <= MaxFaults
    <3>1. Faults < MaxFaults /\ unfinished' = unfinished + 1 /\ unlogged' = unlogged
      BY <1>12 DEF CheckFails
    <3>2. /\ unfinished \in Nat /\ unlogged["consistent"] \in Nat
          /\ unlogged["no_signal"] \in Nat /\ unlogged["drift_detected"] \in Nat
      BY DEF TypeOK, Outcome
    <3> QED
      BY <3>1, <3>2, RequestBounds DEF Faults
  <2>2. UNCHANGED <<request, pc, served, queue, enqueued, dropped, processed,
                    outcomes, events, unlogged>>
    BY <1>12 DEF CheckFails, handler, work, counts
  <2> QED
    BY <1>12, <2>1, <2>2 DEF TypeOK, CheckFails, AfterError
<1>13. CASE AppendFails
  <2>1. unlogged' \in [Outcome -> Nat]
    BY <1>13, CountOne DEF TypeOK, AppendFails
  <2>2. Faults' <= MaxFaults
    <3>1. /\ Faults < MaxFaults /\ unfinished' = unfinished
          /\ unlogged' = [unlogged EXCEPT ![item.outcome] = @ + 1]
      BY <1>13 DEF AppendFails
    <3>2. /\ unfinished \in Nat /\ unlogged["consistent"] \in Nat
          /\ unlogged["no_signal"] \in Nat /\ unlogged["drift_detected"] \in Nat
      BY DEF TypeOK, Outcome
    <3>3. \A p \in Outcome :
             unlogged'[p] = IF p = item.outcome THEN unlogged[p] + 1 ELSE unlogged[p]
      BY <3>1 DEF TypeOK
    <3>4. Faults' <= Faults + 1
      BY <3>1, <3>2 DEF Faults
    <3>5. Faults \in Nat /\ Faults' \in Nat
      BY <3>1, <3>2 DEF Faults
    <3> QED
      BY <3>1, <3>4, <3>5, RequestBounds
  <2>3. UNCHANGED <<request, pc, served, queue, enqueued, dropped, processed,
                    outcomes, events, unfinished>>
    BY <1>13 DEF AppendFails, handler, work, counts
  <2> QED
    BY <1>13, <2>1, <2>2, <2>3 DEF TypeOK, AppendFails, AfterError
<1>14. CASE UNCHANGED vars
  <2>1. Faults' = Faults
    BY <1>14 DEF Faults, vars, log
  <2> QED
    BY <1>14, <2>1 DEF TypeOK, vars, handler, counts, log, work
<1> QED
  BY <1>1, <1>2, <1>3, <1>4, <1>5, <1>6, <1>7, <1>8, <1>9, <1>10, <1>11, <1>12, <1>13, <1>14
     DEF Next, Handle, Sampler

\* Every step keeps the samples conserved.
LEMMA ConservedStep ==
    TypeOK /\ QueueInv /\ SamplesConserved /\ [Next]_vars => SamplesConserved'
<1> SUFFICES ASSUME TypeOK /\ QueueInv /\ SamplesConserved, [Next]_vars PROVE SamplesConserved'
  OBVIOUS
<1>1. CASE Receive
  BY <1>1 DEF SamplesConserved, Receive, counts, log
<1>2. CASE NotSampled
  BY <1>2 DEF SamplesConserved, NotSampled, counts, log
<1>3. CASE Sampled
  BY <1>3 DEF SamplesConserved, Sampled, counts, log
<1>4. CASE Offer
  BY <1>4 DEF TypeOK, SamplesConserved, Offer, counts, log
<1>5. CASE CountOffer
  BY <1>5 DEF SamplesConserved, CountOffer, log
<1>6. CASE Drop
  BY <1>6 DEF SamplesConserved, Drop, log
<1>7. CASE Answer
  BY <1>7 DEF SamplesConserved, Answer, counts, log
<1>8. CASE Reply
  BY <1>8 DEF SamplesConserved, Reply, counts, log
<1>9. CASE Get
  BY <1>9 DEF TypeOK, SamplesConserved, Get, handler, counts, log
<1>10. CASE Check
  BY <1>10 DEF TypeOK, SamplesConserved, Check, handler, log
<1>11. CASE AppendEvent
  BY <1>11 DEF SamplesConserved, AppendEvent, handler, counts
<1>12. CASE CheckFails
  BY <1>12 DEF TypeOK, SamplesConserved, AfterError, CheckFails, handler, counts
<1>13. CASE AppendFails
  BY <1>13 DEF SamplesConserved, AfterError, AppendFails, handler, counts
<1>14. CASE UNCHANGED vars
  BY <1>14 DEF SamplesConserved, vars, handler, counts, log
<1> QED
  BY <1>1, <1>2, <1>3, <1>4, <1>5, <1>6, <1>7, <1>8, <1>9, <1>10, <1>11, <1>12, <1>13, <1>14
     DEF Next, Handle, Sampler

\* Every step keeps the drifts reported.
LEMMA ReportedStep ==
    TypeOK /\ DriftReported /\ [Next]_vars => DriftReported'
<1> SUFFICES ASSUME TypeOK /\ DriftReported, [Next]_vars PROVE DriftReported'
  OBVIOUS
<1>1. CASE Receive
  BY <1>1 DEF DriftReported, Receive, counts, log
<1>2. CASE NotSampled
  BY <1>2 DEF DriftReported, NotSampled, counts, log
<1>3. CASE Sampled
  BY <1>3 DEF DriftReported, Sampled, counts, log
<1>4. CASE Offer
  BY <1>4 DEF DriftReported, Offer, counts, log
<1>5. CASE CountOffer
  BY <1>5 DEF DriftReported, CountOffer, log
<1>6. CASE Drop
  BY <1>6 DEF DriftReported, Drop, log
<1>7. CASE Answer
  BY <1>7 DEF DriftReported, Answer, counts, log
<1>8. CASE Reply
  BY <1>8 DEF DriftReported, Reply, counts, log
<1>9. CASE Get
  BY <1>9 DEF DriftReported, Get, counts, log
<1>10. CASE Check
  BY <1>10 DEF TypeOK, DriftReported, Outcome, Check, log
<1>11. CASE AppendEvent
  BY <1>11 DEF TypeOK, DriftReported, Outcome, AppendEvent, counts
<1>12. CASE CheckFails
  BY <1>12 DEF DriftReported, NoItem, CheckFails, counts
<1>13. CASE AppendFails
  BY <1>13 DEF TypeOK, DriftReported, NoItem, Outcome, AppendFails, counts
<1>14. CASE UNCHANGED vars
  BY <1>14 DEF DriftReported, vars, counts, log
<1> QED
  BY <1>1, <1>2, <1>3, <1>4, <1>5, <1>6, <1>7, <1>8, <1>9, <1>10, <1>11, <1>12, <1>13, <1>14
     DEF Next, Handle, Sampler

\* The initial state satisfies the invariant.
LEMMA InitInv == Init => IInv
<1> SUFFICES ASSUME Init PROVE IInv
  OBVIOUS
<1>1. TypeOK
  BY RequestBounds DEF Init, TypeOK, Outcome, Faults
<1>2. QueueInv
  BY DEF Init, QueueInv
<1>3. ServedInv /\ SamplesConserved /\ DriftReported
  BY DEF Init, ServedInv, SamplesConserved, DriftReported, Outcome
<1> QED
  BY <1>1, <1>2, <1>3 DEF IInv

\* Every step keeps the invariant.
LEMMA NextInv == IInv /\ [Next]_vars => IInv'
  BY TypeStep, QueueStep, ServedStep, ConservedStep, ReportedStep DEF IInv

LEMMA InvariantHolds == Spec => []IInv
  BY InitInv, NextInv, PTL DEF Spec

-----------------------------------------------------------------------------
(* What follows.                                                           *)

\* The handler's and the sampler's variables keep their types, and the queue
\* its bound.
THEOREM RequestTypeCorrect == Spec => []TypeOK
<1>1. IInv => TypeOK
  BY DEF IInv
<1> QED
  BY <1>1, InvariantHolds, PTL

\* No sample that maybe_sample() put disappears between the queue and the
\* counters of _process_one(), though each side counts at its own time.
THEOREM NoSampleDisappears == Spec => []SamplesConserved
<1>1. IInv => SamplesConserved
  BY DEF IInv
<1> QED
  BY <1>1, InvariantHolds, PTL

\* A drift that is counted is written to the audit log, or being written,
\* unless appending to the log raised.
THEOREM CountedDriftIsReported == Spec => []DriftReported
<1>1. IInv => DriftReported
  BY DEF IInv
<1> QED
  BY <1>1, InvariantHolds, PTL

-----------------------------------------------------------------------------
(* The field gate, for lines of any length.                                *)

LEMMA LinesAreCells == TypeOK => line \in Seq(Cell)
  BY RequestLines DEF TypeOK, line

\* The words of the properties in those of the operators.
LEMMA GateWords ==
    /\ Values(TRUE) = CoveredValues(line, request.logType)
    /\ Values(FALSE) =
         FieldValues(line, request.logType) \ CoveredValues(line, request.logType)
    /\ CutOut = CutBy(line, CoveredValues(line, request.logType))
    /\ \A h : h.e \in Int /\ Touches(line, CutOut, h.s, h.e - 1) => TouchesCut(h)
<1>1. Values(TRUE) = CoveredValues(line, request.logType)
  BY DEF Values, CoveredValues, Covered
<1>2. Values(FALSE) =
          FieldValues(line, request.logType) \ CoveredValues(line, request.logType)
  BY DEF Values, CoveredValues, Covered
<1>3. CutOut = CutBy(line, CoveredValues(line, request.logType))
  BY <1>1 DEF CutOut, CutBy
<1>4. ASSUME NEW h, h.e \in Int, Touches(line, CutOut, h.s, h.e - 1)
      PROVE  TouchesCut(h)
  <2>1. (h.e - 1) + 1 = h.e
    BY <1>4
  <2> QED BY <2>1, <1>4 DEF Touches, TouchesCut
<1> QED
  BY <1>1, <1>2, <1>3, <1>4

LEMMA GateAddsNothingHolds == TypeOK => GateAddsNothing
<1> SUFFICES ASSUME TypeOK,
                    NEW h \in ToSet(DetectGated(line, request.logType)) \ ToSet(DetectAll(line))
             PROVE  /\ TouchesCut(h)
                    /\ \A v \in Values(TRUE) :
                          ~ (line[h.s] \in Word /\ IsCell(line, h.s + 1, "eq") /\ v.s = h.s + 2)
  BY DEF GateAddsNothing
<1>1. line \in Seq(Cell)
  BY LinesAreCells
<1> DEFINE t == line
           cut == CutBy(t, CoveredValues(t, request.logType))
<1> HIDE DEF t
<1>t. t \in Seq(Cell) /\ h \in ToSet(DetectGated(t, request.logType)) \ ToSet(DetectAll(t))
  BY <1>1 DEF t
<1>2. h \in Spans(Len(t)) /\ Touches(t, cut, h.s, h.e - 1) /\ h.s \notin cut
  BY <1>t, GateAdds
<1>3. h.s \in 1 .. Len(t) /\ h.s \in Int /\ h.e \in Int /\ Len(t) \in Nat
  BY <1>t, <1>2 DEF Spans
<1>4. TouchesCut(h)
  BY <1>2, <1>3, GateWords DEF t
<1>5. ASSUME NEW v \in Values(TRUE),
             t[h.s] \in Word, IsCell(t, h.s + 1, "eq"), v.s = h.s + 2
      PROVE  FALSE
  <2>1. v \in CoveredValues(t, request.logType) /\ v \in Places(t, Field)
    <3>1. v \in CoveredValues(t, request.logType)
      BY GateWords DEF t
    <3>2. v \in FieldValues(t, request.logType)
      BY <3>1 DEF CoveredValues, Covered
    <3> QED BY <3>1, <3>2, <1>t, FieldPlaces
  <2>2. v.s - 1 = h.s + 1 /\ v.s - 2 = h.s /\ v.s > 2 /\ v.s <= v.e - 1
    <3>1. v.e = v.s + Len(v.field.value) /\ Len(v.field.value) \in Nat /\ Len(v.field.value) # 0
      BY <2>1 DEF Places, Field
    <3> QED BY <3>1, <1>3, <1>5
  <2>3. WithKey(t, v) = v.s - 2 .. v.e - 1
    BY <2>2, <1>5 DEF WithKey
  <2>4. h.s \in WithKey(t, v)
    <3>1. v.e \in Int /\ v.s \in Int
      BY <1>t, <2>1 DEF Places
    <3>2. h.s \in v.s - 2 .. v.e - 1
      BY <3>1, <2>2, <1>3
    <3> QED BY <3>2, <2>3
  <2> QED BY <2>1, <2>4, <1>2 DEF CutBy
<1> QED
  BY <1>4, <1>5 DEF t

LEMMA GateLosesOnlyHolds == TypeOK => GateLosesOnly
<1> SUFFICES ASSUME TypeOK,
                    NEW h \in ToSet(DetectAll(line)) \ ToSet(DetectGated(line, request.logType))
             PROVE  \/ h \in Dangling(line)
                    \/ h \in Names(line) \cup LongEmails(line) /\ TouchesCut(h)
                    \/ /\ h \in Names(line) \cup LongEmails(line)
                       /\ Values(TRUE) # {}
                       /\ \A v \in Values(FALSE) :
                             ~Overlaps(h, v) /\ \A i \in Cells(v) : line[i] \notin Alphabetic
  BY DEF GateLosesOnly
<1>1. line \in Seq(Cell)
  BY LinesAreCells
<1> DEFINE t == line
           logType == request.logType
           cut == CutBy(t, CoveredValues(t, logType))
<1> HIDE DEF t, logType
<1>t. t \in Seq(Cell) /\ h \in ToSet(DetectAll(t)) \ ToSet(DetectGated(t, logType))
  BY <1>1 DEF t, logType
<1>2. \/ h \in Dangling(t)
      \/ h \in Names(t) \cup LongEmails(t) /\ Touches(t, cut, h.s, h.e - 1)
      \/ /\ h \in Names(t) \cup LongEmails(t)
         /\ CoveredValues(t, logType) # {}
         /\ \A v \in FieldValues(t, logType) \ CoveredValues(t, logType) : ~HasLetters(t, v)
  BY <1>t, GateLoses
<1>3. CASE h \in Dangling(t)
  BY <1>3 DEF t
<1>4. CASE h \in Names(t) \cup LongEmails(t) /\ Touches(t, cut, h.s, h.e - 1)
  <2>1. /\ SpansIn("PERSON", Len(t), Names(t)) /\ SpansIn("EMAIL", Len(t), LongEmails(t))
        /\ Len(t) \in Nat
    <3>1. t \in Seq(Cell)
      BY <1>t
    <3>2. Len(t) \in Nat
      BY <3>1
    <3> QED BY <3>1, <3>2, Recognised
  <2>2. PICK x \in 1 .. Len(t), y \in 2 .. Len(t) + 1 :
            h = Span("PERSON", x, y) \/ h = Span("EMAIL", x, y)
    BY <2>1, <1>4 DEF SpansIn
  <2>3. h.e \in Int
    BY <2>1, <2>2 DEF Span
  <2>4. TouchesCut(h)
    BY <2>3, <1>4, GateWords DEF t, logType
  <2> QED BY <2>4, <1>4 DEF t
<1>5. CASE /\ h \in Names(t) \cup LongEmails(t)
           /\ CoveredValues(t, logType) # {}
           /\ \A v \in FieldValues(t, logType) \ CoveredValues(t, logType) : ~HasLetters(t, v)
  <2>1. Values(TRUE) # {}
    BY <1>5, GateWords DEF t, logType
  <2>2. ASSUME NEW v \in Values(FALSE)
        PROVE  ~Overlaps(h, v) /\ \A i \in Cells(v) : t[i] \notin Alphabetic
    <3>1. /\ v \in FieldValues(t, logType) \ CoveredValues(t, logType)
          /\ ~HasLetters(t, v)
      BY <1>5, GateWords DEF t, logType
    <3>2. v \in Places(t, Field)
      BY <3>1, <1>t, FieldPlaces
    <3>3. \A g \in ToSet(ScanRegex(t)) : ~Overlaps(g, v)
      BY <3>1 DEF CoveredValues, Covered
    <3>4. ~Overlaps(h, v)
      BY <3>1, <3>2, <3>3, <1>t, <1>5, NoNameInNumbers, NoAddressInNumbers
    <3> QED BY <3>1, <3>4 DEF HasLetters
  <2> QED BY <2>1, <2>2, <1>5 DEF t
<1> QED
  BY <1>2, <1>3, <1>4, <1>5

\* The field gate makes up no finding that would hide a field name, and what
\* it finds beyond the whole line touches what it cut out.
THEOREM GateMakesNothingUp == Spec => []GateAddsNothing
  BY RequestTypeCorrect, GateAddsNothingHolds, PTL

\* The field gate hides from the NER model only what it cuts out.
THEOREM GateHidesOnlyCuts == Spec => []GateLosesOnly
  BY RequestTypeCorrect, GateLosesOnlyHolds, PTL

-----------------------------------------------------------------------------
(* The work of a request.                                                  *)

\* What the detection and the rewriting make of the line, which no step of the
\* handler or of the sampler changes.
WorkInv ==
    /\ TrustAccepted(request.file)
    /\ found = Typed(DetectSchemaAware(line, request.logType, trust))
    /\ kept = DedupSpans(found)
    /\ answer = Rewrite(line, kept)

LEMMA WorkKept == [Next]_vars => UNCHANGED work
<1> SUFFICES ASSUME [Next]_vars PROVE UNCHANGED work
  OBVIOUS
<1>1. CASE Handle
  BY <1>1 DEF Handle, Receive, NotSampled, Sampled, Offer, CountOffer, Drop, Answer, Reply
<1>2. CASE Sampler
  BY <1>2 DEF Sampler, Get, Check, AppendEvent, CheckFails, AppendFails, handler
<1>3. CASE UNCHANGED vars
  BY <1>3 DEF vars, handler
<1> QED
  BY <1>1, <1>2, <1>3 DEF Next

LEMMA WorkHolds == Spec => []WorkInv
<1>1. Init => WorkInv
  BY DEF Init, WorkInv
<1>2. WorkInv /\ [Next]_vars => WorkInv'
  <2> SUFFICES ASSUME WorkInv, [Next]_vars PROVE WorkInv'
    OBVIOUS
  <2>1. UNCHANGED work
    BY WorkKept
  <2>2. request' = request /\ found' = found /\ kept' = kept /\ answer' = answer
    BY <2>1 DEF work
  <2> QED BY <2>2 DEF WorkInv, line, trust
<1> QED
  BY <1>1, <1>2, PTL DEF Spec

\* What is found are spans of the line, of types that the policy replaces.
PolicySpans(n) == {h \in Spans(n) : h.type \in CanonicalTypes}

LEMMA TypedSpans ==
    ASSUME NEW n \in Nat, NEW hits \in Seq(Spans(n))
    PROVE  /\ Typed(hits) \in Seq(PolicySpans(n))
           /\ ToSet(Typed(hits)) = {h \in ToSet(hits) : h.type # "HIGH_ENTROPY"}
<1> DEFINE S == {i \in DOMAIN hits : IsTyped(hits[i])}
           c == Typed(hits)
<1>1. c = Chosen(hits, S)
  BY DEF Typed
<1>2. c \in Seq(Spans(n)) /\ ToSet(c) = {hits[i] : i \in S \cap DOMAIN hits}
  <2> HIDE DEF S
  <2> QED BY <1>1, ChosenCells, ChosenMembers
<1> HIDE DEF c
<1>3. ToSet(c) = {h \in ToSet(hits) : h.type # "HIGH_ENTROPY"}
  BY <1>2 DEF ToSet, IsTyped
<1>4. \A h \in ToSet(c) : h \in PolicySpans(n)
  <2>1. \A h \in ToSet(hits) : h \in Spans(n)
    BY DEF ToSet
  <2> QED BY <2>1, <1>3 DEF PolicySpans, Spans, Types
<1>5. c \in Seq(PolicySpans(n))
  <2>1. \A i \in 1 .. Len(c) : c[i] \in ToSet(c)
    BY <1>2 DEF ToSet
  <2> QED BY <1>2, <1>4, <2>1
<1> QED
  BY <1>3, <1>5 DEF c

LEMMA FoundSpans ==
    ASSUME TypeOK, WorkInv
    PROVE  /\ line \in Seq(Cell) /\ Len(line) \in Nat
           /\ DeclaresTypes(trust)
           /\ found \in Seq(PolicySpans(Len(line)))
           /\ ToSet(found) = {h \in ToSet(DetectSchemaAware(line, request.logType, trust)) :
                                 h.type # "HIGH_ENTROPY"}
<1>1. line \in Seq(Cell) /\ Len(line) \in Nat
  <2>1. line \in Seq(Cell)
    BY LinesAreCells
  <2> HIDE DEF line
  <2> QED BY <2>1
<1>2. DeclaresTypes(trust)
  BY TrustTypes DEF DeclaresTypes, WorkInv, trust
<1> DEFINE hits == DetectSchemaAware(line, request.logType, trust)
<1>3. hits \in Seq(Spans(Len(line)))
  BY <1>1, <1>2, SchemaAwareSpans
<1>4. found = Typed(hits)
  BY DEF WorkInv
<1> HIDE DEF hits
<1>5. /\ Typed(hits) \in Seq(PolicySpans(Len(line)))
      /\ ToSet(Typed(hits)) = {h \in ToSet(hits) : h.type # "HIGH_ENTROPY"}
  BY <1>1, <1>3, TypedSpans
<1> QED
  BY <1>1, <1>2, <1>4, <1>5 DEF hits

LEMMA DeclaredCoveredHolds == TypeOK /\ WorkInv => DeclaredCovered
<1> DEFINE at(f) == {i \in DOMAIN line : FindFrom(line, f.value, i) = i}
<1> SUFFICES ASSUME TypeOK, WorkInv,
                    NEW f \in ToSet(ExtractFields(request.logType, line)),
                    f.name \in DOMAIN trust, f.value # <<>>, Cardinality(at(f)) = 1
             PROVE  \E h \in ToSet(found) :
                        h.type = trust[f.name] /\ at(f) = {h.s} /\ h.e - h.s = Len(f.value)
  BY DEF DeclaredCovered
<1> DEFINE t == line
           logType == request.logType
           T == trust
           v == f.value
           places == at(f)
<1>1. t \in Seq(Cell) /\ Len(t) \in Nat /\ DeclaresTypes(T)
  BY FoundSpans
<1>2. places = {i \in DOMAIN t : FindFrom(t, v, i) = i}
  OBVIOUS
<1>3. f \in Field /\ v \in Seq(Cell)
  <2>1. ExtractFields(logType, t) \in Seq(Field)
    BY <1>1, ExtractedFields
  <2>2. f \in Field
    BY <2>1 DEF ToSet
  <2> QED BY <2>2 DEF Field
<1>4. PICK x : places = {x}
  <2>1. IsFiniteSet(places)
    <3>1. IsFiniteSet(1 .. Len(t)) /\ places \subseteq 1 .. Len(t)
      <4>1. IsFiniteSet(1 .. Len(t))
        BY <1>1, FS_Interval
      <4>2. DOMAIN t = 1 .. Len(t)
        BY <1>1
      <4> QED BY <4>1, <4>2
    <3> HIDE DEF places
    <3> QED BY <3>1, FS_Subset
  <2>2. Cardinality(places) = 1
    OBVIOUS
  <2> HIDE DEF places
  <2> QED BY <2>1, <2>2, FS_Singleton
<1> HIDE DEF places, at, t, v, T, logType
<1>5. \A i \in 1 .. Len(t) : i \in places <=> Occurs(t, v, i)
  <2> SUFFICES ASSUME NEW i \in 1 .. Len(t)
               PROVE  i \in places <=> Occurs(t, v, i)
    OBVIOUS
  <2>1. i \in Nat \ {0} /\ i <= i /\ i \in DOMAIN t
    BY <1>1
  <2>2. i \in places <=> FindFrom(t, v, i) = i
    BY <1>2, <2>1
  <2>3. ASSUME FindFrom(t, v, i) = i
        PROVE  Occurs(t, v, i)
    BY <2>1, <2>3, <1>1, <1>3, FindFromFinds
  <2>4. ASSUME Occurs(t, v, i)
        PROVE  FindFrom(t, v, i) = i
    <3>1. FindFrom(t, v, i) # 0
      BY <2>1, <2>4, <1>1, <1>3, FindFromFinds
    <3>2. FindFrom(t, v, i) >= i /\ FindFrom(t, v, i) <= i /\ FindFrom(t, v, i) \in Int
      BY <3>1, <2>1, <2>4, <1>1, <1>3, FindFromFinds DEF Occurs
    <3> QED BY <3>2, <2>1
  <2> QED BY <2>2, <2>3, <2>4
<1>6. x \in 1 .. Len(t) /\ Occurs(t, v, x)
  <2>1. x \in DOMAIN t
    BY <1>2, <1>4
  <2>2. x \in 1 .. Len(t)
    BY <2>1, <1>1
  <2> QED BY <2>2, <1>4, <1>5
<1>7. PICK a \in ToSet(Declared(t, logType, T)) : a.field = f
  <2>1. f \in ToSet(ExtractFields(logType, t)) /\ f.name \in DOMAIN T /\ f.value # <<>>
    BY DEF t, logType, T
  <2>2. \E i \in Nat : Occurs(t, f.value, i)
    BY <1>6 DEF v
  <2> QED BY <2>1, <2>2, <1>1, DeclaredFields
<1>8. a \in Places(t, Field) /\ a.s \in 1 .. Len(t) /\ a.e = a.s + Len(v) /\ Occurs(t, v, a.s)
  <2>1. a \in Places(t, Field)
    BY <1>1, DeclaredFields
  <2> QED BY <2>1, <1>7 DEF Places, v
<1>9. a.s = x
  BY <1>4, <1>5, <1>8
<1> DEFINE h == TrustSpan(a, T)
<1>10. h.type = T[f.name] /\ h.s = a.s /\ h.e = a.e
  BY <1>7 DEF TrustSpan, Span
<1>11. h.type # "HIGH_ENTROPY"
  <2>1. T[f.name] \in CanonicalTypes
    BY <1>1 DEF DeclaresTypes, T
  <2> QED BY <2>1, <1>10 DEF CanonicalTypes
<1>12. h \in ToSet(found)
  <2>1. h \in ToSet(DetectSchemaAware(t, logType, T))
    BY <1>1, <1>7, SchemaAwareSpans
  <2>2. ToSet(found) = {g \in ToSet(DetectSchemaAware(t, logType, T)) : g.type # "HIGH_ENTROPY"}
    BY FoundSpans DEF t, logType, T
  <2> HIDE DEF h
  <2> QED BY <2>1, <2>2, <1>11
<1>13. h.e - h.s = Len(v)
  <2> DEFINE L == Len(v)
             y == a.s
  <2>1. L \in Nat /\ y \in Nat /\ h.s = y /\ h.e = y + L
    BY <1>3, <1>8, <1>10
  <2> HIDE DEF L, y, h
  <2>2. h.e - h.s = L
    BY <2>1
  <2> QED BY <2>2 DEF L
<1>14. at(f) = {h.s}
  BY <1>4, <1>9, <1>10 DEF places
<1> HIDE DEF h
<1> QED
  BY <1>10, <1>12, <1>13, <1>14 DEF T, v

\* A declared field whose value is in the line once is covered, whatever the
\* other fields hold and wherever the search for them went.
THEOREM DeclaredAreCovered == Spec => []DeclaredCovered
  BY RequestTypeCorrect, WorkHolds, DeclaredCoveredHolds, PTL

LEMMA RewriteExactHolds == TypeOK /\ WorkInv => RewriteExact
<1> SUFFICES ASSUME TypeOK, WorkInv, Disjoint(kept)
             PROVE  /\ answer.out = Replaced1(line, kept)
                    /\ ToSet(answer.seen)
                         = {[n \in 1 .. h.e - h.s |-> h.s + n - 1] : h \in ToSet(kept)}
  BY DEF RewriteExact
<1> DEFINE t == line
           n == Len(t)
           d == DedupSpans(kept)
           c == FromRight(d)
<1>1. t \in Seq(Cell) /\ n \in Nat /\ found \in Seq(PolicySpans(n))
  BY FoundSpans
<1>2. answer = Applied(t, c)
  BY DEF WorkInv, Rewrite
<1>3. Replaced1(t, kept) = Joined(n, ToSet(kept))
  <2>1. DOMAIN t = 1 .. n
    BY <1>1
  <2> QED BY <2>1 DEF Replaced1, Joined, Piece
<1> HIDE DEF t
<1>4. kept \in Seq(Spans(n)) /\ \A h \in ToSet(kept) : h.type \in CanonicalTypes
  <2>1. \A h \in ToSet(found) : h \in Spans(n) /\ h.type \in CanonicalTypes
    BY <1>1 DEF ToSet, PolicySpans
  <2>2. found \in Seq(Spans(n))
    BY <1>1, SeqMonotonic DEF PolicySpans
  <2>3. kept \in Seq(ToSet(found))
    BY <1>1, <2>2, DedupSpansKeeps DEF WorkInv
  <2>4. \A h \in ToSet(kept) : h \in ToSet(found)
    BY <2>3 DEF ToSet
  <2>5. ToSet(found) \subseteq Spans(n)
    BY <2>1
  <2> QED BY <2>1, <2>3, <2>4, <2>5, SeqMonotonic
<1>5. d \in Seq(Spans(n)) /\ ToSet(d) = ToSet(kept) /\ Apart(d)
  <2>1. kept \in Seq(Spans(n))
    BY <1>4
  <2>2. n \in Nat
    BY <1>1
  <2>3. Apart(kept)
    BY DEF Disjoint, Apart
  <2>4. d = FromLeft(kept)
    BY <2>1, <2>2, <2>3, DedupSpansApart
  <2>5. d \in Seq(Spans(n)) /\ Rearranged(d, kept)
    BY <2>1, <2>2, <2>4, ArrangedFromLeft
  <2> HIDE DEF d
  <2> QED BY <2>1, <2>2, <2>3, <2>5, RearrangedKeeps
<1> HIDE DEF d
<1>6. /\ c \in Seq(Spans(n))
      /\ ToSet(c) = ToSet(kept)
      /\ \A i, j \in 1 .. Len(c) : i < j => c[j].e <= c[i].s
  <2>1. d \in Seq(Spans(n))
    BY <1>5
  <2>2. n \in Nat
    BY <1>1
  <2>3. Apart(d)
    BY <1>5
  <2>4. /\ c \in Seq(Spans(n)) /\ ToSet(c) = ToSet(d)
        /\ \A i, j \in 1 .. Len(c) : i < j => c[j].e <= c[i].s
    BY <2>1, <2>2, <2>3, ApartFromRight
  <2> HIDE DEF c
  <2> QED BY <2>4, <1>5
<1> HIDE DEF c
<1>7. \A k \in 1 .. Len(c) : c[k].type \in CanonicalTypes
  <2>1. \A k \in 1 .. Len(c) : c[k] \in ToSet(c)
    BY <1>6 DEF ToSet
  <2> QED BY <2>1, <1>4, <1>6
<1>8. /\ Applied(t, c).out = Joined(Len(t), ToSet(c))
      /\ ToSet(Applied(t, c).seen) = {Text(h) : h \in ToSet(c)}
  <2>1. t \in Seq(Cell)
    BY <1>1
  <2>2. c \in Seq(Spans(Len(t)))
    BY <1>6
  <2>3. \A i, j \in 1 .. Len(c) : i < j => c[j].e <= c[i].s
    BY <1>6
  <2> QED BY <2>1, <2>2, <2>3, <1>7, AppliedApart
<1> QED
  BY <1>2, <1>3, <1>6, <1>8 DEF t, Text

\* Spans that do not overlap are each replaced once, and each token or
\* pseudonym is made from the text that its span covers.
THEOREM RewritingIsExact == Spec => []RewriteExact
  BY RequestTypeCorrect, WorkHolds, RewriteExactHolds, PTL

LEMMA FoundIsGoneHolds == TypeOK /\ WorkInv => FoundIsGone
<1> SUFFICES ASSUME TypeOK, WorkInv, NEW h \in ToSet(found)
             PROVE  \E k \in ToSet(kept) :
                       /\ k.type = h.type
                       /\ h.s \in Cells(k)
                       /\ EndMoved(k) \/ Cells(h) \cap Cells(k) \cap ToSet(answer.out) = {}
  BY DEF FoundIsGone
<1> DEFINE t == line
           n == Len(t)
<1>1. t \in Seq(Cell) /\ n \in Nat /\ found \in Seq(PolicySpans(n))
  BY FoundSpans
<1>2. kept = DedupSpans(found) /\ answer = Rewrite(t, kept)
  BY DEF WorkInv
<1>3. \A k \in ToSet(kept) :
          EndMoved(k) <=> \E g \in ToSet(kept) : k.s <= g.s /\ g.e < k.e
  BY DEF EndMoved
<1> HIDE DEF t
<1>4. found \in Seq(Spans(n)) /\ \A g \in ToSet(found) : g.type \in CanonicalTypes
  <2>1. PolicySpans(n) \subseteq Spans(n) /\ \A g \in PolicySpans(n) : g.type \in CanonicalTypes
    BY DEF PolicySpans
  <2>2. \A g \in ToSet(found) : g \in PolicySpans(n)
    BY <1>1 DEF ToSet
  <2> QED BY <2>1, <2>2, <1>1, SeqMonotonic
<1>5. /\ ToSet(kept) \subseteq ToSet(found)
      /\ kept \in Seq(Spans(n)) /\ TypesApart(kept)
      /\ \E k \in ToSet(kept) : k.type = h.type /\ k.s <= h.s /\ h.s < k.e
  <2>1. /\ ToSet(DedupSpans(found)) \subseteq ToSet(found)
        /\ \E k \in ToSet(DedupSpans(found)) : k.type = h.type /\ k.s <= h.s /\ h.s < k.e
    BY <1>1, <1>4, DedupSpansCover
  <2>2. DedupSpans(found) \in Seq(Spans(n)) /\ TypesApart(DedupSpans(found))
    BY <1>1, <1>4, DedupSpansKept
  <2> QED BY <2>1, <2>2, <1>2
<1>6. PICK k \in ToSet(kept) : k.type = h.type /\ k.s <= h.s /\ h.s < k.e
  BY <1>5
<1>7. h.s \in Cells(k)
  <2>1. h \in Spans(n) /\ k \in Spans(n)
    BY <1>4, <1>5, <1>6 DEF ToSet
  <2>2. h.s \in Int /\ k.s \in Int /\ k.e \in Int
    BY <2>1, <1>1 DEF Spans
  <2> QED BY <2>2, <1>6 DEF Cells
<1>8. ~EndMoved(k) => Cells(k) \cap ToSet(answer.out) = {}
  <2> SUFFICES ASSUME ~EndMoved(k) PROVE Cells(k) \cap ToSet(Rewrite(t, kept).out) = {}
    BY <1>2
  <2>1. \A g \in ToSet(kept) : ~ (k.s <= g.s /\ g.e < k.e)
    BY <1>3
  <2>2. \A g \in ToSet(kept) : g.type \in CanonicalTypes
    BY <1>4, <1>5
  <2> QED BY <2>1, <2>2, <1>1, <1>5, RewriteGone
<1> QED
  BY <1>6, <1>7, <1>8

\* Whatever is found: a kept span of its type covers its start, and what lies
\* under both is gone, but where another type was found within the kept span.
\* Nothing about the recognisers is used (service.py:532-538,
\* anonymize.py:256-281).
THEOREM FindingsDoNotReturn == Spec => []FoundIsGone
  BY RequestTypeCorrect, WorkHolds, FoundIsGoneHolds, PTL

-----------------------------------------------------------------------------
(* The handler and the sampler go on: what holds without fairness.         *)

\* The fields a request offers are a sequence, and one is left when it is put.
OffersInv ==
    /\ \E S : samples \in Seq(S) /\ offers \in Seq(S)
    /\ pc = "put" => offers # <<>>

\* The handler has a step to take: the guards of the actions of a request.
HandlerCanStep ==
    \/ pc = "offer" /\ offers # <<>>
    \/ pc = "offer" /\ offers = <<>>
    \/ pc = "put" /\ Len(queue) < QueueSize
    \/ pc = "put" /\ Len(queue) = QueueSize
    \/ pc \in {"count", "reply"}

\* The sampler's thread has one: the guards of Get, Check and AppendEvent.
SamplerCanStep ==
    \/ thread = "get" /\ queue # <<>>
    \/ thread \in {"check", "append"}

\* Neither of the two waits for the other, whatever the queue holds and
\* whatever was raised.
NobodyWaits ==
    /\ pc # "idle" => HandlerCanStep
    /\ queue # <<>> \/ thread # "get" => SamplerCanStep

\* The requests that may still come, the steps the handler takes at most before
\* it replies, and those the thread takes at most until nothing is queued.
RequestsToCome ==
    MaxRequests - served - (IF pc \in {"offer", "put", "count"} THEN 1 ELSE 0)
StepsToReply ==
    CASE pc = "offer" -> 3 * Len(offers) + 2
      [] pc = "put"   -> 3 * Len(offers) + 1
      [] pc = "count" -> 3 * Len(offers) + 3
      [] pc = "reply" -> 1
      [] OTHER        -> 0
StepsToDrain ==
    3 * Len(queue) + (CASE thread = "check"  -> 2
                        [] thread = "append" -> 1
                        [] OTHER             -> 0)

\* Every step of the handler takes it nearer to the reply and leaves the
\* thread's work as it was, but for one sample more; every step of the thread,
\* one that raises too, takes it nearer to the empty queue and leaves the
\* handler where it is.
WorkAdvances ==
    /\ Handle =>
         /\ IF pc = "idle"
            THEN RequestsToCome' < RequestsToCome /\ StepsToReply' = 3 * Len(samples) + 2
            ELSE RequestsToCome' = RequestsToCome /\ StepsToReply' < StepsToReply
         /\ StepsToDrain' \in {StepsToDrain, StepsToDrain + 3}
    /\ Sampler => StepsToDrain' < StepsToDrain /\ UNCHANGED <<RequestsToCome, StepsToReply>>

\* What is offered are the samples, one after the other.
LEMMA OffersStep == OffersInv /\ [Next]_vars => OffersInv'
<1> SUFFICES ASSUME OffersInv, [Next]_vars PROVE OffersInv'
  OBVIOUS
<1>1. PICK S : samples \in Seq(S) /\ offers \in Seq(S)
  BY DEF OffersInv
<1>2. samples' = samples
  BY WorkKept DEF work
<1>3. \/ offers' = samples /\ pc' = "offer"
      \/ offers # <<>> /\ offers' = Tail(offers) /\ pc' # "put"
      \/ offers' = offers /\ (pc' = "put" => offers # <<>>)
  <2>1. CASE Handle
    <3>1. CASE Receive
      BY <3>1 DEF Receive
    <3>2. CASE NotSampled
      BY <3>2 DEF NotSampled
    <3>3. CASE Sampled
      BY <3>3 DEF Sampled
    <3>4. CASE Offer
      BY <3>4 DEF Offer, OffersInv
    <3>5. CASE CountOffer
      BY <3>5 DEF CountOffer
    <3>6. CASE Drop
      BY <3>6 DEF Drop, OffersInv
    <3>7. CASE Answer
      BY <3>7 DEF Answer, OffersInv
    <3>8. CASE Reply
      BY <3>8 DEF Reply
    <3> QED
      BY <2>1, <3>1, <3>2, <3>3, <3>4, <3>5, <3>6, <3>7, <3>8 DEF Handle
  <2>2. CASE Sampler \/ UNCHANGED vars
    <3>1. UNCHANGED <<pc, offers>>
      BY <2>2 DEF Sampler, Get, Check, AppendEvent, CheckFails, AppendFails, vars, handler
    <3> QED
      BY <3>1 DEF OffersInv
  <2> QED
    BY <2>1, <2>2 DEF Next
<1>4. offers' \in Seq(S)
  BY <1>1, <1>3
<1> QED
  BY <1>1, <1>2, <1>3, <1>4 DEF OffersInv

LEMMA OffersHold == Spec => []OffersInv
<1>1. Init => OffersInv
  <2> SUFFICES ASSUME Init PROVE OffersInv
    OBVIOUS
  <2> DEFINE d == Declared(line, request.logType, trust)
             t == line
  <2>1. t \in Seq(Cell)
    BY RequestLines DEF Init, line
  <2> HIDE DEF t
  <2>2. Declared(t, request.logType, trust) \in Seq(Places(t, Field))
    BY <2>1, DeclaredFields
  <2>3. d \in Seq(Places(t, Field))
    BY <2>2 DEF t
  <2> HIDE DEF d
  <2>4. DOMAIN d = 1 .. Len(d) /\ Len(d) \in Nat
    BY <2>3
  <2> DEFINE x(i) == Sample(trust[d[i].field.name], d[i].field.value)
             S == {x(i) : i \in DOMAIN d}
  <2>5. samples = [i \in 1 .. Len(d) |-> x(i)]
    BY <2>4 DEF Init, Samples, d
  <2>6. \A i \in 1 .. Len(d) : x(i) \in S
    BY <2>4
  <2> HIDE DEF x, S
  <2>7. samples \in Seq(S)
    BY <2>4, <2>5, <2>6
  <2>8. offers = <<>> /\ pc = "idle"
    BY DEF Init
  <2> QED
    BY <2>7, <2>8 DEF OffersInv
<1> QED
  BY <1>1, OffersStep, PTL DEF Spec

\* The numbers of steps left are numbers.
LEMMA StepsTyped ==
    ASSUME TypeOK, QueueInv, OffersInv
    PROVE  /\ Len(offers) \in Nat /\ Len(samples) \in Nat /\ Len(queue) \in Nat
           /\ offers # <<>> => Len(Tail(offers)) = Len(offers) - 1
<1>1. PICK S : samples \in Seq(S) /\ offers \in Seq(S)
  BY DEF OffersInv
<1> QED
  BY <1>1, QueueLength

\* Every step lowers its side's number.
LEMMA NextWorkAdvances ==
    ASSUME TypeOK, QueueInv, OffersInv
    PROVE  WorkAdvances
<1>1. /\ Len(offers) \in Nat /\ Len(samples) \in Nat /\ Len(queue) \in Nat
      /\ offers # <<>> => Len(Tail(offers)) = Len(offers) - 1
  BY StepsTyped
<1>2. /\ \A x : Len(Append(queue, x)) = Len(queue) + 1
      /\ queue # <<>> => Len(Tail(queue)) = Len(queue) - 1
  BY QueueLength
<1>3. MaxRequests \in Nat /\ served \in Nat
  BY RequestBounds DEF TypeOK
<1> DEFINE n == Len(offers)
           l == Len(samples)
           q == Len(queue)
<1>4. n \in Nat /\ l \in Nat /\ q \in Nat
  BY <1>1
<1>5. ASSUME Handle
      PROVE  /\ IF pc = "idle"
                THEN RequestsToCome' < RequestsToCome /\ StepsToReply' = 3 * Len(samples) + 2
                ELSE RequestsToCome' = RequestsToCome /\ StepsToReply' < StepsToReply
             /\ StepsToDrain' \in {StepsToDrain, StepsToDrain + 3}
  <2>1. /\ thread' = thread
        /\ \/ pc = "idle" /\ pc' = "offer" /\ Len(offers)' = l /\ served' = served
              /\ Len(queue)' = q
           \/ pc = "offer" /\ pc' = "offer" /\ Len(offers)' = n - 1 /\ served' = served
              /\ Len(queue)' = q
           \/ pc = "offer" /\ pc' = "put" /\ Len(offers)' = n /\ served' = served
              /\ Len(queue)' = q
           \/ pc = "put" /\ pc' = "count" /\ Len(offers)' = n - 1 /\ served' = served
              /\ Len(queue)' = q + 1
           \/ pc = "count" /\ pc' = "offer" /\ Len(offers)' = n /\ served' = served
              /\ Len(queue)' = q
           \/ pc = "put" /\ pc' = "offer" /\ Len(offers)' = n - 1 /\ served' = served
              /\ Len(queue)' = q
           \/ pc = "offer" /\ pc' = "reply" /\ Len(offers)' = n /\ served' = served + 1
              /\ Len(queue)' = q
           \/ pc = "reply" /\ pc' = "idle" /\ Len(offers)' = n /\ served' = served
              /\ Len(queue)' = q
    <3>1. CASE Receive
      BY <3>1 DEF Receive
    <3>2. CASE NotSampled
      BY <3>2, <1>1 DEF NotSampled
    <3>3. CASE Sampled
      BY <3>3 DEF Sampled
    <3>4. CASE Offer
      <4>1. offers # <<>>
        BY <3>4 DEF Offer, OffersInv
      <4> QED
        BY <3>4, <4>1, <1>1, <1>2 DEF Offer
    <3>5. CASE CountOffer
      BY <3>5 DEF CountOffer
    <3>6. CASE Drop
      <4>1. offers # <<>>
        BY <3>6 DEF Drop, OffersInv
      <4> QED
        BY <3>6, <4>1, <1>1 DEF Drop
    <3>7. CASE Answer
      BY <3>7 DEF Answer
    <3>8. CASE Reply
      BY <3>8 DEF Reply
    <3> QED
      BY <1>5, <3>1, <3>2, <3>3, <3>4, <3>5, <3>6, <3>7, <3>8 DEF Handle
  <2>2. StepsToDrain' \in {StepsToDrain, StepsToDrain + 3}
    <3> HIDE DEF n, l
    <3>1. thread' = thread /\ (Len(queue)' = q \/ Len(queue)' = q + 1)
      BY <2>1
    <3> DEFINE a == CASE thread = "check" -> 2 [] thread = "append" -> 1 [] OTHER -> 0
    <3>2. a \in Nat /\ StepsToDrain = 3 * q + a /\ StepsToDrain' = 3 * (Len(queue)') + a
      BY <3>1 DEF StepsToDrain
    <3> HIDE DEF a, q
    <3> QED
      BY <3>1, <3>2, <1>4
  <2> HIDE DEF n, l, q
  <2>3. n = Len(offers) /\ l = Len(samples)
    BY DEF n, l
  <2> QED
    BY <2>1, <2>2, <2>3, <1>3, <1>4 DEF RequestsToCome, StepsToReply
<1>6. ASSUME Sampler
      PROVE  StepsToDrain' < StepsToDrain /\ UNCHANGED <<RequestsToCome, StepsToReply>>
  <2>1. /\ UNCHANGED <<pc, offers, served>>
        /\ \/ thread = "get" /\ thread' = "check" /\ Len(queue)' = q - 1
           \/ thread = "check" /\ thread' \in {"append", "get"} /\ Len(queue)' = q
           \/ thread = "append" /\ thread' = "get" /\ Len(queue)' = q
    <3>1. CASE Get
      BY <3>1, <1>2 DEF Get, handler
    <3>2. CASE Check
      BY <3>2 DEF Check, handler
    <3>3. CASE AppendEvent
      BY <3>3 DEF AppendEvent, handler
    <3>4. CASE CheckFails
      BY <3>4 DEF CheckFails, handler, AfterError
    <3>5. CASE AppendFails
      BY <3>5 DEF AppendFails, handler, AfterError
    <3> QED
      BY <1>6, <3>1, <3>2, <3>3, <3>4, <3>5 DEF Sampler
  <2>2. StepsToDrain' < StepsToDrain
    <3> HIDE DEF q
    <3>1. q = Len(queue)
      BY DEF q
    <3> QED
      BY <2>1, <3>1, <1>4 DEF StepsToDrain
  <2>3. UNCHANGED <<RequestsToCome, StepsToReply>>
    BY <2>1 DEF RequestsToCome, StepsToReply
  <2> QED
    BY <2>2, <2>3
<1> QED
  BY <1>5, <1>6 DEF WorkAdvances

\* A request is never stuck behind a full queue, nor the thread in a sample
\* that raised (schema_trust_sampler.py:85-124).
THEOREM NobodyWaitsAlways == Spec => []NobodyWaits
<1>1. IInv => NobodyWaits
  <2> SUFFICES ASSUME TypeOK, QueueInv PROVE NobodyWaits
    BY DEF IInv
  <2>1. Len(queue) \in Nat /\ Len(queue) <= QueueSize /\ QueueSize \in Nat
    BY QueueLength, RequestBounds DEF TypeOK
  <2>2. Len(queue) < QueueSize \/ Len(queue) = QueueSize
    BY <2>1
  <2> QED
    BY <2>2 DEF TypeOK, NobodyWaits, HandlerCanStep, SamplerCanStep
<1> QED
  BY <1>1, InvariantHolds, PTL

\* A request is answered after three steps for each declared field and two
\* more, whatever the thread does, and the thread has three steps at most for
\* each sample, whatever the handler does: with fairness, and NobodyWaits, the
\* queue is worked off, SamplesDrain (schema_trust_sampler.py:85-152).
THEOREM WorkAdvancesAlways == Spec => [][WorkAdvances]_vars
<1>1. IInv /\ OffersInv => WorkAdvances
  BY NextWorkAdvances DEF IInv
<1> QED
  BY <1>1, InvariantHolds, OffersHold, PTL DEF Spec

=============================================================================
