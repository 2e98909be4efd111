-------------------------- MODULE QueueConsumerProofs --------------------------
(***************************************************************************)
(* Proofs about QueueConsumer, for every set of consumers, every number    *)
(* and kind of messages, every batch size and any number of crashes,       *)
(* revocations and midnights.                                              *)
(***************************************************************************)
EXTENDS QueueConsumer, SequenceTheorems, TLAPS

-----------------------------------------------------------------------------
(* The inductive invariant.                                                *)

\* The conjuncts of TypeOK, in two parts.
DocsTyped ==
    \A d \in docs : /\ [index |-> d.index, part |-> d.part] \in Parts
                   /\ d.msg \in Messages /\ d.date \in Nat /\ d.id \in Ids

StateTyped ==
    /\ transport \in {"redis", "kafka"}
    /\ head \in 1 .. LastMessage + 1
    /\ committed \in 1 .. LastMessage + 1
    /\ owner \in Consumers \cup {Nobody}
    /\ pc \in [Consumers -> {"polling", "calling", "writing", "committing", "down"}]
    /\ position \in [Consumers -> 1 .. LastMessage + 1]
    /\ fetched \in [Consumers -> 1 .. LastMessage + 1]
    /\ current \in [Consumers -> Messages \cup {0}]
    /\ date \in [Consumers -> Nat]
    /\ todo \in [Consumers -> Seq(Parts)]
    /\ uuids \in Nat
    /\ day \in Nat
    /\ disruptions \in Nat
    /\ raised \in SUBSET Messages
    /\ lost \in SUBSET Messages

\* A document of a message is in OpenSearch.
HasDocument(m, d) == \E x \in docs : x.msg = m /\ x.index = d.index /\ x.part = d.part

Explained(m) == Written(m) \/ NothingToDo(m) \/ m \in raised \cup lost

\* A consumer has a message in hand when it works on one, has documents to
\* index when it is writing, and commits what is done with; on Redis it has
\* no batch.
LoopInv ==
    \A c \in Consumers :
        /\ pc[c] \in {"polling", "down"} <=> current[c] = 0
        /\ pc[c] = "writing" <=> todo[c] # <<>>
        /\ pc[c] = "committing" =>
              transport = "kafka" /\ \A m \in Messages : m = current[c] => Explained(m)
        /\ transport = "redis" => position[c] = 1 /\ fetched[c] = 1

\* What is left to index of a message is the end of an answer whose beginning
\* is indexed.
Begun(m, rest) ==
    \E documents \in {Quarantine, Answer} : \E k \in 1 .. Len(documents) :
        /\ rest = SubSeq(documents, k, Len(documents))
        /\ \A i \in 1 .. k - 1 : HasDocument(m, documents[i])

WritingInv ==
    \A c \in Consumers, m \in Messages, rest \in Seq(Parts) :
        pc[c] = "writing" /\ current[c] = m /\ todo[c] = rest => Begun(m, rest)

\* DoneOrExplained in terms of Explained.
DoneInv == \A m \in Messages : DoneWith(m) => Explained(m)

\* All that the client has handed out is explained or in hand.
PassedInv ==
    \A c \in Consumers, m \in Messages :
        m < position[c] => Explained(m) \/ current[c] = m

\* On Kafka a document is named after its message and part.
KafkaIds == transport = "kafka" => \A d \in docs : d.id = <<d.msg, d.part>>

\* On Redis every document has an id of its own, drawn before.
RedisIds ==
    transport = "redis" =>
        /\ \A d \in docs : \E n \in 0 .. uuids - 1 : d.id = <<"uuid", n>>
        /\ \A d, e \in docs : d.id = e.id => d = e

\* On Redis a message is in one consumer's hands, and out of the list.
RedisHands ==
    transport = "redis" =>
        /\ \A c \in Consumers : current[c] < head
        /\ \A b, c \in Consumers : b # c /\ current[b] = current[c] => current[c] = 0

\* On Redis the documents left to write are not there, and no other document
\* of a message that is out of every hand will come.
RedisFresh ==
    transport = "redis" =>
        /\ \A d \in docs : d.msg < head
        /\ \A c \in Consumers, d \in docs : d.msg = current[c] =>
              /\ pc[c] = "writing"
              /\ \A i \in 1 .. Len(todo[c]) :
                    d.index # todo[c][i].index \/ d.part # todo[c][i].part

\* On Redis a part of a message is written once.
RedisParts ==
    transport = "redis" =>
        \A d, e \in docs : d.msg = e.msg /\ d.index = e.index /\ d.part = e.part => d = e

IInv == /\ TypeOK /\ LoopInv /\ WritingInv /\ PassedInv /\ DoneInv
        /\ KafkaIds /\ RedisIds /\ RedisHands /\ RedisFresh /\ RedisParts

\* The two parts make up TypeOK.
LEMMA TypeParts == TypeOK <=> StateTyped /\ DocsTyped
  BY DEF TypeOK, StateTyped, DocsTyped

\* No document, no raised and no lost message is forgotten.
LEMMA HistoryGrows ==
    TypeOK /\ [Next]_vars
        => docs \subseteq docs' /\ raised \subseteq raised' /\ lost \subseteq lost'
<1> SUFFICES ASSUME TypeOK, [Next]_vars
             PROVE docs \subseteq docs' /\ raised \subseteq raised' /\ lost \subseteq lost'
  OBVIOUS
<1>1. ASSUME NEW c \in Consumers, Pop(c)
      PROVE docs \subseteq docs' /\ raised \subseteq raised' /\ lost \subseteq lost'
  BY <1>1 DEF Pop, Read
<1>2. ASSUME NEW c \in Consumers, PopFails(c)
      PROVE docs \subseteq docs' /\ raised \subseteq raised' /\ lost \subseteq lost'
  BY <1>2 DEF PopFails
<1>3. ASSUME NEW c \in Consumers, Poll(c)
      PROVE docs \subseteq docs' /\ raised \subseteq raised' /\ lost \subseteq lost'
  BY <1>3 DEF Poll, history
<1>4. ASSUME NEW c \in Consumers, Take(c)
      PROVE docs \subseteq docs' /\ raised \subseteq raised' /\ lost \subseteq lost'
  BY <1>4 DEF Take, Read
<1>5. ASSUME NEW c \in Consumers, ServiceAnswers(c)
      PROVE docs \subseteq docs' /\ raised \subseteq raised' /\ lost \subseteq lost'
  BY <1>5 DEF ServiceAnswers, history, ServiceReplies
<1>6. ASSUME NEW c \in Consumers, ServiceFails(c)
      PROVE docs \subseteq docs' /\ raised \subseteq raised' /\ lost \subseteq lost'
  BY <1>6 DEF ServiceFails, history, ServiceReplies
<1>7. ASSUME NEW c \in Consumers, ServiceDrops(c)
      PROVE docs \subseteq docs' /\ raised \subseteq raised' /\ lost \subseteq lost'
  BY <1>7 DEF ServiceDrops, Raise
<1>8. ASSUME NEW c \in Consumers, Index(c)
      PROVE docs \subseteq docs' /\ raised \subseteq raised' /\ lost \subseteq lost'
  BY <1>8 DEF Index, history
<1>9. ASSUME NEW c \in Consumers, IndexFails(c)
      PROVE docs \subseteq docs' /\ raised \subseteq raised' /\ lost \subseteq lost'
  BY <1>9 DEF IndexFails, Raise
<1>10. ASSUME NEW c \in Consumers, Commit(c)
       PROVE docs \subseteq docs' /\ raised \subseteq raised' /\ lost \subseteq lost'
  BY <1>10 DEF Commit, history, Loop
<1>11. ASSUME NEW c \in Consumers, CommitFails(c)
       PROVE docs \subseteq docs' /\ raised \subseteq raised' /\ lost \subseteq lost'
  BY <1>11 DEF CommitFails, history, Loop
<1>12. ASSUME NEW c \in Consumers, Crash(c)
       PROVE docs \subseteq docs' /\ raised \subseteq raised' /\ lost \subseteq lost'
  BY <1>12 DEF Crash
<1>13. ASSUME NEW c \in Consumers, Restart(c)
       PROVE docs \subseteq docs' /\ raised \subseteq raised' /\ lost \subseteq lost'
  BY <1>13 DEF Restart, history
<1>14. CASE Revoke
  BY <1>14 DEF Revoke, history
<1>15. CASE Midnight
  BY <1>15 DEF Midnight, history
<1>16. CASE UNCHANGED vars
  BY <1>16 DEF vars, history
<1> QED
  BY <1>1, <1>2, <1>3, <1>4, <1>5, <1>6, <1>7, <1>8, <1>9, <1>10, <1>11, <1>12, <1>13, <1>14,
     <1>15, <1>16 DEF Next, ConsumerStep

\* The end of a sequence: its first element, its length and its tail.
LEMMA EndOfSequence ==
    ASSUME NEW S, NEW s \in Seq(S), NEW k \in 1 .. Len(s)
    PROVE  /\ Len(SubSeq(s, k, Len(s))) = Len(s) - k + 1
           /\ Head(SubSeq(s, k, Len(s))) = s[k]
           /\ Tail(SubSeq(s, k, Len(s))) = SubSeq(s, k + 1, Len(s))
<1>1. Len(s) \in Nat
  OBVIOUS
<1>2. \A i \in k .. Len(s) : s[i] \in S
  OBVIOUS
<1>3. /\ SubSeq(s, k, Len(s)) \in Seq(S)
      /\ Len(SubSeq(s, k, Len(s))) = Len(s) - k + 1
      /\ \A i \in 1 .. Len(s) - k + 1 : SubSeq(s, k, Len(s))[i] = s[k + i - 1]
  BY <1>1, <1>2, SubSeqProperties
<1>4. /\ SubSeq(s, k + 1, Len(s)) \in Seq(S)
      /\ Len(SubSeq(s, k + 1, Len(s))) = Len(s) - k
      /\ \A i \in 1 .. Len(s) - k : SubSeq(s, k + 1, Len(s))[i] = s[k + i]
  BY <1>1, <1>2, SubSeqProperties
<1>5. SubSeq(s, k, Len(s)) # <<>>
  <2>1. Len(SubSeq(s, k, Len(s))) # 0
    BY <1>1, <1>3
  <2> QED
    BY <2>1, EmptySeq
<1>6. Head(SubSeq(s, k, Len(s))) = s[k]
  BY <1>1, <1>3, <1>5
<1>7. /\ Tail(SubSeq(s, k, Len(s))) \in Seq(S)
      /\ Len(Tail(SubSeq(s, k, Len(s)))) = Len(s) - k
      /\ \A i \in 1 .. Len(s) - k : Tail(SubSeq(s, k, Len(s)))[i] = SubSeq(s, k, Len(s))[i + 1]
  BY <1>1, <1>3, <1>5, HeadTailProperties
<1>8. ASSUME NEW i \in 1 .. Len(s) - k
      PROVE  Tail(SubSeq(s, k, Len(s)))[i] = SubSeq(s, k + 1, Len(s))[i]
  <2>1. i + 1 \in 1 .. Len(s) - k + 1 /\ k + (i + 1) - 1 = k + i
    BY <1>1
  <2>2. SubSeq(s, k, Len(s))[i + 1] = s[k + i]
    BY <1>3, <2>1
  <2> QED
    BY <2>2, <1>4, <1>7
<1>9. Tail(SubSeq(s, k, Len(s))) = SubSeq(s, k + 1, Len(s))
  BY <1>4, <1>7, <1>8, SeqEqual
<1> QED
  BY <1>3, <1>6, <1>9

\* The two answers are sequences of the parts a message can have.
LEMMA AnswersAreParts ==
    /\ Quarantine \in Seq(Parts) /\ Quarantine # <<>> /\ Len(Quarantine) = 1
    /\ Answer \in Seq(Parts) /\ Answer # <<>> /\ Len(Answer) = AuditEvents + 1
<1>1. /\ [index |-> "quarantine", part |-> 0] \in Parts
      /\ [index |-> "anonymized", part |-> 0] \in Parts
  BY DEF Parts
<1>2. Quarantine \in Seq(Parts) /\ Len(Quarantine) = 1
  BY <1>1 DEF Quarantine
<1>3. <<[index |-> "anonymized", part |-> 0]>> \in Seq(Parts)
  BY <1>1
<1>4. AuditEvents \in Nat
  BY QueueBoundsAssumption
<1>5. \A i \in 1 .. AuditEvents : [index |-> "audit", part |-> i] \in Parts
  BY DEF Parts
<1>6. [i \in 1 .. AuditEvents |-> [index |-> "audit", part |-> i]] \in [1 .. AuditEvents -> Parts]
  BY <1>5
<1>7. /\ [i \in 1 .. AuditEvents |-> [index |-> "audit", part |-> i]] \in Seq(Parts)
      /\ Len([i \in 1 .. AuditEvents |-> [index |-> "audit", part |-> i]]) = AuditEvents
  BY <1>4, <1>6
<1>8. Answer \in Seq(Parts) /\ Len(Answer) = AuditEvents + 1
  BY <1>3, <1>4, <1>7 DEF Answer
<1>9. Quarantine # <<>> /\ Answer # <<>>
  <2>1. \A q \in Seq(Parts) : q = <<>> <=> Len(q) = 0
    BY EmptySeq
  <2> QED
    BY <1>2, <1>4, <1>8
<1> QED
  BY <1>2, <1>8, <1>9

\* Reading a message keeps the types.
LEMMA ReadType ==
    ASSUME StateTyped, NEW c \in Consumers, NEW m \in Messages, Read(c, m)
    PROVE  /\ pc' \in [Consumers -> {"polling", "calling", "writing", "committing", "down"}]
           /\ current' \in [Consumers -> Messages \cup {0}]
           /\ date' \in [Consumers -> Nat]
           /\ raised' \in SUBSET Messages
<1>1. Kind[m] \in {"event", "empty", "unparseable", "notobject"}
  BY KindAssumption
<1>2. pc' \in [Consumers -> {"polling", "calling", "writing", "committing", "down"}]
  <2>1. CASE Kind[m] = "event"
    BY <2>1 DEF StateTyped, Read
  <2>2. CASE Kind[m] \in {"empty", "unparseable"}
    <3>1. pc' = [pc EXCEPT ![c] = Finished]
      BY <2>2 DEF Read
    <3>2. Finished \in {"polling", "committing"}
      BY DEF Finished
    <3> QED
      BY <3>1, <3>2 DEF StateTyped
  <2>3. CASE Kind[m] = "notobject"
    BY <2>3 DEF StateTyped, Read
  <2> QED
    BY <1>1, <2>1, <2>2, <2>3
<1>3. current' \in [Consumers -> Messages \cup {0}]
  BY DEF StateTyped, Read
<1>4. date' \in [Consumers -> Nat] /\ raised' \in SUBSET Messages
  BY DEF StateTyped, Read
<1> QED
  BY <1>2, <1>3, <1>4

\* What reading a message comes to.
LEMMA ReadOutcome ==
    ASSUME StateTyped, NEW c \in Consumers, NEW m \in Messages, Read(c, m)
    PROVE  /\ \A b \in Consumers : b # c => pc'[b] = pc[b] /\ current'[b] = current[b]
           /\ \/ pc'[c] = "calling" /\ current'[c] = m
              \/ pc'[c] = "committing" /\ current'[c] = m /\ transport = "kafka" /\ NothingToDo(m)
              \/ pc'[c] = "polling" /\ current'[c] = 0 /\ (NothingToDo(m) \/ m \in raised')
<1>1. Kind[m] \in {"event", "empty", "unparseable", "notobject"}
  BY KindAssumption
<1>2. c \in DOMAIN pc /\ c \in DOMAIN current
  BY DEF StateTyped
<1>3. CASE Kind[m] = "event"
  BY <1>3 DEF StateTyped, Read
<1>4. CASE Kind[m] \in {"empty", "unparseable"}
  <2>1. pc' = [pc EXCEPT ![c] = Finished]
    BY <1>4 DEF Read
  <2>2. current' = [current EXCEPT ![c] = IF pc'[c] = "polling" THEN 0 ELSE m]
    BY DEF Read
  <2> QED
    BY <1>4, <2>1, <2>2 DEF StateTyped, Finished, NothingToDo
<1>5. CASE Kind[m] = "notobject"
  BY <1>5 DEF StateTyped, Read
<1> QED
  BY <1>1, <1>3, <1>4, <1>5

\* The initial state is well typed.
LEMMA TypeInit == Init => TypeOK
  BY MessageAssumption DEF Init, TypeOK

\* Every step keeps the types of what is not a document.
LEMMA StateTypeStep ==
    StateTyped /\ LoopInv /\ [Next]_vars => StateTyped'
<1> SUFFICES ASSUME StateTyped /\ LoopInv, [Next]_vars PROVE StateTyped'
  OBVIOUS
<1>1. ASSUME NEW c \in Consumers, Pop(c) PROVE StateTyped'
  <2>1. head \in Messages
    BY <1>1 DEF StateTyped, Pop, Messages
  <2>2. Read(c, head)
    BY <1>1 DEF Pop
  <2>3. head' \in 1 .. LastMessage + 1
    BY <1>1, MessageAssumption DEF StateTyped, Pop
  <2> QED
    BY <1>1, <2>1, <2>3, ReadType DEF StateTyped, Pop, client
<1>2. ASSUME NEW c \in Consumers, PopFails(c) PROVE StateTyped'
  BY <1>2, MessageAssumption DEF StateTyped, Messages, PopFails, client, work
<1>3. ASSUME NEW c \in Consumers, Poll(c) PROVE StateTyped'
  BY <1>3, MessageAssumption, QueueBoundsAssumption DEF StateTyped, LoopInv, Poll, work, history
<1>4. ASSUME NEW c \in Consumers, Take(c) PROVE StateTyped'
  <2>1. position[c] \in Messages
    BY <1>4, MessageAssumption DEF StateTyped, Take, Messages
  <2>2. Read(c, position[c])
    BY <1>4 DEF Take
  <2>3. position' \in [Consumers -> 1 .. LastMessage + 1]
    BY <1>4, MessageAssumption DEF StateTyped, Take
  <2> QED
    BY <1>4, <2>1, <2>3, ReadType DEF StateTyped, Take, broker
<1>5. ASSUME NEW c \in Consumers, ServiceAnswers(c) PROVE StateTyped'
  <2>1. todo' \in [Consumers -> Seq(Parts)]
    BY <1>5, AnswersAreParts DEF StateTyped, ServiceAnswers, ServiceReplies
  <2> QED
    BY <1>5, <2>1 DEF StateTyped, ServiceAnswers, ServiceReplies, broker, client, history
<1>6. ASSUME NEW c \in Consumers, ServiceFails(c) PROVE StateTyped'
  <2>1. todo' \in [Consumers -> Seq(Parts)]
    BY <1>6, AnswersAreParts DEF StateTyped, ServiceFails, ServiceReplies
  <2> QED
    BY <1>6, <2>1 DEF StateTyped, ServiceFails, ServiceReplies, broker, client, history
<1>7. ASSUME NEW c \in Consumers, ServiceDrops(c) PROVE StateTyped'
  BY <1>7 DEF StateTyped, LoopInv, ServiceDrops, broker, client, Raise
<1>8. ASSUME NEW c \in Consumers, Index(c) PROVE StateTyped'
  <2>1. Tail(todo[c]) \in Seq(Parts)
    BY <1>8 DEF StateTyped, LoopInv, Index
  <2>2. todo' \in [Consumers -> Seq(Parts)]
    BY <1>8, <2>1 DEF StateTyped, Index
  <2>3. pc' \in [Consumers -> {"polling", "calling", "writing", "committing", "down"}]
    BY <1>8 DEF StateTyped, Index, Finished
  <2>4. current' \in [Consumers -> Messages \cup {0}] /\ date' \in [Consumers -> Nat]
    BY <1>8 DEF StateTyped, Index
  <2>5. uuids' \in Nat
    BY <1>8 DEF StateTyped, Index, IdsDrawn
  <2> QED
    BY <1>8, <2>2, <2>3, <2>5 DEF StateTyped, Index, broker, client, history
<1>9. ASSUME NEW c \in Consumers, IndexFails(c) PROVE StateTyped'
  <2>1. current[c] \in Messages
    BY <1>9 DEF StateTyped, LoopInv, IndexFails
  <2>2. uuids' \in Nat
    BY <1>9 DEF StateTyped, IndexFails, IdsDrawn
  <2> QED
    BY <1>9, <2>1, <2>2 DEF StateTyped, IndexFails, Raise, broker, client
<1>10. ASSUME NEW c \in Consumers, Commit(c) PROVE StateTyped'
  BY <1>10 DEF StateTyped, Commit, client, history, Loop
<1>11. ASSUME NEW c \in Consumers, CommitFails(c) PROVE StateTyped'
  BY <1>11 DEF StateTyped, CommitFails, client, history, Loop
<1>12. ASSUME NEW c \in Consumers, Crash(c) PROVE StateTyped'
  <2>1. owner' \in Consumers \cup {Nobody} /\ lost' \in SUBSET Messages
    BY <1>12 DEF StateTyped, Crash
  <2>2. todo' \in [Consumers -> Seq(Parts)]
    BY <1>12 DEF StateTyped, Crash
  <2>3. /\ position' \in [Consumers -> 1 .. LastMessage + 1]
        /\ fetched' \in [Consumers -> 1 .. LastMessage + 1]
    BY <1>12, MessageAssumption DEF StateTyped, Crash
  <2> QED
    BY <1>12, <2>2, <2>3 DEF StateTyped, Crash
<1>13. ASSUME NEW c \in Consumers, Restart(c) PROVE StateTyped'
  BY <1>13 DEF StateTyped, Restart, broker, client, work, history
<1>14. CASE Revoke
  BY <1>14 DEF StateTyped, Revoke, client, work, history
<1>15. CASE Midnight
  BY <1>15 DEF StateTyped, Midnight, broker, client, work, history
<1>16. CASE UNCHANGED vars
  BY <1>16 DEF StateTyped, vars, broker, client, work, history
<1> QED
  BY <1>1, <1>2, <1>3, <1>4, <1>5, <1>6, <1>7, <1>8, <1>9, <1>10, <1>11, <1>12, <1>13, <1>14,
     <1>15, <1>16 DEF Next, ConsumerStep

\* What explains a message, and what is indexed of it, stays.
LEMMA ExplanationsStay ==
    ASSUME TypeOK, [Next]_vars
    PROVE  /\ \A m : Explained(m) => Explained(m)'
           /\ \A m, rest : Begun(m, rest) => Begun(m, rest)'
<1>1. docs \subseteq docs' /\ raised \subseteq raised' /\ lost \subseteq lost'
  BY HistoryGrows
<1>2. ASSUME NEW m, NEW documents, HasDocuments(m, documents)
      PROVE  HasDocuments(m, documents)'
  BY <1>1, <1>2 DEF HasDocuments
<1>3. Quarantine' = Quarantine /\ Answer' = Answer
  OBVIOUS
<1>4. ASSUME NEW m, Explained(m) PROVE Explained(m)'
  BY <1>1, <1>2, <1>4 DEF Explained, Written
<1>5. ASSUME NEW m, NEW d, HasDocument(m, d) PROVE HasDocument(m, d)'
  BY <1>1, <1>5 DEF HasDocument
<1>6. ASSUME NEW m, NEW rest, Begun(m, rest) PROVE Begun(m, rest)'
  BY <1>5, <1>6 DEF Begun
<1> QED
  BY <1>4, <1>6

\* The documents of an answer are numbered.
LEMMA AnswerParts == \A i \in 1 .. Len(Answer) : Answer[i].part = i - 1
<1>1. DEFINE audits == [i \in 1 .. AuditEvents |-> [index |-> "audit", part |-> i]]
<1>2. AuditEvents \in Nat /\ \A i \in 1 .. AuditEvents : [index |-> "audit", part |-> i] \in Parts
  BY QueueBoundsAssumption DEF Parts
<1>3. audits \in Seq(Parts) /\ Len(audits) = AuditEvents
  BY <1>2
<1>4. <<[index |-> "anonymized", part |-> 0]>> \in Seq(Parts)
  BY DEF Parts
<1>5. \A i \in 1 .. AuditEvents + 1 :
        Answer[i] = IF i = 1 THEN [index |-> "anonymized", part |-> 0] ELSE audits[i - 1]
  BY <1>2 DEF Answer
<1>6. \A i \in 1 .. AuditEvents : audits[i] = [index |-> "audit", part |-> i]
  OBVIOUS
<1> HIDE DEF audits
<1>7. ASSUME NEW i \in 1 .. Len(Answer) PROVE Answer[i].part = i - 1
  <2>1. i \in 1 .. AuditEvents + 1 /\ (i # 1 => i - 1 \in 1 .. AuditEvents)
    BY <1>2, AnswersAreParts
  <2>2. i # 1 => audits[i - 1] = [index |-> "audit", part |-> i - 1]
    BY <1>6, <2>1
  <2>3. i = 1 => i - 1 = 0
    OBVIOUS
  <2>4. CASE i = 1
    BY <1>5, <2>1, <2>4
  <2>5. CASE i # 1
    <3>1. Answer[i] = [index |-> "audit", part |-> i - 1]
      BY <1>5, <2>1, <2>2, <2>5
    <3> QED
      BY <3>1
  <2> QED
    BY <2>4, <2>5
<1> QED
  BY <1>7

\* What a consumer that is writing has before it.
LEMMA WhatIsLeft ==
    ASSUME StateTyped, LoopInv, WritingInv, NEW c \in Consumers, pc[c] = "writing"
    PROVE  /\ current[c] \in Messages
           /\ todo[c] \in Seq(Parts) /\ Len(todo[c]) \in Nat \ {0}
           /\ Begun(current[c], todo[c])
           /\ \A i \in 1 .. Len(todo[c]) :
                 i # 1 => todo[c][i].index # todo[c][1].index \/ todo[c][i].part # todo[c][1].part
           /\ Head(todo[c]) = todo[c][1]
           /\ Document(c).msg = current[c]
           /\ Document(c).index = todo[c][1].index
           /\ Document(c).part = todo[c][1].part
<1>1. current[c] \in Messages /\ todo[c] \in Seq(Parts) /\ todo[c] # <<>>
  BY DEF StateTyped, LoopInv
<1>2. Len(todo[c]) \in Nat \ {0}
  <2>1. \A q \in Seq(Parts) : q = <<>> <=> Len(q) = 0
    BY EmptySeq
  <2> QED
    BY <1>1
<1>3. PICK m \in Messages, rest \in Seq(Parts) : m = current[c] /\ rest = todo[c]
  BY <1>1
<1>4. Begun(m, rest)
  BY <1>3 DEF WritingInv
<1>5. PICK documents \in {Quarantine, Answer} : \E k \in 1 .. Len(documents) :
        rest = SubSeq(documents, k, Len(documents))
  BY <1>4 DEF Begun
<1>6. PICK k \in 1 .. Len(documents) : rest = SubSeq(documents, k, Len(documents))
  BY <1>5
<1>7. documents \in Seq(Parts) /\ Len(documents) \in Nat
  BY AnswersAreParts
<1>8. /\ Len(rest) = Len(documents) - k + 1
      /\ \A i \in 1 .. Len(rest) : rest[i] = documents[i + k - 1]
  BY <1>6
<1>9. \A i \in 1 .. Len(rest) :
         i # 1 => rest[i].index # rest[1].index \/ rest[i].part # rest[1].part
  <2>1. CASE documents = Quarantine
    BY <1>8, <2>1, AnswersAreParts
  <2>2. CASE documents = Answer
    <3>1. ASSUME NEW i \in 1 .. Len(rest), i # 1
          PROVE  rest[i].part = i + k - 2 /\ rest[1].part = k - 1
      <4>1. /\ i + k - 1 \in 1 .. Len(Answer) /\ k \in 1 .. Len(Answer)
            /\ 1 \in 1 .. Len(rest) /\ i + k - 1 - 1 = i + k - 2 /\ 1 + k - 1 = k
        BY <1>8, <2>2
      <4>2. rest[i] = Answer[i + k - 1] /\ rest[1] = Answer[k]
        BY <1>8, <2>2
      <4>3. \A j \in 1 .. Len(Answer) : Answer[j].part = j - 1
        BY AnswerParts
      <4>4. Answer[i + k - 1].part = i + k - 2 /\ Answer[k].part = k - 1
        BY <4>1, <4>3
      <4> QED
        BY <4>2, <4>4
    <3> QED
      BY <3>1
  <2> QED
    BY <2>1, <2>2
<1>10. /\ Document(c).msg = current[c]
       /\ Document(c).index = Head(todo[c]).index
       /\ Document(c).part = Head(todo[c]).part
  BY DEF Document
<1>11. Head(todo[c]) = todo[c][1]
  BY <1>1
<1>12. Begun(current[c], todo[c])
  BY <1>3, <1>4
<1> QED
  BY <1>2, <1>3, <1>9, <1>10, <1>12

\* With the last document indexed, all documents of the message are.
LEMMA LastDocument ==
    ASSUME TypeOK, StateTyped, LoopInv, WritingInv, NEW c \in Consumers, Index(c), Len(todo[c]) = 1,
           NEW m, m = current[c]
    PROVE  Written(m)'
<1>1. pc[c] = "writing" /\ docs' = docs \cup {Document(c)}
  BY DEF Index
<1>2. Begun(m, todo[c])
  BY <1>1, WhatIsLeft
<1>3. PICK documents \in {Quarantine, Answer} : \E k \in 1 .. Len(documents) :
        /\ todo[c] = SubSeq(documents, k, Len(documents))
        /\ \A i \in 1 .. k - 1 : HasDocument(m, documents[i])
  BY <1>2 DEF Begun
<1>4. PICK k \in 1 .. Len(documents) :
        /\ todo[c] = SubSeq(documents, k, Len(documents))
        /\ \A i \in 1 .. k - 1 : HasDocument(m, documents[i])
  BY <1>3
<1>5. documents \in Seq(Parts)
  BY AnswersAreParts
<1>6. Len(documents) \in Nat /\ k = Len(documents) /\ Head(todo[c]) = documents[k]
  BY <1>4, EndOfSequence
<1>7. /\ Document(c).msg = m
      /\ Document(c).index = documents[k].index /\ Document(c).part = documents[k].part
  BY <1>6 DEF Document
<1>8. \A i \in 1 .. Len(documents) : HasDocument(m, documents[i]) \/ i = k
  BY <1>4
<1>9. \A i \in DOMAIN documents : \E d \in docs' :
        d.msg = m /\ d.index = documents[i].index /\ d.part = documents[i].part
  BY <1>1, <1>7, <1>8 DEF HasDocument
<1>10. CASE documents = Quarantine
  BY <1>9 DEF Written, HasDocuments
<1>11. CASE documents = Answer
  BY <1>9, <1>11 DEF Written, HasDocuments
<1> QED
  BY <1>10, <1>11

\* Every step keeps the loop's invariant.
LEMMA LoopStep ==
    TypeOK /\ StateTyped /\ LoopInv /\ WritingInv /\ [Next]_vars => LoopInv'
<1> SUFFICES ASSUME TypeOK /\ StateTyped /\ LoopInv /\ WritingInv, [Next]_vars PROVE LoopInv'
  OBVIOUS
<1>a. \A m \in Messages : Explained(m) => Explained(m)'
  BY ExplanationsStay
<1>1. ASSUME NEW c \in Consumers, Pop(c) PROVE LoopInv'
  <2>1. head \in Messages
    BY <1>1 DEF StateTyped, Pop, Messages
  <2>2. Read(c, head)
    BY <1>1 DEF Pop
  <2>3. UNCHANGED <<transport, position, fetched, todo>> /\ transport = "redis" /\ pc[c] = "polling"
    BY <1>1 DEF Pop, client
  <2> QED
    BY <2>1, <2>2, <2>3, <1>a, ReadOutcome DEF LoopInv, Messages
<1>2. ASSUME NEW c \in Consumers, PopFails(c) PROVE LoopInv'
  BY <1>2 DEF LoopInv, PopFails, client, work
<1>3. ASSUME NEW c \in Consumers, Poll(c) PROVE LoopInv'
  BY <1>3, <1>a DEF LoopInv, Poll, work
<1>4. ASSUME NEW c \in Consumers, Take(c) PROVE LoopInv'
  <2>1. position[c] \in Messages
    BY <1>4, MessageAssumption DEF StateTyped, Take, Messages
  <2>2. Read(c, position[c])
    BY <1>4 DEF Take
  <2>3. UNCHANGED <<transport, fetched, todo>> /\ pc[c] = "polling" /\ transport = "kafka"
    BY <1>4 DEF Take, LoopInv, StateTyped
  <2>4. \A m : NothingToDo(m) => Explained(m)'
    BY DEF Explained
  <2>5. \A b \in Consumers :
          b # c => UNCHANGED <<pc[b], current[b], todo[b], position[b], fetched[b]>>
    BY <1>4, <2>1, ReadOutcome DEF Take
  <2>6. \/ pc'[c] = "calling" /\ current'[c] = position[c]
        \/ pc'[c] = "committing" /\ current'[c] = position[c] /\ NothingToDo(position[c])
        \/ pc'[c] = "polling" /\ current'[c] = 0
    BY <2>1, <2>2, ReadOutcome
  <2> QED
    BY <2>1, <2>3, <2>4, <2>5, <2>6, <1>a DEF LoopInv, Messages
<1>5. ASSUME NEW c \in Consumers, ServiceAnswers(c) PROVE LoopInv'
  BY <1>5, <1>a, AnswersAreParts
     DEF StateTyped, LoopInv, ServiceAnswers, ServiceReplies, client
<1>6. ASSUME NEW c \in Consumers, ServiceFails(c) PROVE LoopInv'
  BY <1>6, <1>a, AnswersAreParts
     DEF StateTyped, LoopInv, ServiceFails, ServiceReplies, client
<1>7. ASSUME NEW c \in Consumers, ServiceDrops(c) PROVE LoopInv'
  BY <1>7, <1>a DEF StateTyped, LoopInv, ServiceDrops, client, Raise
<1>8. ASSUME NEW c \in Consumers, Index(c) PROVE LoopInv'
  <2>1. /\ c \in DOMAIN pc /\ c \in DOMAIN todo /\ c \in DOMAIN current
        /\ current[c] \in Messages /\ todo[c] \in Seq(Parts) /\ todo[c] # <<>>
    BY <1>8 DEF Index, LoopInv, StateTyped
  <2>2. UNCHANGED <<transport, position, fetched>>
    BY <1>8 DEF Index, client
  <2>3. \A b \in Consumers : b # c => UNCHANGED <<pc[b], current[b], todo[b]>>
    BY <1>8 DEF Index
  <2>4. CASE Len(todo[c]) = 1
    <3>1. todo'[c] = <<>>
      BY <1>8, <2>1, <2>4 DEF Index
    <3>2. pc'[c] = Finished /\ current'[c] = IF pc'[c] = "polling" THEN 0 ELSE current[c]
      BY <1>8, <2>1, <2>4 DEF Index
    <3>3. \A m : m = current[c] => Explained(m)'
      BY <1>8, <2>4, LastDocument DEF Explained
    <3>4. ASSUME NEW b \in Consumers, pc'[b] = "committing"
          PROVE  transport = "kafka" /\ \A m \in Messages : m = current'[b] => Explained(m)'
      BY <2>3, <3>2, <3>3, <3>4, <1>a DEF LoopInv, Finished
    <3>5. /\ pc'[c] \in {"polling", "down"} <=> current'[c] = 0
          /\ pc'[c] = "writing" <=> todo'[c] # <<>>
      BY <2>1, <3>1, <3>2 DEF Finished, Messages
    <3> QED
      BY <2>2, <2>3, <3>4, <3>5 DEF LoopInv
  <2>5. CASE Len(todo[c]) # 1
    <3>1. todo'[c] # <<>>
      <4>1. todo'[c] = Tail(todo[c]) /\ Len(Tail(todo[c])) = Len(todo[c]) - 1
        BY <1>8, <2>1 DEF Index
      <4>2. Len(todo[c]) \in Nat /\ Len(todo[c]) # 0 /\ Len(<<>>) = 0
        <5>1. \A q \in Seq(Parts) : q = <<>> <=> Len(q) = 0
          BY EmptySeq
        <5> QED
          BY <2>1
      <4>3. Len(Tail(todo[c])) # Len(<<>>)
        BY <2>5, <4>2
      <4> QED
        BY <4>1, <4>3
    <3>2. pc'[c] = "writing" /\ current'[c] = current[c]
      BY <1>8, <2>5 DEF Index
    <3>3. ASSUME NEW b \in Consumers, pc'[b] = "committing"
          PROVE  transport = "kafka" /\ \A m \in Messages : m = current'[b] => Explained(m)'
      BY <2>3, <3>2, <3>3, <1>a DEF LoopInv
    <3> QED
      BY <2>1, <2>2, <2>3, <3>1, <3>2, <3>3 DEF LoopInv
  <2> QED
    BY <2>4, <2>5
<1>9. ASSUME NEW c \in Consumers, IndexFails(c) PROVE LoopInv'
  BY <1>9, <1>a DEF StateTyped, LoopInv, IndexFails, client, Raise
<1>10. ASSUME NEW c \in Consumers, Commit(c) PROVE LoopInv'
  BY <1>10, <1>a DEF StateTyped, LoopInv, Commit, Loop
<1>11. ASSUME NEW c \in Consumers, CommitFails(c) PROVE LoopInv'
  BY <1>11, <1>a DEF StateTyped, LoopInv, CommitFails, Loop
<1>12. ASSUME NEW c \in Consumers, Crash(c) PROVE LoopInv'
  BY <1>12, <1>a DEF StateTyped, LoopInv, Crash
<1>13. ASSUME NEW c \in Consumers, Restart(c) PROVE LoopInv'
  BY <1>13, <1>a DEF LoopInv, Restart, client, work
<1>14. CASE Revoke
  BY <1>14, <1>a DEF LoopInv, Revoke, client, work
<1>15. CASE Midnight
  BY <1>15, <1>a DEF LoopInv, Midnight, client, work
<1>16. CASE UNCHANGED vars
  BY <1>16, <1>a DEF LoopInv, vars, client, work
<1> QED
  BY <1>1, <1>2, <1>3, <1>4, <1>5, <1>6, <1>7, <1>8, <1>9, <1>10, <1>11, <1>12, <1>13, <1>14,
     <1>15, <1>16 DEF Next, ConsumerStep

\* Every step keeps what is indexed of the messages in hand.
LEMMA WritingStep ==
    TypeOK /\ StateTyped /\ LoopInv /\ WritingInv /\ [Next]_vars => WritingInv'
<1> SUFFICES ASSUME TypeOK /\ StateTyped /\ LoopInv /\ WritingInv, [Next]_vars PROVE WritingInv'
  OBVIOUS
<1>a. \A m, rest : Begun(m, rest) => Begun(m, rest)'
  BY ExplanationsStay
<1>b. Quarantine' = Quarantine /\ Answer' = Answer
  OBVIOUS
<1>1. ASSUME NEW c \in Consumers, Pop(c) PROVE WritingInv'
  <2>1. head \in Messages
    BY <1>1 DEF StateTyped, Pop, Messages
  <2>2. Read(c, head) /\ UNCHANGED todo
    BY <1>1 DEF Pop
  <2>3. \A b \in Consumers : pc'[b] = "writing" => UNCHANGED <<pc[b], current[b], todo[b]>>
    BY <2>1, <2>2, ReadOutcome
  <2> QED
    BY <2>3, <1>a DEF WritingInv
<1>2. ASSUME NEW c \in Consumers, PopFails(c) PROVE WritingInv'
  BY <1>2, <1>a DEF WritingInv, PopFails, work
<1>3. ASSUME NEW c \in Consumers, Poll(c) PROVE WritingInv'
  BY <1>3, <1>a DEF WritingInv, Poll, work
<1>4. ASSUME NEW c \in Consumers, Take(c) PROVE WritingInv'
  <2>1. position[c] \in Messages
    BY <1>4, MessageAssumption DEF StateTyped, Take, Messages
  <2>2. Read(c, position[c]) /\ UNCHANGED todo
    BY <1>4 DEF Take
  <2>3. \A b \in Consumers : pc'[b] = "writing" => UNCHANGED <<pc[b], current[b], todo[b]>>
    BY <2>1, <2>2, ReadOutcome
  <2> QED
    BY <2>3, <1>a DEF WritingInv
<1>5. ASSUME NEW c \in Consumers, ServiceAnswers(c) PROVE WritingInv'
  <2>1. todo'[c] = Answer /\ Answer' = Answer
    BY <1>5 DEF ServiceAnswers, ServiceReplies, StateTyped
  <2>2. Answer = SubSeq(Answer, 1, Len(Answer)) /\ 1 \in 1 .. Len(Answer)
    BY AnswersAreParts
  <2>3. \A m : Begun(m, Answer)'
    BY <2>2 DEF Begun
  <2>4. \A b \in Consumers : b # c => UNCHANGED <<pc[b], current[b], todo[b]>>
    BY <1>5 DEF ServiceAnswers, ServiceReplies
  <2> QED
    BY <2>1, <2>3, <2>4, <1>a DEF WritingInv
<1>6. ASSUME NEW c \in Consumers, ServiceFails(c) PROVE WritingInv'
  <2>1. todo'[c] = Quarantine /\ Quarantine' = Quarantine
    BY <1>6 DEF ServiceFails, ServiceReplies, StateTyped
  <2>2. Quarantine = SubSeq(Quarantine, 1, Len(Quarantine)) /\ 1 \in 1 .. Len(Quarantine)
    BY AnswersAreParts
  <2>3. \A m : Begun(m, Quarantine)'
    BY <2>2 DEF Begun
  <2>4. \A b \in Consumers : b # c => UNCHANGED <<pc[b], current[b], todo[b]>>
    BY <1>6 DEF ServiceFails, ServiceReplies
  <2> QED
    BY <2>1, <2>3, <2>4, <1>a DEF WritingInv
<1>7. ASSUME NEW c \in Consumers, ServiceDrops(c) PROVE WritingInv'
  BY <1>7, <1>a DEF StateTyped, WritingInv, ServiceDrops, Raise
<1>8. ASSUME NEW c \in Consumers, Index(c) PROVE WritingInv'
  <2>1. /\ c \in DOMAIN pc /\ c \in DOMAIN todo /\ c \in DOMAIN current
        /\ pc[c] = "writing" /\ docs' = docs \cup {Document(c)}
    BY <1>8 DEF Index, StateTyped
  <2>2. \A b \in Consumers : b # c => UNCHANGED <<pc[b], current[b], todo[b]>>
    BY <1>8 DEF Index
  <2>3. PICK m \in Messages, rest \in Seq(Parts) : m = current[c] /\ rest = todo[c]
    BY <2>1, WhatIsLeft
  <2>4. CASE Len(rest) = 1
    <3>1. pc'[c] # "writing"
      BY <1>8, <2>1, <2>3, <2>4 DEF Index, Finished
    <3> QED
      BY <2>2, <3>1, <1>a DEF WritingInv
  <2>5. CASE Len(rest) # 1
    <3>1. current'[c] = m /\ todo'[c] = Tail(rest)
      BY <1>8, <2>1, <2>3, <2>5 DEF Index
    <3>2. PICK documents \in {Quarantine, Answer} : \E k \in 1 .. Len(documents) :
            /\ rest = SubSeq(documents, k, Len(documents))
            /\ \A i \in 1 .. k - 1 : HasDocument(m, documents[i])
      BY <2>1, <2>3 DEF WritingInv, Begun
    <3>3. PICK k \in 1 .. Len(documents) :
            /\ rest = SubSeq(documents, k, Len(documents))
            /\ \A i \in 1 .. k - 1 : HasDocument(m, documents[i])
      BY <3>2
    <3>4. documents \in Seq(Parts) /\ Len(documents) \in Nat
      BY AnswersAreParts
    <3>5. /\ Len(rest) = Len(documents) - k + 1
          /\ Head(rest) = documents[k]
          /\ Tail(rest) = SubSeq(documents, k + 1, Len(documents))
      BY <3>3
    <3>6. k + 1 \in 1 .. Len(documents)
      BY <2>5, <3>5
    <3>7. HasDocument(m, documents[k])'
      <4>1. /\ Document(c).msg = m /\ Document(c).index = documents[k].index
            /\ Document(c).part = documents[k].part
        BY <2>3, <3>5 DEF Document
      <4> QED
        BY <2>1, <4>1 DEF HasDocument
    <3>8. \A i \in 1 .. k - 1 : HasDocument(m, documents[i])'
      BY <2>1, <3>3 DEF HasDocument
    <3>9. \A i \in 1 .. (k + 1) - 1 : HasDocument(m, documents[i])'
      BY <3>7, <3>8
    <3>10. Begun(m, Tail(rest))'
      BY <3>5, <3>6, <3>9 DEF Begun
    <3> QED
      BY <2>2, <3>1, <3>10, <1>a DEF WritingInv
  <2> QED
    BY <2>4, <2>5
<1>9. ASSUME NEW c \in Consumers, IndexFails(c) PROVE WritingInv'
  BY <1>9, <1>a DEF StateTyped, WritingInv, IndexFails, Raise
<1>10. ASSUME NEW c \in Consumers, Commit(c) PROVE WritingInv'
  BY <1>10, <1>a DEF WritingInv, Commit, Loop
<1>11. ASSUME NEW c \in Consumers, CommitFails(c) PROVE WritingInv'
  BY <1>11, <1>a DEF WritingInv, CommitFails, Loop
<1>12. ASSUME NEW c \in Consumers, Crash(c) PROVE WritingInv'
  BY <1>12, <1>a DEF StateTyped, WritingInv, Crash
<1>13. ASSUME NEW c \in Consumers, Restart(c) PROVE WritingInv'
  BY <1>13, <1>a DEF WritingInv, Restart, work
<1>14. CASE Revoke
  BY <1>14, <1>a DEF WritingInv, Revoke, work
<1>15. CASE Midnight
  BY <1>15, <1>a DEF WritingInv, Midnight, work
<1>16. CASE UNCHANGED vars
  BY <1>16, <1>a DEF WritingInv, vars, work
<1> QED
  BY <1>1, <1>2, <1>3, <1>4, <1>5, <1>6, <1>7, <1>8, <1>9, <1>10, <1>11, <1>12, <1>13, <1>14,
     <1>15, <1>16 DEF Next, ConsumerStep

\* Every step keeps what the client has handed out explained or in hand.
LEMMA PassedStep ==
    TypeOK /\ StateTyped /\ LoopInv /\ WritingInv /\ PassedInv /\ DoneInv /\ [Next]_vars
        => PassedInv'
<1> SUFFICES ASSUME TypeOK /\ StateTyped /\ LoopInv /\ WritingInv /\ PassedInv /\ DoneInv,
                    [Next]_vars
             PROVE PassedInv'
  OBVIOUS
<1>a. \A m : Explained(m) => Explained(m)'
  BY ExplanationsStay
<1>1. ASSUME NEW c \in Consumers, Pop(c) PROVE PassedInv'
  <2>1. transport = "redis" /\ UNCHANGED position
    BY <1>1 DEF Pop, client
  <2> QED
    BY <2>1 DEF PassedInv, LoopInv, Messages
<1>2. ASSUME NEW c \in Consumers, PopFails(c) PROVE PassedInv'
  BY <1>2 DEF PassedInv, LoopInv, Messages, PopFails, client
<1>3. ASSUME NEW c \in Consumers, Poll(c) PROVE PassedInv'
  <2>1. /\ transport = "kafka" /\ c \in DOMAIN position /\ UNCHANGED current
        /\ \A b \in Consumers : b # c => position'[b] = position[b]
        /\ position'[c] = IF owner = c THEN position[c] ELSE committed
    BY <1>3 DEF Poll, StateTyped, work
  <2>2. \A m \in Messages : m < committed => Explained(m)
    BY <2>1 DEF DoneInv, DoneWith
  <2> QED
    BY <2>1, <2>2, <1>a DEF PassedInv
<1>4. ASSUME NEW c \in Consumers, Take(c) PROVE PassedInv'
  <2>1. position[c] \in Messages
    BY <1>4, MessageAssumption DEF StateTyped, Take, Messages
  <2>2. Read(c, position[c]) /\ current[c] = 0
    BY <1>4 DEF Take, LoopInv
  <2>3. /\ position'[c] = position[c] + 1
        /\ \A b \in Consumers : b # c => position'[b] = position[b] /\ current'[b] = current[b]
    BY <1>4, <2>1, ReadOutcome DEF Take, StateTyped
  <2>4. \A m : NothingToDo(m) \/ m \in raised' => Explained(m)'
    BY DEF Explained
  <2>5. ASSUME NEW m \in Messages, m < position'[c] PROVE Explained(m)' \/ current'[c] = m
    <3>1. m < position[c] \/ m = position[c]
      BY <2>1, <2>3, <2>5 DEF Messages
    <3>2. CASE m < position[c]
      BY <3>2, <2>2, <1>a DEF PassedInv, Messages
    <3>3. CASE m = position[c]
      BY <3>3, <2>2, <2>4, ReadOutcome
    <3> QED
      BY <3>1, <3>2, <3>3
  <2> QED
    BY <2>3, <2>5, <1>a DEF PassedInv
<1>5. ASSUME NEW c \in Consumers, ServiceAnswers(c) PROVE PassedInv'
  BY <1>5, <1>a DEF PassedInv, ServiceAnswers, client, ServiceReplies
<1>6. ASSUME NEW c \in Consumers, ServiceFails(c) PROVE PassedInv'
  BY <1>6, <1>a DEF PassedInv, ServiceFails, client, ServiceReplies
<1>7. ASSUME NEW c \in Consumers, ServiceDrops(c) PROVE PassedInv'
  <2>1. current[c] \in raised' /\ UNCHANGED position
        /\ \A b \in Consumers : b # c => current'[b] = current[b]
    BY <1>7 DEF ServiceDrops, Raise, client
  <2>2. \A m : m = current[c] => Explained(m)'
    BY <2>1 DEF Explained
  <2> QED
    BY <2>1, <2>2, <1>a DEF PassedInv
<1>8. ASSUME NEW c \in Consumers, Index(c) PROVE PassedInv'
  <2>1. UNCHANGED position /\ \A b \in Consumers : b # c => current'[b] = current[b]
    BY <1>8 DEF Index, client
  <2>2. transport = "redis" => position[c] = 1
    BY DEF LoopInv
  <2>3. transport = "kafka" => current'[c] = current[c]
    BY <1>8 DEF Index, Finished
  <2>4. transport \in {"redis", "kafka"}
    BY DEF StateTyped
  <2> QED
    BY <2>1, <2>2, <2>3, <2>4, <1>a DEF PassedInv, Messages
<1>9. ASSUME NEW c \in Consumers, IndexFails(c) PROVE PassedInv'
  <2>1. current[c] \in raised' /\ UNCHANGED position
        /\ \A b \in Consumers : b # c => current'[b] = current[b]
    BY <1>9 DEF IndexFails, Raise, client
  <2>2. \A m : m = current[c] => Explained(m)'
    BY <2>1 DEF Explained
  <2> QED
    BY <2>1, <2>2, <1>a DEF PassedInv
<1>10. ASSUME NEW c \in Consumers, Commit(c) PROVE PassedInv'
  <2>1. UNCHANGED position /\ \A b \in Consumers : b # c => current'[b] = current[b]
    BY <1>10 DEF Commit, Loop, client
  <2>2. \A m \in Messages : m = current[c] => Explained(m)
    BY <1>10 DEF Commit, LoopInv
  <2> QED
    BY <2>1, <2>2, <1>a DEF PassedInv
<1>11. ASSUME NEW c \in Consumers, CommitFails(c) PROVE PassedInv'
  <2>1. UNCHANGED position /\ \A b \in Consumers : b # c => current'[b] = current[b]
    BY <1>11 DEF CommitFails, Loop, client
  <2>2. \A m \in Messages : m = current[c] => Explained(m)
    BY <1>11 DEF CommitFails, LoopInv
  <2> QED
    BY <2>1, <2>2, <1>a DEF PassedInv
<1>12. ASSUME NEW c \in Consumers, Crash(c) PROVE PassedInv'
  BY <1>12, <1>a DEF StateTyped, PassedInv, Messages, Crash
<1>13. ASSUME NEW c \in Consumers, Restart(c) PROVE PassedInv'
  BY <1>13, <1>a DEF PassedInv, Restart, client, work
<1>14. CASE Revoke
  BY <1>14, <1>a DEF PassedInv, Revoke, client, work
<1>15. CASE Midnight
  BY <1>15, <1>a DEF PassedInv, Midnight, client, work
<1>16. CASE UNCHANGED vars
  BY <1>16, <1>a DEF PassedInv, vars, client, work
<1> QED
  BY <1>1, <1>2, <1>3, <1>4, <1>5, <1>6, <1>7, <1>8, <1>9, <1>10, <1>11, <1>12, <1>13, <1>14,
     <1>15, <1>16 DEF Next, ConsumerStep

\* Every step keeps what is done with explained.
LEMMA DoneStep ==
    TypeOK /\ StateTyped /\ LoopInv /\ WritingInv /\ PassedInv /\ DoneInv /\ [Next]_vars => DoneInv'
<1> SUFFICES ASSUME TypeOK /\ StateTyped /\ LoopInv /\ WritingInv /\ PassedInv /\ DoneInv,
                    [Next]_vars
             PROVE DoneInv'
  OBVIOUS
<1>a. \A m : Explained(m) => Explained(m)'
  BY ExplanationsStay
<1>1. ASSUME NEW c \in Consumers, Pop(c) PROVE DoneInv'
  <2>1. head \in Messages /\ transport = "redis" /\ transport' = transport /\ head' = head + 1
    BY <1>1 DEF StateTyped, Pop, Messages
  <2>2. Read(c, head) /\ current[c] = 0
    BY <1>1 DEF Pop, LoopInv
  <2>3. \A m : NothingToDo(m) \/ m \in raised' => Explained(m)'
    BY DEF Explained
  <2>4. ASSUME NEW m \in Messages, DoneWith(m)' PROVE Explained(m)'
    <3>1. m < head \/ m = head
      BY <2>1, <2>4 DEF Messages, DoneWith
    <3>2. CASE m < head
      <4>1. \A b \in Consumers : current[b] # m
        BY <2>1, <2>2, <2>4, ReadOutcome DEF DoneWith, Messages
      <4> QED
        BY <2>1, <3>2, <4>1, <1>a DEF DoneInv, DoneWith
    <3>3. CASE m = head
      BY <2>1, <2>2, <2>3, <2>4, <3>3, ReadOutcome DEF DoneWith
    <3> QED
      BY <3>1, <3>2, <3>3
  <2> QED
    BY <2>4 DEF DoneInv
<1>2. ASSUME NEW c \in Consumers, PopFails(c) PROVE DoneInv'
  <2>1. /\ transport = "redis" /\ UNCHANGED <<transport, current>>
        /\ head' = head + 1 /\ head \in lost' /\ head \in 1 .. LastMessage + 1
    BY <1>2 DEF PopFails, work, StateTyped
  <2>2. \A m : m = head => Explained(m)'
    BY <2>1 DEF Explained
  <2>3. \A m \in Messages : m < head' => m < head \/ m = head
    BY <2>1 DEF Messages
  <2> QED
    BY <2>1, <2>2, <2>3, <1>a DEF DoneInv, DoneWith
<1>3. ASSUME NEW c \in Consumers, Poll(c) PROVE DoneInv'
  BY <1>3, <1>a DEF DoneInv, DoneWith, Poll
<1>4. ASSUME NEW c \in Consumers, Take(c) PROVE DoneInv'
  <2>1. transport = "kafka" /\ UNCHANGED <<transport, committed>>
    BY <1>4 DEF Take, LoopInv, StateTyped, broker
  <2> QED
    BY <2>1, <1>a DEF DoneInv, DoneWith
<1>5. ASSUME NEW c \in Consumers, ServiceAnswers(c) PROVE DoneInv'
  BY <1>5, <1>a DEF DoneInv, DoneWith, ServiceAnswers, ServiceReplies, broker
<1>6. ASSUME NEW c \in Consumers, ServiceFails(c) PROVE DoneInv'
  BY <1>6, <1>a DEF DoneInv, DoneWith, ServiceFails, ServiceReplies, broker
<1>7. ASSUME NEW c \in Consumers, ServiceDrops(c) PROVE DoneInv'
  <2>1. /\ current[c] \in raised' /\ UNCHANGED <<transport, head, committed>>
        /\ \A b \in Consumers : b # c => current'[b] = current[b]
    BY <1>7 DEF ServiceDrops, Raise, broker
  <2>2. \A m : m = current[c] => Explained(m)'
    BY <2>1 DEF Explained
  <2> QED
    BY <2>1, <2>2, <1>a DEF DoneInv, DoneWith
<1>8. ASSUME NEW c \in Consumers, Index(c) PROVE DoneInv'
  <2>1. /\ UNCHANGED <<transport, head, committed>> /\ pc[c] = "writing"
        /\ \A b \in Consumers : b # c => current'[b] = current[b]
    BY <1>8 DEF Index, broker
  <2>2. CASE Len(todo[c]) = 1
    <3>1. \A m : m = current[c] => Explained(m)'
      BY <1>8, <2>2, LastDocument DEF Explained
    <3> QED
      BY <2>1, <3>1, <1>a DEF DoneInv, DoneWith
  <2>3. CASE Len(todo[c]) # 1
    <3>1. current'[c] = current[c]
      BY <1>8, <2>3 DEF Index
    <3> QED
      BY <2>1, <3>1, <1>a DEF DoneInv, DoneWith
  <2> QED
    BY <2>2, <2>3
<1>9. ASSUME NEW c \in Consumers, IndexFails(c) PROVE DoneInv'
  <2>1. /\ current[c] \in raised' /\ UNCHANGED <<transport, head, committed>>
        /\ \A b \in Consumers : b # c => current'[b] = current[b]
    BY <1>9 DEF IndexFails, Raise, broker
  <2>2. \A m : m = current[c] => Explained(m)'
    BY <2>1 DEF Explained
  <2> QED
    BY <2>1, <2>2, <1>a DEF DoneInv, DoneWith
<1>10. ASSUME NEW c \in Consumers, Commit(c) PROVE DoneInv'
  <2>1. transport = "kafka" /\ UNCHANGED transport /\ committed' = position[c]
    BY <1>10 DEF Commit, Loop, LoopInv
  <2>2. \A m \in Messages : m = current[c] => Explained(m)
    BY <1>10 DEF Commit, LoopInv
  <2> QED
    BY <2>1, <2>2, <1>a DEF PassedInv, DoneInv, DoneWith
<1>11. ASSUME NEW c \in Consumers, CommitFails(c) PROVE DoneInv'
  <2>1. transport = "kafka" /\ UNCHANGED <<transport, committed>>
    BY <1>11 DEF CommitFails, Loop, LoopInv
  <2> QED
    BY <2>1, <1>a DEF DoneInv, DoneWith
<1>12. ASSUME NEW c \in Consumers, Crash(c) PROVE DoneInv'
  <2>1. /\ UNCHANGED <<transport, head, committed>>
        /\ \A b \in Consumers : b # c => current'[b] = current[b]
    BY <1>12 DEF Crash
  <2>2. \A m \in Messages : transport = "redis" /\ m = current[c] => Explained(m)'
    BY <1>12 DEF Crash, Explained, Messages
  <2>3. CASE transport = "redis"
    BY <2>1, <2>2, <2>3, <1>a DEF DoneInv, DoneWith
  <2>4. CASE transport = "kafka"
    BY <2>1, <2>4, <1>a DEF DoneInv, DoneWith
  <2> QED
    BY <2>3, <2>4 DEF StateTyped
<1>13. ASSUME NEW c \in Consumers, Restart(c) PROVE DoneInv'
  BY <1>13, <1>a DEF DoneInv, DoneWith, Restart, broker, work
<1>14. CASE Revoke
  BY <1>14, <1>a DEF DoneInv, DoneWith, Revoke, work
<1>15. CASE Midnight
  BY <1>15, <1>a DEF DoneInv, DoneWith, Midnight, broker, work
<1>16. CASE UNCHANGED vars
  BY <1>16, <1>a DEF DoneInv, DoneWith, vars, broker, work
<1> QED
  BY <1>1, <1>2, <1>3, <1>4, <1>5, <1>6, <1>7, <1>8, <1>9, <1>10, <1>11, <1>12, <1>13, <1>14,
     <1>15, <1>16 DEF Next, ConsumerStep

\* Indexing adds at most the document at hand.
LEMMA DocumentsAdded ==
    ASSUME NEW c \in Consumers, Index(c) \/ IndexFails(c)
    PROVE  /\ pc[c] = "writing" /\ docs' \subseteq docs \cup {Document(c)}
           /\ uuids' = IdsDrawn /\ UNCHANGED <<transport, head>>
  BY DEF Index, IndexFails, Raise, broker

\* Every step keeps the types of the documents.
LEMMA DocsTypeStep ==
    StateTyped /\ LoopInv /\ WritingInv /\ DocsTyped /\ [Next]_vars => DocsTyped'
<1> SUFFICES ASSUME StateTyped /\ LoopInv /\ WritingInv /\ DocsTyped, [Next]_vars
             PROVE DocsTyped'
  OBVIOUS
<1>1. ASSUME NEW c \in Consumers, Pop(c) PROVE DocsTyped'
  BY <1>1 DEF DocsTyped, Ids, Pop
<1>2. ASSUME NEW c \in Consumers, PopFails(c) PROVE DocsTyped'
  BY <1>2 DEF DocsTyped, Ids, PopFails
<1>3. ASSUME NEW c \in Consumers, Poll(c) PROVE DocsTyped'
  BY <1>3 DEF DocsTyped, Ids, Poll
<1>4. ASSUME NEW c \in Consumers, Take(c) PROVE DocsTyped'
  BY <1>4 DEF DocsTyped, Ids, Take
<1>5. ASSUME NEW c \in Consumers, ServiceAnswers(c) PROVE DocsTyped'
  BY <1>5 DEF DocsTyped, Ids, ServiceAnswers, ServiceReplies
<1>6. ASSUME NEW c \in Consumers, ServiceFails(c) PROVE DocsTyped'
  BY <1>6 DEF DocsTyped, Ids, ServiceFails, ServiceReplies
<1>7. ASSUME NEW c \in Consumers, ServiceDrops(c) PROVE DocsTyped'
  BY <1>7 DEF DocsTyped, Ids, ServiceDrops, Raise
<1>8. ASSUME NEW c \in Consumers, Index(c) PROVE DocsTyped'
  <2>1. /\ pc[c] = "writing" /\ docs' \subseteq docs \cup {Document(c)}
        /\ UNCHANGED transport
    BY <1>8, DocumentsAdded
  <2>2. Head(todo[c]) \in Parts /\ current[c] \in Messages /\ date[c] \in Nat
    BY <2>1, WhatIsLeft DEF StateTyped
  <2>3. [index |-> Document(c).index, part |-> Document(c).part] \in Parts
    BY <2>2 DEF Document, Parts
  <2>4. Document(c).msg \in Messages /\ Document(c).date \in Nat
    BY <2>2 DEF Document
  <2>5. Head(todo[c]).part \in 0 .. AuditEvents
    BY <2>2, QueueBoundsAssumption DEF Parts
  <2>6. Document(c).id \in Ids
    BY <2>2, <2>5 DEF Document, DocId, Ids, StateTyped
  <2> QED
    BY <2>1, <2>3, <2>4, <2>6 DEF DocsTyped, Ids
<1>9. ASSUME NEW c \in Consumers, IndexFails(c) PROVE DocsTyped'
  <2>1. /\ pc[c] = "writing" /\ docs' \subseteq docs \cup {Document(c)}
        /\ UNCHANGED transport
    BY <1>9, DocumentsAdded
  <2>2. Head(todo[c]) \in Parts /\ current[c] \in Messages /\ date[c] \in Nat
    BY <2>1, WhatIsLeft DEF StateTyped
  <2>3. [index |-> Document(c).index, part |-> Document(c).part] \in Parts
    BY <2>2 DEF Document, Parts
  <2>4. Document(c).msg \in Messages /\ Document(c).date \in Nat
    BY <2>2 DEF Document
  <2>5. Head(todo[c]).part \in 0 .. AuditEvents
    BY <2>2, QueueBoundsAssumption DEF Parts
  <2>6. Document(c).id \in Ids
    BY <2>2, <2>5 DEF Document, DocId, Ids, StateTyped
  <2> QED
    BY <2>1, <2>3, <2>4, <2>6 DEF DocsTyped, Ids
<1>10. ASSUME NEW c \in Consumers, Commit(c) PROVE DocsTyped'
  BY <1>10 DEF DocsTyped, Ids, Commit, Loop
<1>11. ASSUME NEW c \in Consumers, CommitFails(c) PROVE DocsTyped'
  BY <1>11 DEF DocsTyped, Ids, CommitFails, Loop
<1>12. ASSUME NEW c \in Consumers, Crash(c) PROVE DocsTyped'
  BY <1>12 DEF DocsTyped, Ids, Crash
<1>13. ASSUME NEW c \in Consumers, Restart(c) PROVE DocsTyped'
  BY <1>13 DEF DocsTyped, Ids, Restart
<1>14. CASE Revoke
  BY <1>14 DEF DocsTyped, Ids, Revoke
<1>15. CASE Midnight
  BY <1>15 DEF DocsTyped, Ids, Midnight
<1>16. CASE UNCHANGED vars
  BY <1>16 DEF DocsTyped, Ids, vars
<1> QED
  BY <1>1, <1>2, <1>3, <1>4, <1>5, <1>6, <1>7, <1>8, <1>9, <1>10, <1>11, <1>12, <1>13, <1>14,
     <1>15, <1>16 DEF Next, ConsumerStep

\* Every step keeps the ids of Kafka's documents.
LEMMA KafkaIdsStep ==
    KafkaIds /\ [Next]_vars => KafkaIds'
<1> SUFFICES ASSUME KafkaIds, [Next]_vars PROVE KafkaIds'
  OBVIOUS
<1>1. ASSUME NEW c \in Consumers, Pop(c) PROVE KafkaIds'
  BY <1>1 DEF KafkaIds, Pop
<1>2. ASSUME NEW c \in Consumers, PopFails(c) PROVE KafkaIds'
  BY <1>2 DEF KafkaIds, PopFails
<1>3. ASSUME NEW c \in Consumers, Poll(c) PROVE KafkaIds'
  BY <1>3 DEF KafkaIds, Poll
<1>4. ASSUME NEW c \in Consumers, Take(c) PROVE KafkaIds'
  BY <1>4 DEF KafkaIds, Take
<1>5. ASSUME NEW c \in Consumers, ServiceAnswers(c) PROVE KafkaIds'
  BY <1>5 DEF KafkaIds, ServiceAnswers, ServiceReplies
<1>6. ASSUME NEW c \in Consumers, ServiceFails(c) PROVE KafkaIds'
  BY <1>6 DEF KafkaIds, ServiceFails, ServiceReplies
<1>7. ASSUME NEW c \in Consumers, ServiceDrops(c) PROVE KafkaIds'
  BY <1>7 DEF KafkaIds, ServiceDrops, Raise
<1>8. ASSUME NEW c \in Consumers, Index(c) PROVE KafkaIds'
  <2>1. docs' \subseteq docs \cup {Document(c)} /\ UNCHANGED transport
    BY <1>8, DocumentsAdded
  <2>2. transport = "kafka" => Document(c).id = <<Document(c).msg, Document(c).part>>
    BY DEF Document, DocId
  <2> QED
    BY <2>1, <2>2 DEF KafkaIds
<1>9. ASSUME NEW c \in Consumers, IndexFails(c) PROVE KafkaIds'
  <2>1. docs' \subseteq docs \cup {Document(c)} /\ UNCHANGED transport
    BY <1>9, DocumentsAdded
  <2>2. transport = "kafka" => Document(c).id = <<Document(c).msg, Document(c).part>>
    BY DEF Document, DocId
  <2> QED
    BY <2>1, <2>2 DEF KafkaIds
<1>10. ASSUME NEW c \in Consumers, Commit(c) PROVE KafkaIds'
  BY <1>10 DEF KafkaIds, Commit, Loop
<1>11. ASSUME NEW c \in Consumers, CommitFails(c) PROVE KafkaIds'
  BY <1>11 DEF KafkaIds, CommitFails, Loop
<1>12. ASSUME NEW c \in Consumers, Crash(c) PROVE KafkaIds'
  BY <1>12 DEF KafkaIds, Crash
<1>13. ASSUME NEW c \in Consumers, Restart(c) PROVE KafkaIds'
  BY <1>13 DEF KafkaIds, Restart
<1>14. CASE Revoke
  BY <1>14 DEF KafkaIds, Revoke
<1>15. CASE Midnight
  BY <1>15 DEF KafkaIds, Midnight
<1>16. CASE UNCHANGED vars
  BY <1>16 DEF KafkaIds, vars
<1> QED
  BY <1>1, <1>2, <1>3, <1>4, <1>5, <1>6, <1>7, <1>8, <1>9, <1>10, <1>11, <1>12, <1>13, <1>14,
     <1>15, <1>16 DEF Next, ConsumerStep

\* Every step keeps the ids of Redis's documents apart.
LEMMA RedisIdsStep ==
    StateTyped /\ RedisIds /\ [Next]_vars => RedisIds'
<1> SUFFICES ASSUME StateTyped /\ RedisIds, [Next]_vars PROVE RedisIds'
  OBVIOUS
<1>1. ASSUME NEW c \in Consumers, Pop(c) PROVE RedisIds'
  BY <1>1 DEF RedisIds, Pop
<1>2. ASSUME NEW c \in Consumers, PopFails(c) PROVE RedisIds'
  BY <1>2 DEF RedisIds, PopFails
<1>3. ASSUME NEW c \in Consumers, Poll(c) PROVE RedisIds'
  BY <1>3 DEF RedisIds, Poll
<1>4. ASSUME NEW c \in Consumers, Take(c) PROVE RedisIds'
  BY <1>4 DEF RedisIds, Take
<1>5. ASSUME NEW c \in Consumers, ServiceAnswers(c) PROVE RedisIds'
  BY <1>5 DEF RedisIds, ServiceAnswers, ServiceReplies
<1>6. ASSUME NEW c \in Consumers, ServiceFails(c) PROVE RedisIds'
  BY <1>6 DEF RedisIds, ServiceFails, ServiceReplies
<1>7. ASSUME NEW c \in Consumers, ServiceDrops(c) PROVE RedisIds'
  BY <1>7 DEF RedisIds, ServiceDrops, Raise
<1>8. ASSUME NEW c \in Consumers, Index(c) PROVE RedisIds'
  <2>1. /\ docs' \subseteq docs \cup {Document(c)} /\ UNCHANGED transport /\ uuids \in Nat
        /\ uuids' = IdsDrawn
    BY <1>8, DocumentsAdded DEF StateTyped
  <2> SUFFICES ASSUME transport = "redis" PROVE RedisIds'
    BY <2>1 DEF RedisIds
  <2>2. uuids' = uuids + 1 /\ Document(c).id = <<"uuid", uuids>>
    BY <2>1 DEF IdsDrawn, Document, DocId
  <2>3. \A d \in docs' : d.id = <<"uuid", uuids>> => d = Document(c)
    BY <2>1 DEF RedisIds
  <2>4. \A d \in docs' : \E n \in 0 .. uuids' - 1 : d.id = <<"uuid", n>>
    BY <2>1, <2>2 DEF RedisIds
  <2> QED
    BY <2>1, <2>2 DEF RedisIds
<1>9. ASSUME NEW c \in Consumers, IndexFails(c) PROVE RedisIds'
  <2>1. /\ docs' \subseteq docs \cup {Document(c)} /\ UNCHANGED transport /\ uuids \in Nat
        /\ uuids' = IdsDrawn
    BY <1>9, DocumentsAdded DEF StateTyped
  <2> SUFFICES ASSUME transport = "redis" PROVE RedisIds'
    BY <2>1 DEF RedisIds
  <2>2. uuids' = uuids + 1 /\ Document(c).id = <<"uuid", uuids>>
    BY <2>1 DEF IdsDrawn, Document, DocId
  <2>3. \A d \in docs' : d.id = <<"uuid", uuids>> => d = Document(c)
    BY <2>1 DEF RedisIds
  <2>4. \A d \in docs' : \E n \in 0 .. uuids' - 1 : d.id = <<"uuid", n>>
    BY <2>1, <2>2 DEF RedisIds
  <2> QED
    BY <2>1, <2>2 DEF RedisIds
<1>10. ASSUME NEW c \in Consumers, Commit(c) PROVE RedisIds'
  BY <1>10 DEF RedisIds, Commit, Loop
<1>11. ASSUME NEW c \in Consumers, CommitFails(c) PROVE RedisIds'
  BY <1>11 DEF RedisIds, CommitFails, Loop
<1>12. ASSUME NEW c \in Consumers, Crash(c) PROVE RedisIds'
  BY <1>12 DEF RedisIds, Crash
<1>13. ASSUME NEW c \in Consumers, Restart(c) PROVE RedisIds'
  BY <1>13 DEF RedisIds, Restart
<1>14. CASE Revoke
  BY <1>14 DEF RedisIds, Revoke
<1>15. CASE Midnight
  BY <1>15 DEF RedisIds, Midnight
<1>16. CASE UNCHANGED vars
  BY <1>16 DEF RedisIds, vars
<1> QED
  BY <1>1, <1>2, <1>3, <1>4, <1>5, <1>6, <1>7, <1>8, <1>9, <1>10, <1>11, <1>12, <1>13, <1>14,
     <1>15, <1>16 DEF Next, ConsumerStep

\* Every step keeps a Redis message in one consumer's hands.
LEMMA RedisHandsStep ==
    StateTyped /\ LoopInv /\ RedisHands /\ [Next]_vars => RedisHands'
<1> SUFFICES ASSUME StateTyped /\ LoopInv /\ RedisHands, [Next]_vars PROVE RedisHands'
  OBVIOUS
<1>1. ASSUME NEW c \in Consumers, Pop(c) PROVE RedisHands'
  <2>1. /\ head \in Messages /\ head \in Nat /\ transport = "redis" /\ head' = head + 1
        /\ \A b \in Consumers : current[b] \in Nat
    BY <1>1 DEF StateTyped, Pop, Messages
  <2>2. Read(c, head)
    BY <1>1 DEF Pop
  <2>3. /\ \A b \in Consumers : b # c => current'[b] = current[b]
        /\ current'[c] \in {0, head}
    BY <2>1, <2>2, ReadOutcome
  <2>4. \A b \in Consumers : current[b] < head
    BY <2>1 DEF RedisHands
  <2>5. 0 < head
    BY <2>1 DEF Messages
  <2>6. \A b \in Consumers : current'[b] < head'
    BY <2>1, <2>3, <2>4
  <2>7. ASSUME NEW b \in Consumers, NEW d \in Consumers, b # d, current'[b] = current'[d]
        PROVE  current'[d] = 0
    BY <2>1, <2>3, <2>7 DEF RedisHands
  <2> QED
    BY <2>6, <2>7 DEF RedisHands
<1>2. ASSUME NEW c \in Consumers, PopFails(c) PROVE RedisHands'
  <2>1. transport = "redis" /\ head' = head + 1 /\ UNCHANGED current
    BY <1>2 DEF PopFails, work
  <2>2. head \in Nat /\ \A b \in Consumers : current[b] \in Nat
    BY MessageAssumption DEF StateTyped, Messages
  <2> QED
    BY <2>1, <2>2 DEF RedisHands
<1>3. ASSUME NEW c \in Consumers, Poll(c) PROVE RedisHands'
  BY <1>3 DEF RedisHands, Poll
<1>4. ASSUME NEW c \in Consumers, Take(c) PROVE RedisHands'
  BY <1>4 DEF LoopInv, RedisHands, Take
<1>5. ASSUME NEW c \in Consumers, ServiceAnswers(c) PROVE RedisHands'
  BY <1>5 DEF RedisHands, ServiceAnswers, broker, ServiceReplies
<1>6. ASSUME NEW c \in Consumers, ServiceFails(c) PROVE RedisHands'
  BY <1>6 DEF RedisHands, ServiceFails, broker, ServiceReplies
<1>7. ASSUME NEW c \in Consumers, ServiceDrops(c) PROVE RedisHands'
  BY <1>7 DEF StateTyped, RedisHands, ServiceDrops, broker, Raise
<1>8. ASSUME NEW c \in Consumers, Index(c) PROVE RedisHands'
  BY <1>8 DEF StateTyped, LoopInv, RedisHands, Index, broker
<1>9. ASSUME NEW c \in Consumers, IndexFails(c) PROVE RedisHands'
  BY <1>9 DEF StateTyped, LoopInv, RedisHands, IndexFails, broker, Raise
<1>10. ASSUME NEW c \in Consumers, Commit(c) PROVE RedisHands'
  BY <1>10 DEF LoopInv, RedisHands, Commit, Loop
<1>11. ASSUME NEW c \in Consumers, CommitFails(c) PROVE RedisHands'
  BY <1>11 DEF LoopInv, RedisHands, CommitFails, Loop
<1>12. ASSUME NEW c \in Consumers, Crash(c) PROVE RedisHands'
  BY <1>12 DEF StateTyped, RedisHands, Crash
<1>13. ASSUME NEW c \in Consumers, Restart(c) PROVE RedisHands'
  BY <1>13 DEF RedisHands, Restart, broker, work
<1>14. CASE Revoke
  BY <1>14 DEF RedisHands, Revoke, work
<1>15. CASE Midnight
  BY <1>15 DEF RedisHands, Midnight, broker, work
<1>16. CASE UNCHANGED vars
  BY <1>16 DEF RedisHands, vars, broker, work
<1> QED
  BY <1>1, <1>2, <1>3, <1>4, <1>5, <1>6, <1>7, <1>8, <1>9, <1>10, <1>11, <1>12, <1>13, <1>14,
     <1>15, <1>16 DEF Next, ConsumerStep

\* Every step keeps what is left to write apart from what is written.
LEMMA RedisFreshStep ==
    StateTyped /\ DocsTyped /\ LoopInv /\ WritingInv /\ RedisHands /\ RedisFresh /\ [Next]_vars
        => RedisFresh'
<1> SUFFICES ASSUME StateTyped /\ DocsTyped /\ LoopInv /\ WritingInv /\ RedisHands /\ RedisFresh,
                    [Next]_vars
             PROVE RedisFresh'
  OBVIOUS
<1>a. \A d \in docs : d.msg \in Nat \ {0}
  <2>1. \A d \in docs : d.msg \in Messages
    BY DEF DocsTyped
  <2>2. \A m \in Messages : m \in Nat \ {0}
    BY DEF Messages
  <2> QED
    BY <2>1, <2>2
<1>1. ASSUME NEW c \in Consumers, Pop(c) PROVE RedisFresh'
  <2>1. /\ head \in Messages /\ head' = head + 1 /\ UNCHANGED <<transport, docs, todo>>
        /\ transport = "redis" /\ pc[c] = "polling"
        /\ \A d \in docs : d.msg < head
    BY <1>1 DEF StateTyped, Pop, Messages, RedisFresh
  <2>2. Read(c, head)
    BY <1>1 DEF Pop
  <2>3. /\ \A b \in Consumers : b # c => pc'[b] = pc[b] /\ current'[b] = current[b]
        /\ current'[c] \in {0, head}
    BY <2>1, <2>2, ReadOutcome
  <2>4. \A d \in docs' : d.msg < head' /\ d.msg # current'[c]
    BY <2>1, <2>3, <1>a DEF Messages
  <2> QED
    BY <2>1, <2>3, <2>4 DEF RedisFresh
<1>2. ASSUME NEW c \in Consumers, PopFails(c) PROVE RedisFresh'
  <2>1. /\ head \in Nat /\ head' = head + 1 /\ UNCHANGED <<transport, docs, current, pc, todo>>
        /\ transport = "redis"
    BY <1>2 DEF StateTyped, PopFails, work
  <2> QED
    BY <2>1, <1>a DEF RedisFresh
<1>3. ASSUME NEW c \in Consumers, Poll(c) PROVE RedisFresh'
  BY <1>3 DEF RedisFresh, Poll
<1>4. ASSUME NEW c \in Consumers, Take(c) PROVE RedisFresh'
  <2>1. transport = "kafka" /\ UNCHANGED transport
    BY <1>4 DEF Take, LoopInv, StateTyped
  <2> QED
    BY <2>1 DEF RedisFresh
<1>5. ASSUME NEW c \in Consumers, ServiceAnswers(c) PROVE RedisFresh'
  <2>1. /\ UNCHANGED <<transport, head, docs, current>> /\ pc[c] = "calling"
        /\ \A b \in Consumers : b # c => UNCHANGED <<pc[b], todo[b]>>
    BY <1>5 DEF ServiceAnswers, ServiceReplies, broker
  <2> QED
    BY <2>1 DEF RedisFresh
<1>6. ASSUME NEW c \in Consumers, ServiceFails(c) PROVE RedisFresh'
  <2>1. /\ UNCHANGED <<transport, head, docs, current>> /\ pc[c] = "calling"
        /\ \A b \in Consumers : b # c => UNCHANGED <<pc[b], todo[b]>>
    BY <1>6 DEF ServiceFails, ServiceReplies, broker
  <2> QED
    BY <2>1 DEF RedisFresh
<1>7. ASSUME NEW c \in Consumers, ServiceDrops(c) PROVE RedisFresh'
  <2>1. /\ current'[c] = 0 /\ UNCHANGED <<transport, head>>
        /\ \A b \in Consumers : b # c => UNCHANGED <<current[b], pc[b], todo[b]>>
        /\ docs' \subseteq docs
    BY <1>7 DEF ServiceDrops, Raise, StateTyped, broker
  <2>2. \A d \in docs : d.msg # 0
    BY <1>a
  <2> QED
    BY <2>1, <2>2 DEF RedisFresh
<1>8. ASSUME NEW c \in Consumers, Index(c) PROVE RedisFresh'
  <2> SUFFICES ASSUME transport = "redis" PROVE RedisFresh'
    BY <1>8 DEF RedisFresh, Index
  <2>1. /\ pc[c] = "writing" /\ docs' \subseteq docs \cup {Document(c)}
        /\ UNCHANGED <<transport, head>>
    BY <1>8, DocumentsAdded
  <2>2. \A b \in Consumers : b # c => UNCHANGED <<current[b], pc[b], todo[b]>>
    BY <1>8 DEF Index
  <2>3. Document(c).msg = current[c] /\ current[c] \in Messages
    BY <2>1, WhatIsLeft
  <2>4. \A d \in docs' : d.msg < head' /\ d.msg \in Messages
    BY <2>1, <2>3 DEF RedisFresh, RedisHands, DocsTyped
  <2>5. ASSUME NEW b \in Consumers, b # c, NEW d \in docs', d.msg = current'[b]
        PROVE  d \in docs
    BY <2>1, <2>2, <2>3, <2>5 DEF RedisHands, Messages
  <2>6. ASSUME NEW d \in docs', d.msg = current'[c]
        PROVE  /\ pc'[c] = "writing"
               /\ \A i \in 1 .. Len(todo'[c]) :
                     d.index # todo'[c][i].index \/ d.part # todo'[c][i].part
    <3>1. c \in DOMAIN pc /\ c \in DOMAIN todo /\ c \in DOMAIN current
      BY DEF StateTyped
    <3>2. Len(todo[c]) \in Nat \ {0} /\ todo[c] \in Seq(Parts)
      BY <2>1, WhatIsLeft
    <3>3. current'[c] # 0
      BY <2>4, <2>6 DEF Messages
    <3>4. Len(todo[c]) # 1 /\ pc'[c] = "writing" /\ current'[c] = current[c]
      BY <1>8, <3>1, <3>3 DEF Index, Finished
    <3>5. todo'[c] = Tail(todo[c])
      BY <1>8, <3>1 DEF Index
    <3>6. /\ Len(todo'[c]) = Len(todo[c]) - 1
          /\ \A i \in 1 .. Len(todo'[c]) : todo'[c][i] = todo[c][i + 1]
      BY <3>2, <3>5
    <3>7. ASSUME NEW i \in 1 .. Len(todo'[c])
          PROVE  d.index # todo'[c][i].index \/ d.part # todo'[c][i].part
      <4>1. i + 1 \in 1 .. Len(todo[c]) /\ i + 1 # 1 /\ todo'[c][i] = todo[c][i + 1]
        BY <3>6
      <4>2. CASE d \in docs
        BY <2>6, <3>4, <4>1, <4>2 DEF RedisFresh
      <4>3. CASE d = Document(c)
        BY <2>1, <4>1, <4>3, WhatIsLeft
      <4> QED
        BY <2>1, <4>2, <4>3
    <3> QED
      BY <3>4, <3>7
  <2> QED
    BY <2>2, <2>4, <2>5, <2>6 DEF RedisFresh
<1>9. ASSUME NEW c \in Consumers, IndexFails(c) PROVE RedisFresh'
  <2>1. /\ pc[c] = "writing" /\ docs' \subseteq docs \cup {Document(c)}
        /\ UNCHANGED <<transport, head>>
    BY <1>9, DocumentsAdded
  <2>2. /\ current'[c] = 0
        /\ \A b \in Consumers : b # c => UNCHANGED <<current[b], pc[b], todo[b]>>
    BY <1>9 DEF IndexFails, Raise, StateTyped
  <2>3. Document(c).msg = current[c] /\ current[c] # 0
    BY <2>1, WhatIsLeft DEF Messages
  <2>4. \A d \in docs' : d.msg # 0
    BY <2>1, <2>3, <1>a
  <2> QED
    BY <2>1, <2>2, <2>3, <2>4 DEF RedisFresh, RedisHands
<1>10. ASSUME NEW c \in Consumers, Commit(c) PROVE RedisFresh'
  <2>1. transport = "kafka" /\ UNCHANGED transport
    BY <1>10 DEF Commit, Loop, LoopInv
  <2> QED
    BY <2>1 DEF RedisFresh
<1>11. ASSUME NEW c \in Consumers, CommitFails(c) PROVE RedisFresh'
  <2>1. transport = "kafka" /\ UNCHANGED transport
    BY <1>11 DEF CommitFails, Loop, LoopInv
  <2> QED
    BY <2>1 DEF RedisFresh
<1>12. ASSUME NEW c \in Consumers, Crash(c) PROVE RedisFresh'
  <2>1. /\ current'[c] = 0 /\ UNCHANGED <<transport, head>>
        /\ \A b \in Consumers : b # c => UNCHANGED <<current[b], pc[b], todo[b]>>
        /\ docs' \subseteq docs
    BY <1>12 DEF Crash, StateTyped
  <2>2. \A d \in docs : d.msg # 0
    BY <1>a
  <2> QED
    BY <2>1, <2>2 DEF RedisFresh
<1>13. ASSUME NEW c \in Consumers, Restart(c) PROVE RedisFresh'
  BY <1>13 DEF RedisFresh, Restart, broker, work
<1>14. CASE Revoke
  BY <1>14 DEF RedisFresh, Revoke, work
<1>15. CASE Midnight
  BY <1>15 DEF RedisFresh, Midnight, broker, work
<1>16. CASE UNCHANGED vars
  BY <1>16 DEF RedisFresh, vars, broker, work
<1> QED
  BY <1>1, <1>2, <1>3, <1>4, <1>5, <1>6, <1>7, <1>8, <1>9, <1>10, <1>11, <1>12, <1>13, <1>14,
     <1>15, <1>16 DEF Next, ConsumerStep

\* Every step keeps a part of a Redis message written once.
LEMMA RedisPartsStep ==
    StateTyped /\ LoopInv /\ WritingInv /\ RedisFresh /\ RedisParts /\ [Next]_vars => RedisParts'
<1> SUFFICES ASSUME StateTyped /\ LoopInv /\ WritingInv /\ RedisFresh /\ RedisParts, [Next]_vars
             PROVE RedisParts'
  OBVIOUS
<1>1. ASSUME NEW c \in Consumers, Pop(c) PROVE RedisParts'
  BY <1>1 DEF RedisParts, Pop
<1>2. ASSUME NEW c \in Consumers, PopFails(c) PROVE RedisParts'
  BY <1>2 DEF RedisParts, PopFails
<1>3. ASSUME NEW c \in Consumers, Poll(c) PROVE RedisParts'
  BY <1>3 DEF RedisParts, Poll
<1>4. ASSUME NEW c \in Consumers, Take(c) PROVE RedisParts'
  BY <1>4 DEF RedisParts, Take
<1>5. ASSUME NEW c \in Consumers, ServiceAnswers(c) PROVE RedisParts'
  BY <1>5 DEF RedisParts, ServiceAnswers, ServiceReplies
<1>6. ASSUME NEW c \in Consumers, ServiceFails(c) PROVE RedisParts'
  BY <1>6 DEF RedisParts, ServiceFails, ServiceReplies
<1>7. ASSUME NEW c \in Consumers, ServiceDrops(c) PROVE RedisParts'
  BY <1>7 DEF RedisParts, ServiceDrops, Raise
<1>8. ASSUME NEW c \in Consumers, Index(c) PROVE RedisParts'
  <2>1. /\ pc[c] = "writing" /\ docs' \subseteq docs \cup {Document(c)} /\ UNCHANGED transport
    BY <1>8, DocumentsAdded
  <2>2. /\ Document(c).msg = current[c] /\ Document(c).index = todo[c][1].index
        /\ Document(c).part = todo[c][1].part /\ 1 \in 1 .. Len(todo[c])
    BY <2>1, WhatIsLeft
  <2>3. transport = "redis" => \A d \in docs :
           d.msg = current[c] => d.index # todo[c][1].index \/ d.part # todo[c][1].part
    BY <2>2 DEF RedisFresh
  <2> QED
    BY <2>1, <2>2, <2>3 DEF RedisParts
<1>9. ASSUME NEW c \in Consumers, IndexFails(c) PROVE RedisParts'
  <2>1. /\ pc[c] = "writing" /\ docs' \subseteq docs \cup {Document(c)} /\ UNCHANGED transport
    BY <1>9, DocumentsAdded
  <2>2. /\ Document(c).msg = current[c] /\ Document(c).index = todo[c][1].index
        /\ Document(c).part = todo[c][1].part /\ 1 \in 1 .. Len(todo[c])
    BY <2>1, WhatIsLeft
  <2>3. transport = "redis" => \A d \in docs :
           d.msg = current[c] => d.index # todo[c][1].index \/ d.part # todo[c][1].part
    BY <2>2 DEF RedisFresh
  <2> QED
    BY <2>1, <2>2, <2>3 DEF RedisParts
<1>10. ASSUME NEW c \in Consumers, Commit(c) PROVE RedisParts'
  BY <1>10 DEF RedisParts, Commit, Loop
<1>11. ASSUME NEW c \in Consumers, CommitFails(c) PROVE RedisParts'
  BY <1>11 DEF RedisParts, CommitFails, Loop
<1>12. ASSUME NEW c \in Consumers, Crash(c) PROVE RedisParts'
  BY <1>12 DEF RedisParts, Crash
<1>13. ASSUME NEW c \in Consumers, Restart(c) PROVE RedisParts'
  BY <1>13 DEF RedisParts, Restart
<1>14. CASE Revoke
  BY <1>14 DEF RedisParts, Revoke
<1>15. CASE Midnight
  BY <1>15 DEF RedisParts, Midnight
<1>16. CASE UNCHANGED vars
  BY <1>16 DEF RedisParts, vars
<1> QED
  BY <1>1, <1>2, <1>3, <1>4, <1>5, <1>6, <1>7, <1>8, <1>9, <1>10, <1>11, <1>12, <1>13, <1>14,
     <1>15, <1>16 DEF Next, ConsumerStep

\* The initial state satisfies the invariant.
LEMMA InitInv == Init => IInv
<1> SUFFICES ASSUME Init PROVE IInv
  OBVIOUS
<1>1. TypeOK
  BY MessageAssumption DEF Init, TypeOK
<1>2. LoopInv
  BY DEF Init, LoopInv
<1>3. WritingInv
  BY DEF Init, WritingInv
<1>4. PassedInv /\ DoneInv
  BY DEF Init, PassedInv, DoneInv, DoneWith, Messages
<1>5. KafkaIds /\ RedisIds /\ RedisFresh /\ RedisParts
  BY DEF Init, KafkaIds, RedisIds, RedisFresh, RedisParts
<1>6. RedisHands
  BY DEF Init, RedisHands
<1> QED
  BY <1>1, <1>2, <1>3, <1>4, <1>5, <1>6 DEF IInv

\* Every step keeps the invariant.
LEMMA NextInv == IInv /\ [Next]_vars => IInv'
<1> SUFFICES ASSUME IInv, [Next]_vars PROVE IInv'
  OBVIOUS
<1>1. /\ TypeOK /\ StateTyped /\ DocsTyped /\ LoopInv /\ WritingInv /\ PassedInv /\ DoneInv
      /\ KafkaIds /\ RedisIds /\ RedisHands /\ RedisFresh /\ RedisParts
  BY TypeParts DEF IInv
<1>2. TypeOK'
  <2>1. StateTyped'
    BY <1>1, StateTypeStep
  <2>2. DocsTyped'
    BY <1>1, DocsTypeStep
  <2>3. (TypeOK <=> StateTyped /\ DocsTyped)'
    BY DEF TypeOK, StateTyped, DocsTyped
  <2> QED
    BY <2>1, <2>2, <2>3
<1>3. LoopInv'
  BY <1>1, LoopStep
<1>4. WritingInv'
  BY <1>1, WritingStep
<1>5. PassedInv'
  BY <1>1, PassedStep
<1>6. DoneInv'
  BY <1>1, DoneStep
<1>7. KafkaIds'
  BY <1>1, KafkaIdsStep
<1>8. RedisIds'
  BY <1>1, RedisIdsStep
<1>9. RedisHands'
  BY <1>1, RedisHandsStep
<1>10. RedisFresh'
  BY <1>1, RedisFreshStep
<1>11. RedisParts'
  BY <1>1, RedisPartsStep
<1> QED
  BY <1>2, <1>3, <1>4, <1>5, <1>6, <1>7, <1>8, <1>9, <1>10, <1>11 DEF IInv

LEMMA InvariantHolds == Spec => []IInv
  BY InitInv, NextInv, PTL DEF Spec

-----------------------------------------------------------------------------
(* Every message comes to one of its ends: what holds without fairness.    *)

\* A member of the group holds the partition only while it runs, and a client
\* does not hand out more than it fetched.
HolderRuns ==
    /\ owner # Nobody => pc[owner] # "down"
    /\ \A c \in Consumers : position[c] <= fetched[c]

\* A consumer can take a step: the guards of the actions of ConsumerStep.
CanStep(c) ==
    \/ pc[c] \in {"calling", "writing", "committing"}
    \/ /\ pc[c] = "polling"
       /\ \/ transport = "redis" /\ head <= LastMessage
          \/ position[c] < fetched[c]
          \/ /\ transport = "kafka"
             /\ \/ owner = c /\ position[c] <= LastMessage
                \/ owner = Nobody /\ committed <= LastMessage

\* When no consumer has anything to do and one is alive, every message has
\* come to one of its ends.
NothingStuck ==
    (\A c \in Consumers : ~CanStep(c)) /\ ~AllDown => \A m \in Messages : Explained(m)

\* The messages ahead of a consumer, and the steps it takes at most before it
\* moves on to the next one.
Ahead(c) == LastMessage + 1 - (IF transport = "redis" THEN head ELSE position[c])
StepsLeft(c) ==
    (IF position[c] < fetched[c] THEN 0 ELSE 1) +
        (CASE pc[c] = "calling"    -> AuditEvents + 3
           [] pc[c] = "writing"    -> Len(todo[c]) + 1
           [] pc[c] = "committing" -> 1
           [] OTHER                -> 0)

\* While the partition stays with its holder and nothing breaks, a step of a
\* consumer takes it nearer to the end of the queue, and no step of another
\* takes it back.
Nearer(c) ==
    \/ Ahead(c)' < Ahead(c)
    \/ Ahead(c)' = Ahead(c) /\ StepsLeft(c)' < StepsLeft(c)
ConsumersAdvance ==
    UNCHANGED <<owner, disruptions>> =>
        \A c \in Consumers :
            /\ ConsumerStep(c) => Nearer(c)
            /\ Nearer(c) \/ UNCHANGED <<Ahead(c), StepsLeft(c)>>

\* Taking part in the group, polling past the end of a batch and crashing
\* keep it so.
LEMMA HolderStep == IInv /\ HolderRuns /\ [Next]_vars => HolderRuns'
<1> SUFFICES ASSUME IInv, HolderRuns, [Next]_vars PROVE HolderRuns'
  OBVIOUS
<1>0. StateTyped /\ LoopInv
  BY TypeParts DEF IInv
<1> USE <1>0
<1>1. ASSUME NEW c \in Consumers, Pop(c) PROVE HolderRuns'
  <2>1. Read(c, head) /\ head \in Messages
    BY <1>1 DEF Pop, StateTyped, Messages
  <2>2. \A b \in Consumers : pc'[b] = "down" => pc[b] = "down"
    BY <2>1, ReadOutcome
  <2> QED
    BY <1>1, <2>2 DEF Pop, HolderRuns, StateTyped, client
<1>2. ASSUME NEW c \in Consumers, Poll(c) PROVE HolderRuns'
  <2>1. /\ owner' = c /\ pc[c] = "polling" /\ UNCHANGED pc
        /\ \A b \in Consumers \ {c} : UNCHANGED <<position[b], fetched[b]>>
    BY <1>2 DEF Poll, StateTyped
  <2>2. position'[c] <= fetched'[c]
    BY <1>2, MessageAssumption, QueueBoundsAssumption DEF Poll, StateTyped
  <2> QED
    BY <2>1, <2>2, NobodyAssumption DEF HolderRuns
<1>3. ASSUME NEW c \in Consumers, Take(c) PROVE HolderRuns'
  <2>1. Read(c, position[c]) /\ position[c] \in Messages
    BY <1>3, MessageAssumption DEF Take, StateTyped, Messages
  <2>2. \A b \in Consumers : pc'[b] = "down" => pc[b] = "down"
    BY <2>1, ReadOutcome
  <2>3. \A b \in Consumers : position'[b] <= fetched'[b]
    BY <1>3 DEF Take, HolderRuns, StateTyped
  <2> QED
    BY <1>3, <2>2, <2>3 DEF Take, HolderRuns, StateTyped, broker
<1>4. ASSUME NEW c \in Consumers,
             \/ ServiceAnswers(c) \/ ServiceFails(c) \/ ServiceDrops(c) \/ Index(c)
             \/ IndexFails(c) \/ Commit(c) \/ CommitFails(c)
      PROVE HolderRuns'
  BY <1>4 DEF ServiceAnswers, ServiceFails, ServiceReplies, ServiceDrops, Index, IndexFails,
              Raise, Commit, CommitFails, Loop, Finished, HolderRuns, StateTyped, client, broker
<1>5. ASSUME NEW c \in Consumers, Crash(c) PROVE HolderRuns'
  BY <1>5 DEF Crash, HolderRuns, StateTyped
<1>6. ASSUME NEW c \in Consumers, Restart(c) \/ PopFails(c) PROVE HolderRuns'
  BY <1>6 DEF Restart, PopFails, HolderRuns, StateTyped, broker, client
<1>7. CASE Revoke \/ Midnight \/ UNCHANGED vars
  BY <1>7 DEF Revoke, Midnight, vars, HolderRuns, broker, client
<1> QED
  BY <1>1, <1>2, <1>3, <1>4, <1>5, <1>6, <1>7 DEF Next, ConsumerStep

\* A consumer that is not down and cannot step is polling; what bars it from
\* polling on is the end of the list or of the topic, for the whole group.
LEMMA QuietIsHandled == IInv /\ HolderRuns => NothingStuck
<1> SUFFICES ASSUME IInv, HolderRuns, \A c \in Consumers : ~CanStep(c), ~AllDown,
                    NEW m \in Messages
             PROVE Explained(m)
  BY DEF NothingStuck
<1>0. StateTyped /\ LoopInv /\ PassedInv /\ DoneInv
  BY TypeParts DEF IInv
<1>1. \A c \in Consumers : pc[c] \in {"polling", "down"} /\ current[c] = 0
  BY <1>0 DEF CanStep, StateTyped, LoopInv
<1>2. PICK c \in Consumers : pc[c] = "polling"
  BY <1>1 DEF AllDown
<1>3. m \in 1 .. LastMessage /\ m # 0
  BY MessageAssumption DEF Messages
<1>4. CASE transport = "redis"
  <2>1. ~(head <= LastMessage)
    BY <1>2, <1>4 DEF CanStep
  <2>2. DoneWith(m)
    BY <1>0, <1>1, <1>3, <1>4, <2>1, MessageAssumption DEF DoneWith, StateTyped
  <2> QED
    BY <1>0, <2>2 DEF DoneInv
<1>5. CASE transport = "kafka" /\ owner = Nobody
  <2>1. ~(committed <= LastMessage)
    BY <1>2, <1>5 DEF CanStep
  <2>2. DoneWith(m)
    BY <1>0, <1>3, <1>5, <2>1, MessageAssumption DEF DoneWith, StateTyped
  <2> QED
    BY <1>0, <2>2 DEF DoneInv
<1>6. CASE transport = "kafka" /\ owner \in Consumers
  <2>1. pc[owner] = "polling"
    BY <1>1, <1>6, NobodyAssumption DEF HolderRuns
  <2>2. ~(position[owner] <= LastMessage)
    BY <1>6, <2>1 DEF CanStep
  <2>3. m < position[owner]
    BY <1>0, <1>3, <1>6, <2>2, MessageAssumption DEF StateTyped
  <2> QED
    BY <1>0, <1>1, <1>3, <1>6, <2>3 DEF PassedInv
<1> QED
  BY <1>0, <1>4, <1>5, <1>6 DEF StateTyped

\* What is ahead of a consumer is a number of messages, and of steps.
LEMMA AheadType ==
    ASSUME StateTyped, NEW c \in Consumers
    PROVE  Ahead(c) \in Nat /\ StepsLeft(c) \in Nat
<1>1. Len(todo[c]) \in Nat
  BY DEF StateTyped
<1>2. Ahead(c) \in Nat
  BY MessageAssumption DEF StateTyped, Ahead
<1>3. StepsLeft(c) \in Nat
  <2> DEFINE more == CASE pc[c] = "calling"    -> AuditEvents + 3
                       [] pc[c] = "writing"    -> Len(todo[c]) + 1
                       [] pc[c] = "committing" -> 1
                       [] OTHER                -> 0
  <2>1. more \in Nat
    BY <1>1, QueueBoundsAssumption
  <2>2. StepsLeft(c) = (IF position[c] < fetched[c] THEN 0 ELSE 1) + more
    BY DEF StepsLeft
  <2> HIDE DEF more
  <2> QED
    BY <2>1, <2>2
<1> QED
  BY <1>2, <1>3

\* One step of a consumer, in terms of the two.
LEMMA StepAdvances ==
    ASSUME IInv, HolderRuns, NEW c \in Consumers, ConsumerStep(c), UNCHANGED owner
    PROVE  /\ Nearer(c)
           /\ \A b \in Consumers \ {c} : Nearer(b) \/ UNCHANGED <<Ahead(b), StepsLeft(b)>>
<1>0. StateTyped /\ LoopInv
  BY TypeParts DEF IInv
<1>c. /\ LastMessage \in Nat /\ AuditEvents \in Nat
      /\ Len(todo[c]) \in Nat
  BY <1>0, MessageAssumption, QueueBoundsAssumption DEF StateTyped
<1>1. ASSUME Pop(c) PROVE \A b \in Consumers : Nearer(b)
  BY <1>0, <1>1, <1>c DEF Pop, StateTyped, Nearer, Ahead
<1>2. ASSUME Poll(c)
      PROVE  /\ Nearer(c)
             /\ \A b \in Consumers \ {c} : UNCHANGED <<Ahead(b), StepsLeft(b)>>
  <2>1. /\ transport = "kafka" /\ pc[c] = "polling"
        /\ UNCHANGED <<transport, pc, todo>>
        /\ position'[c] = position[c] /\ position[c] = fetched[c]
    BY <1>0, <1>2, NobodyAssumption DEF Poll, StateTyped, work
  <2>2. position'[c] < fetched'[c]
    <3>1. position[c] \in Nat /\ position[c] <= LastMessage /\ MaxPollRecords \in Nat \ {0}
      BY <1>0, <1>2, <2>1, QueueBoundsAssumption, NobodyAssumption DEF Poll, StateTyped
    <3>2. fetched'[c] \in {position[c] + MaxPollRecords, LastMessage + 1}
      BY <1>0, <1>2, <2>1, NobodyAssumption DEF Poll, StateTyped
    <3> QED
      BY <1>c, <2>1, <3>1, <3>2
  <2>3. \A b \in Consumers \ {c} : UNCHANGED <<position[b], fetched[b]>>
    BY <1>0, <1>2 DEF Poll, StateTyped
  <2>4. Ahead(c)' = Ahead(c)
    BY <2>1 DEF Ahead
  <2>5. StepsLeft(c)' = 0 /\ StepsLeft(c) = 1
    <3>1. ~(position[c] < fetched[c])
      BY <1>0, <2>1 DEF StateTyped
    <3> QED
      BY <2>1, <2>2, <3>1 DEF StepsLeft
  <2> QED
    BY <2>1, <2>3, <2>4, <2>5 DEF Nearer, Ahead, StepsLeft
<1>3. ASSUME Take(c)
      PROVE  /\ Nearer(c)
             /\ \A b \in Consumers \ {c} : UNCHANGED <<Ahead(b), StepsLeft(b)>>
  <2>1. /\ transport = "kafka" /\ position[c] \in Messages
        /\ Read(c, position[c])
    BY <1>0, <1>3, <1>c DEF Take, StateTyped, LoopInv, Messages
  <2>2. /\ \A b \in Consumers : b # c => pc'[b] = pc[b] /\ position'[b] = position[b]
        /\ UNCHANGED <<transport, todo, fetched>>
        /\ position'[c] = position[c] + 1
    BY <1>0, <1>3, <2>1, ReadOutcome DEF Take, StateTyped
  <2>3. Ahead(c)' < Ahead(c)
    BY <1>0, <1>c, <2>1, <2>2 DEF Ahead, StateTyped
  <2>4. \A b \in Consumers \ {c} : UNCHANGED <<Ahead(b), StepsLeft(b)>>
    BY <2>1, <2>2 DEF Ahead, StepsLeft
  <2> QED
    BY <2>3, <2>4 DEF Nearer
<1>4. ASSUME \/ ServiceAnswers(c) \/ ServiceFails(c) \/ ServiceDrops(c)
             \/ Index(c) \/ IndexFails(c) \/ Commit(c) \/ CommitFails(c)
      PROVE  /\ UNCHANGED <<transport, head, position, fetched>>
             /\ \A b \in Consumers \ {c} : UNCHANGED <<pc[b], todo[b]>>
  BY <1>0, <1>4 DEF ServiceAnswers, ServiceFails, ServiceReplies, ServiceDrops, Index, IndexFails,
     Raise, Commit, CommitFails, Loop, StateTyped, client, broker
<1>5. ASSUME ServiceAnswers(c) \/ ServiceFails(c)
      PROVE  pc[c] = "calling" /\ pc'[c] = "writing" /\ Len(todo'[c]) <= AuditEvents + 1
  <2>1. Len(Answer) <= AuditEvents + 1 /\ Len(Quarantine) <= AuditEvents + 1
    BY <1>c, AnswersAreParts
  <2>2. ASSUME NEW documents, ServiceReplies(c, documents)
        PROVE  pc[c] = "calling" /\ pc'[c] = "writing" /\ todo'[c] = documents
    BY <1>0, <2>2 DEF ServiceReplies, StateTyped
  <2> QED
    BY <1>5, <2>1, <2>2 DEF ServiceAnswers, ServiceFails
<1>6. ASSUME Index(c)
      PROVE  /\ pc[c] = "writing"
             /\ \/ pc'[c] = "writing" /\ Len(todo'[c]) = Len(todo[c]) - 1
                \/ pc'[c] \in {"polling", "committing"} /\ Len(todo[c]) = 1
  <2>1. todo[c] # <<>> /\ todo[c] \in Seq(Parts)
    BY <1>0, <1>6 DEF Index, StateTyped, LoopInv
  <2>2. Len(Tail(todo[c])) = Len(todo[c]) - 1
    BY <2>1, HeadTailProperties
  <2> QED
    BY <1>0, <1>6, <2>2 DEF Index, StateTyped, Finished
<1>7. ASSUME ServiceDrops(c) \/ IndexFails(c) \/ Commit(c) \/ CommitFails(c)
      PROVE  pc[c] \in {"calling", "writing", "committing"} /\ pc'[c] = "polling"
  BY <1>0, <1>7 DEF ServiceDrops, IndexFails, Raise, Commit, CommitFails, Loop, StateTyped
<1>8. ASSUME \/ ServiceAnswers(c) \/ ServiceFails(c) \/ ServiceDrops(c)
             \/ Index(c) \/ IndexFails(c) \/ Commit(c) \/ CommitFails(c)
      PROVE  /\ Nearer(c)
             /\ \A b \in Consumers \ {c} : UNCHANGED <<Ahead(b), StepsLeft(b)>>
  <2>1. \A b \in Consumers \ {c} : UNCHANGED <<Ahead(b), StepsLeft(b)>>
    BY <1>4, <1>8 DEF Ahead, StepsLeft
  <2>2. Ahead(c)' = Ahead(c)
    BY <1>4, <1>8 DEF Ahead
  <2>3. Len(todo'[c]) \in Nat
    BY <1>0, <1>8, StateTypeStep DEF StateTyped, Next, ConsumerStep
  <2>4. StepsLeft(c)' < StepsLeft(c)
    <3>1. CASE ServiceAnswers(c) \/ ServiceFails(c)
      BY <1>4, <1>5, <1>8, <1>c, <2>3, <3>1 DEF StepsLeft
    <3>2. CASE Index(c)
      <4>1. UNCHANGED <<position[c], fetched[c]>>
        BY <1>4, <3>2
      <4>2. CASE pc'[c] = "writing" /\ Len(todo'[c]) = Len(todo[c]) - 1
        <5> DEFINE used == IF position[c] < fetched[c] THEN 0 ELSE 1
        <5>1. StepsLeft(c) = used + (Len(todo[c]) + 1)
          BY <1>6, <3>2 DEF StepsLeft
        <5>2. StepsLeft(c)' = used + (Len(todo'[c]) + 1)
          BY <4>1, <4>2 DEF StepsLeft
        <5>3. used \in Nat
          OBVIOUS
        <5> HIDE DEF used
        <5> QED
          BY <1>c, <2>3, <4>2, <5>1, <5>2, <5>3
      <4>3. CASE pc'[c] = "polling"
        BY <1>6, <1>c, <3>2, <4>1, <4>3 DEF StepsLeft
      <4>4. CASE pc'[c] = "committing" /\ Len(todo[c]) = 1
        BY <1>6, <1>c, <3>2, <4>1, <4>4 DEF StepsLeft
      <4> QED
        BY <1>6, <3>2, <4>2, <4>3, <4>4
    <3>3. CASE ServiceDrops(c) \/ IndexFails(c) \/ Commit(c) \/ CommitFails(c)
      BY <1>4, <1>7, <1>8, <1>c, <3>3 DEF StepsLeft
    <3> QED
      BY <1>8, <3>1, <3>2, <3>3
  <2> QED
    BY <2>1, <2>2, <2>4 DEF Nearer
<1> QED
  BY <1>1, <1>2, <1>3, <1>8 DEF ConsumerStep

\* The steps of the others leave it where it is.
LEMMA NextAdvances == IInv /\ HolderRuns /\ [Next]_vars => ConsumersAdvance
<1> SUFFICES ASSUME IInv, HolderRuns, [Next]_vars, UNCHANGED <<owner, disruptions>>,
                    NEW c \in Consumers
             PROVE  /\ ConsumerStep(c) => Nearer(c)
                    /\ Nearer(c) \/ UNCHANGED <<Ahead(c), StepsLeft(c)>>
  BY DEF ConsumersAdvance
<1>0. StateTyped
  BY TypeParts DEF IInv
<1>1. ASSUME NEW b \in Consumers, ConsumerStep(b)
      PROVE  Nearer(c) \/ UNCHANGED <<Ahead(c), StepsLeft(c)>>
  BY <1>1, StepAdvances
<1>2. ASSUME NEW b \in Consumers, PopFails(b) \/ Crash(b) PROVE FALSE
  BY <1>0, <1>2 DEF PopFails, Crash, StateTyped
<1>3. ASSUME NEW b \in Consumers, Restart(b) PROVE UNCHANGED <<Ahead(c), StepsLeft(c)>>
  BY <1>0, <1>3 DEF Restart, StateTyped, Ahead, StepsLeft, broker, client, work
<1>4. CASE Revoke
  BY <1>0, <1>4 DEF Revoke, StateTyped
<1>5. ASSUME Midnight \/ UNCHANGED vars PROVE UNCHANGED <<Ahead(c), StepsLeft(c)>>
  BY <1>5 DEF Midnight, vars, Ahead, StepsLeft, broker, client, work
<1>6. Nearer(c) \/ UNCHANGED <<Ahead(c), StepsLeft(c)>>
  BY <1>1, <1>2, <1>3, <1>4, <1>5 DEF Next
<1> QED
  BY <1>6, StepAdvances

-----------------------------------------------------------------------------
(* What follows.                                                           *)

\* Every variable of the consumers keeps its type.
THEOREM QueueTypeCorrect == Spec => []TypeOK
<1>1. IInv => TypeOK
  BY DEF IInv
<1> QED
  BY <1>1, InvariantHolds, PTL

\* No message falls out of _run_kafka_consumer()'s commits or main()'s BLPOP
\* unseen: what is behind them is written, empty, raised or lost with a
\* consumer, however many crash, lose the partition or share it.
THEOREM DoneIsExplained == Spec => []DoneOrExplained
<1>1. IInv => DoneOrExplained
  BY DEF IInv, DoneInv, DoneOrExplained, Explained
<1> QED
  BY <1>1, InvariantHolds, PTL

\* However often a message is delivered, the ids process_event() gives make
\* it one document per part: equal ids for equal parts and for no others.
THEOREM PartsHaveOneDocument == Spec => []OneDocumentPerPart
<1>1. ASSUME IInv PROVE OneDocumentPerPart
  <2>1. transport \in {"redis", "kafka"}
    BY <1>1 DEF IInv, TypeOK
  <2>2. CASE transport = "kafka"
    BY <1>1, <2>2 DEF IInv, KafkaIds, OneDocumentPerPart
  <2>3. CASE transport = "redis"
    BY <1>1, <2>3 DEF IInv, RedisIds, RedisParts, OneDocumentPerPart
  <2> QED
    BY <2>1, <2>2, <2>3
<1> QED
  BY <1>1, InvariantHolds, PTL

\* When no consumer can go on and one is alive, no message was left behind:
\* the member that holds the partition runs, so its position or the committed
\* offset is past the last message, and what is behind either is explained
\* (main() and _run_kafka_consumer()).
THEOREM NothingStuckAlways == Spec => []NothingStuck
<1>1. Init => HolderRuns
  BY DEF Init, HolderRuns
<1> QED
  BY <1>1, HolderStep, QuietIsHandled, InvariantHolds, PTL DEF Spec

\* While the partition stays with its holder and nothing breaks, each step of a
\* consumer brings it nearer to the end of the queue and no step of another
\* takes it back: with fairness, and NothingStuck, the end is reached.
THEOREM ConsumersAdvanceAlways == Spec => [][ConsumersAdvance]_vars
<1>1. Init => HolderRuns
  BY DEF Init, HolderRuns
<1> QED
  BY <1>1, HolderStep, NextAdvances, InvariantHolds, PTL DEF Spec

=============================================================================
