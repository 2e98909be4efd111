----------------------------- MODULE QueueConsumer -----------------------------
(***************************************************************************)
(* The consumers of the ingestion queue (src/src/queue_consumer.py):       *)
(* main()'s loop over a Redis list, _run_kafka_consumer()'s loop over a    *)
(* Kafka topic, and process_event(), which asks redact-service to          *)
(* anonymize an event and indexes what comes back.  Several consumers      *)
(* share one list, or one consumer group on one partition.                 *)
(*                                                                         *)
(* Simplifications:                                                        *)
(*  - a message is its offset; the Redis list and the topic are full from  *)
(*    the start, as producers do not wait for consumers;                   *)
(*  - index_document() fails over between nodes of one cluster, so it is   *)
(*    one write that succeeds, or raises and may still have been applied;  *)
(*  - the broker accepts commits from the member that holds the partition; *)
(*    a member that lost it finds out at its next poll or commit.          *)
(***************************************************************************)
EXTENDS Naturals, Sequences, FiniteSets

CONSTANTS
    Consumers,      \* queue-consumer processes
    LastMessage,    \* messages are 1 .. LastMessage
    Kind,           \* "event", "empty", "unparseable" or "notobject"
    AuditEvents,    \* audit events in redact-service's answer
    MaxPollRecords, \* max_poll_records
    MaxDays,        \* bound: midnights
    MaxDisruptions, \* bound: crashes and partition revocations
    Nobody          \* the partition is not assigned

Messages == 1 .. LastMessage

ASSUME MessageAssumption == LastMessage \in Nat \ {0}
ASSUME KindAssumption ==
    Kind \in [Messages -> {"event", "empty", "unparseable", "notobject"}]
ASSUME QueueBoundsAssumption ==
    AuditEvents \in Nat /\ MaxPollRecords \in Nat \ {0} /\ MaxDays \in Nat
        /\ MaxDisruptions \in Nat
ASSUME NobodyAssumption == Nobody \notin Consumers

VARIABLES
    transport,  \* "kafka" if KAFKA_BROKERS is set, else "redis"
    head,       \* first message still in the Redis list
    committed,  \* the group's committed offset
    owner,      \* the consumer that holds the partition
    pc,         \* where a consumer is in its loop
    position,   \* the next message the Kafka client hands to it
    fetched,    \* the end of the batch it polled
    current,    \* the message it works on
    date,       \* the date_suffix of that message
    todo,       \* the documents it still has to index for it
    docs,       \* the documents in OpenSearch
    uuids,      \* uuid4() values drawn
    day,        \* the date
    disruptions,
    \* history
    raised,     \* messages process_event() raised on
    lost        \* messages that left the list with a crash or a broken reply

broker == <<head, committed, owner>>
client == <<position, fetched>>
work == <<current, date, todo>>
history == <<raised, lost>>
vars == <<transport, broker, pc, client, work, docs, uuids, day, disruptions, history>>

\* The documents of one message: [index |-> ..., part |-> ...].
Quarantine == <<[index |-> "quarantine", part |-> 0]>>
Answer == <<[index |-> "anonymized", part |-> 0]>>
              \o [i \in 1 .. AuditEvents |-> [index |-> "audit", part |-> i]]

Init ==
    /\ transport \in {"redis", "kafka"}
    /\ head = 1
    /\ committed = 1
    /\ owner = Nobody
    /\ pc = [c \in Consumers |-> "polling"]
    /\ position = [c \in Consumers |-> 1]
    /\ fetched = [c \in Consumers |-> 1]
    /\ current = [c \in Consumers |-> 0]
    /\ date = [c \in Consumers |-> 0]
    /\ todo = [c \in Consumers |-> <<>>]
    /\ docs = {}
    /\ uuids = 0
    /\ day = 0
    /\ disruptions = 0
    /\ raised = {}
    /\ lost = {}

-----------------------------------------------------------------------------
(* Taking a message and reading it.                                        *)

\* Where process_event() ends: a Kafka consumer commits, a Redis one polls.
Finished == IF transport = "kafka" THEN "committing" ELSE "polling"

\* json.loads() and the first lines of process_event().  Text without JSON
\* and an event without text are done with; JSON that is no object raises.
Read(c, m) ==
    /\ pc' = [pc EXCEPT ![c] =
                CASE Kind[m] = "event" -> "calling"
                  [] Kind[m] \in {"empty", "unparseable"} -> Finished
                  [] Kind[m] = "notobject" -> "polling"]
    /\ current' = [current EXCEPT ![c] = IF pc'[c] = "polling" THEN 0 ELSE m]
    /\ date' = [date EXCEPT ![c] = IF Kind[m] = "event" THEN day ELSE 0]
    /\ raised' = IF Kind[m] = "notobject" THEN raised \cup {m} ELSE raised

\* BLPOP gives a message to one consumer and removes it from the list.
Pop(c) ==
    /\ transport = "redis"
    /\ pc[c] = "polling"
    /\ head <= LastMessage
    /\ head' = head + 1
    /\ Read(c, head)
    /\ UNCHANGED <<transport, committed, owner, client, todo, docs, uuids, day,
                   disruptions, lost>>

\* The connection breaks under BLPOP after the message left the list; the
\* consumer sleeps and polls again.
PopFails(c) ==
    /\ transport = "redis"
    /\ pc[c] = "polling"
    /\ head <= LastMessage
    /\ disruptions < MaxDisruptions
    /\ disruptions' = disruptions + 1
    /\ head' = head + 1
    /\ lost' = lost \cup {head}
    /\ UNCHANGED <<transport, committed, owner, pc, client, work, docs, uuids, day, raised>>

\* The Kafka client polls when its batch is used up: it takes the partition
\* if nobody holds it, and then starts at the committed offset.
Poll(c) ==
    LET from == IF owner = c THEN position[c] ELSE committed
        end == from + MaxPollRecords
    IN  /\ transport = "kafka"
        /\ pc[c] = "polling"
        /\ position[c] = fetched[c]
        /\ owner \in {c, Nobody}
        /\ from <= LastMessage
        /\ owner' = c
        /\ position' = [position EXCEPT ![c] = from]
        /\ fetched' = [fetched EXCEPT ![c] = IF end <= LastMessage THEN end ELSE LastMessage + 1]
        /\ UNCHANGED <<transport, head, committed, pc, work, docs, uuids, day,
                       disruptions, history>>

\* Faulty variant: the offset is committed before the message is processed.
CommitAndTake(c) ==
    /\ pc[c] = "polling"
    /\ position[c] < fetched[c]
    /\ Read(c, position[c])
    /\ position' = [position EXCEPT ![c] = @ + 1]
    /\ committed' = IF owner = c THEN position[c] + 1 ELSE committed
    /\ UNCHANGED <<transport, head, owner, fetched, todo, docs, uuids, day,
                   disruptions, lost>>

\* The next message of the batch; the client's position moves past it first.
Take(c) ==
    /\ pc[c] = "polling"
    /\ position[c] < fetched[c]
    /\ Read(c, position[c])
    /\ position' = [position EXCEPT ![c] = @ + 1]
    /\ UNCHANGED <<transport, broker, fetched, todo, docs, uuids, day,
                   disruptions, lost>>

-----------------------------------------------------------------------------
(* process_event().                                                        *)

ServiceReplies(c, documents) ==
    /\ pc[c] = "calling"
    /\ pc' = [pc EXCEPT ![c] = "writing"]
    /\ todo' = [todo EXCEPT ![c] = documents]
    /\ UNCHANGED <<transport, broker, client, current, date, docs, uuids, day,
                   disruptions, history>>

ServiceAnswers(c) == ServiceReplies(c, Answer)

\* An error status, an error body, a refused connection or a timeout: the
\* event goes to quarantine.
ServiceFails(c) == ServiceReplies(c, Quarantine)

\* process_event() raises, and the loop carries on without a commit.
Raise(c) ==
    /\ raised' = raised \cup {current[c]}
    /\ pc' = [pc EXCEPT ![c] = "polling"]
    /\ current' = [current EXCEPT ![c] = 0]
    /\ date' = [date EXCEPT ![c] = 0]
    /\ todo' = [todo EXCEPT ![c] = <<>>]
    /\ UNCHANGED <<transport, broker, client, day, disruptions, lost>>

\* The connection is closed before or inside the response: RemoteDisconnected
\* and IncompleteRead are not among the errors that lead to quarantine.
ServiceDrops(c) ==
    /\ pc[c] = "calling"
    /\ Raise(c)
    /\ UNCHANGED <<docs, uuids>>

\* Faulty variant: every call draws new ids.
FreshId(m, d) == <<"uuid", uuids>>

\* A Kafka message names its documents, a Redis one has nothing to name
\* them by.
DocId(m, d) == IF transport = "kafka" THEN <<m, d.part>> ELSE <<"uuid", uuids>>

\* The index name carries the date, the audit trail's only the month.
Document(c) ==
    LET d == Head(todo[c])
    IN  [msg |-> current[c], index |-> d.index, part |-> d.part,
         date |-> IF d.index = "audit" THEN 0 ELSE date[c],
         id |-> DocId(current[c], d)]

IdsDrawn == IF transport = "kafka" THEN uuids ELSE uuids + 1

Index(c) ==
    /\ pc[c] = "writing"
    /\ docs' = docs \cup {Document(c)}
    /\ uuids' = IdsDrawn
    /\ todo' = [todo EXCEPT ![c] = Tail(@)]
    /\ pc' = [pc EXCEPT ![c] = IF Len(todo[c]) = 1 THEN Finished ELSE "writing"]
    /\ current' = [current EXCEPT ![c] = IF pc'[c] = "polling" THEN 0 ELSE @]
    /\ date' = [date EXCEPT ![c] = IF pc'[c] = "polling" THEN 0 ELSE @]
    /\ UNCHANGED <<transport, broker, client, day, disruptions, history>>

\* No node confirms the write.
IndexFails(c) ==
    /\ pc[c] = "writing"
    /\ docs' \in {docs, docs \cup {Document(c)}}
    /\ uuids' = IdsDrawn
    /\ Raise(c)

-----------------------------------------------------------------------------
(* consumer.commit(): everything the client has handed out so far.         *)

Loop(c) ==
    /\ pc' = [pc EXCEPT ![c] = "polling"]
    /\ current' = [current EXCEPT ![c] = 0]
    /\ date' = [date EXCEPT ![c] = 0]
    /\ UNCHANGED <<transport, head, owner, client, todo, docs, uuids, day, history>>

\* Faulty variant: one is added to a position that is already the next one.
CommitPastNext(c) ==
    /\ pc[c] = "committing"
    /\ owner = c
    /\ committed' = position[c] + 1
    /\ Loop(c)
    /\ UNCHANGED disruptions

Commit(c) ==
    /\ pc[c] = "committing"
    /\ owner = c
    /\ committed' = position[c]
    /\ Loop(c)
    /\ UNCHANGED disruptions

\* Faulty variant: the commit is tried again until it succeeds.
CommitRetried(c) ==
    /\ pc[c] = "committing"
    /\ owner # c
    /\ UNCHANGED vars

\* KafkaError, since another member holds the partition: the loop sleeps
\* and carries on with its batch.
CommitFails(c) ==
    /\ pc[c] = "committing"
    /\ owner # c
    /\ Loop(c)
    /\ UNCHANGED <<committed, disruptions>>

-----------------------------------------------------------------------------
(* The world around the consumers.                                         *)

\* The group coordinator takes the partition from a member that was slow to
\* poll or that has to share it.
Revoke ==
    /\ owner # Nobody
    /\ disruptions < MaxDisruptions
    /\ disruptions' = disruptions + 1
    /\ owner' = Nobody
    /\ UNCHANGED <<transport, head, committed, pc, client, work, docs, uuids, day, history>>

Crash(c) ==
    /\ pc[c] # "down"
    /\ disruptions < MaxDisruptions
    /\ disruptions' = disruptions + 1
    /\ pc' = [pc EXCEPT ![c] = "down"]
    /\ owner' = IF owner = c THEN Nobody ELSE owner
    /\ lost' = IF transport = "redis" /\ current[c] # 0 THEN lost \cup {current[c]} ELSE lost
    /\ position' = [position EXCEPT ![c] = 1]
    /\ fetched' = [fetched EXCEPT ![c] = 1]
    /\ current' = [current EXCEPT ![c] = 0]
    /\ date' = [date EXCEPT ![c] = 0]
    /\ todo' = [todo EXCEPT ![c] = <<>>]
    /\ UNCHANGED <<transport, head, committed, docs, uuids, day, raised>>

Restart(c) ==
    /\ pc[c] = "down"
    /\ pc' = [pc EXCEPT ![c] = "polling"]
    /\ UNCHANGED <<transport, broker, client, work, docs, uuids, day, disruptions, history>>

Midnight ==
    /\ day < MaxDays
    /\ day' = day + 1
    /\ UNCHANGED <<transport, broker, pc, client, work, docs, uuids, disruptions, history>>

-----------------------------------------------------------------------------
ConsumerStep(c) ==
    \/ Pop(c) \/ Poll(c) \/ Take(c)
    \/ ServiceAnswers(c) \/ ServiceFails(c) \/ ServiceDrops(c)
    \/ Index(c) \/ IndexFails(c)
    \/ Commit(c) \/ CommitFails(c)

Next ==
    \/ \E c \in Consumers : ConsumerStep(c) \/ PopFails(c) \/ Crash(c) \/ Restart(c)
    \/ Revoke
    \/ Midnight

Spec == Init /\ [][Next]_vars

\* A running consumer keeps running its loop; nobody need restart a dead one.
FairSpec == Spec /\ \A c \in Consumers : WF_vars(ConsumerStep(c))

-----------------------------------------------------------------------------
Parts == [index : {"quarantine"}, part : {0}] \cup [index : {"anonymized"}, part : {0}]
           \cup [index : {"audit"}, part : 1 .. AuditEvents]
Ids == IF transport = "kafka" THEN Messages \X (0 .. AuditEvents) ELSE {"uuid"} \X Nat

\* Every variable has its type.
TypeOK ==
    /\ transport \in {"redis", "kafka"}
    /\ head \in 1 .. LastMessage + 1
    /\ committed \in 1 .. LastMessage + 1
    /\ owner \in Consumers \cup {Nobody}
    /\ pc \in [Consumers -> {"polling", "calling", "writing", "committing", "down"}]
    /\ position \in [Consumers -> 1 .. LastMessage + 1]
    /\ fetched \in [Consumers -> 1 .. LastMessage + 1]
    /\ current \in [Consumers -> Messages \cup {0}]
    /\ date \in [Consumers -> Nat]
    /\ todo \in [Consumers -> Seq(Parts)]
    /\ \A d \in docs : /\ [index |-> d.index, part |-> d.part] \in Parts
                       /\ d.msg \in Messages /\ d.date \in Nat /\ d.id \in Ids
    /\ uuids \in Nat
    /\ day \in Nat
    /\ disruptions \in Nat
    /\ raised \in SUBSET Messages
    /\ lost \in SUBSET Messages

\* All that a message comes to is in OpenSearch.
HasDocuments(m, documents) ==
    \A i \in DOMAIN documents :
        \E d \in docs : d.msg = m /\ d.index = documents[i].index /\ d.part = documents[i].part
Written(m) == HasDocuments(m, Quarantine) \/ HasDocuments(m, Answer)
NothingToDo(m) == Kind[m] \in {"empty", "unparseable"}

\* A message behind the committed offset, or out of the list and in no
\* consumer's hands, is in OpenSearch with all its audit events, held nothing
\* to anonymize, or raised; on Redis it may have been lost with a consumer.
DoneWith(m) ==
    IF transport = "kafka" THEN m < committed
    ELSE m < head /\ \A c \in Consumers : current[c] # m
DoneOrExplained ==
    \A m \in Messages :
        DoneWith(m) => Written(m) \/ NothingToDo(m) \/ m \in raised \cup lost

\* Redelivery after a crash, a revocation or a failed commit overwrites what
\* the first delivery wrote, and no two documents that differ share an id.
OneDocumentPerPart ==
    \A d, e \in docs :
        d.index = e.index /\ d.date = e.date
            => (d.id = e.id <=> d.msg = e.msg /\ d.part = e.part)

\* Every message gets to that end, unless all the consumers are dead at some
\* moment.
AllDown == \A c \in Consumers : pc[c] = "down"
EveryMessageHandled ==
    \A m \in Messages :
        <>(Written(m) \/ NothingToDo(m) \/ m \in raised \cup lost \/ AllDown)

\* An offset is committed only past messages that were written or hold
\* nothing: what _run_kafka_consumer() says of the message it does not commit.
CommittedIsWritten ==
    \A m \in Messages :
        transport = "kafka" /\ m < committed => Written(m) \/ NothingToDo(m)

=============================================================================
