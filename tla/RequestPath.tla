----------------------------- MODULE RequestPath -----------------------------
(***************************************************************************)
(* One worker of src/src/service.py answering /anonymize: the line goes    *)
(* through detect.detect_all_schema_aware(), dedup_spans() and             *)
(* anonymize_by_policy(), and each declared field may be put on the queue  *)
(* of schema_trust_sampler.py, whose daemon thread looks at it again.      *)
(* SpanDetection has the operators.                                        *)
(*                                                                         *)
(* Simplifications: a gunicorn worker has one request at a time; the       *)
(* requests of a behaviour carry the same line, and what the detection     *)
(* makes of it, which depends on nothing else, stands from the start;      *)
(* every canonical type is replaced (PolicyReload shows that any policy    *)
(* does); the worker does not stop.                                        *)
(***************************************************************************)
EXTENDS SpanDetection

CONSTANTS
    Requests,       \* [line, logType, file] records: what requests may carry,
                    \* and the worker's schema-trust file
    QueueSize,      \* maxsize
    MaxRequests,    \* bound: requests in a behaviour
    MaxFaults       \* bound: exceptions in the sampler's thread

ASSUME RequestBounds == QueueSize \in Nat \ {0} /\ MaxRequests \in Nat /\ MaxFaults \in Nat

\* A line is made of cells, and no word of it is part of two e-mail addresses.
ASSUME RequestLines ==
    \A r \in Requests :
        /\ r.line \in Seq(Cell)
        /\ \A i \in DOMAIN r.line :
              r.line[i] = "at" /\ IsCell(r.line, i + 2, "at") => r.line[i + 1] \notin Word

VARIABLES
    request,    \* the line, its log type and the schema-trust file
    samples,    \* its declared fields, as samples
    found,      \* the typed spans the detection finds
    kept,       \* the spans that dedup_spans keeps
    answer,     \* the rewritten line
    pc,         \* where the handler is
    offers,     \* declared fields not yet offered to the sampler
    served,     \* requests answered
    queue,      \* SchemaTrustSampler._queue
    thread,     \* where the sampler's thread is
    item,       \* the sample it works on
    enqueued,   \* _samples_enqueued
    dropped,    \* _samples_dropped
    processed,  \* _samples_processed
    outcomes,   \* _outcome_counts
    events,     \* events in the schema-trust audit log, by outcome
    unlogged,   \* history: outcomes whose event could not be appended
    unfinished  \* history: samples whose check raised

work == <<request, samples, found, kept, answer>>
handler == <<work, pc, offers, served>>
counts == <<enqueued, dropped, processed, outcomes>>
log == <<events, unlogged, unfinished>>
vars == <<handler, queue, thread, item, counts, log>>

Outcome == {"consistent", "no_signal", "drift_detected"}
NoItem == [type |-> "none", value |-> <<>>, outcome |-> "none"]

line == request.line

\* SCHEMA_TRUST.get(log_type)
trust == TrustFor(request.file, request.logType)

IsTyped(h) == h.type # "HIGH_ENTROPY"
Typed(hits) == Chosen(hits, {i \in DOMAIN hits : IsTyped(hits[i])})

\* _process_one: the value checked by itself, with no log type.
OutcomeFor(declaredType, types) ==
    CASE declaredType \in types -> "consistent"
      [] declaredType \notin types /\ types = {} -> "no_signal"
      [] OTHER -> "drift_detected"

OutcomeOf(declaredType, value) ==
    OutcomeFor(declaredType,
               {h.type : h \in {x \in ToSet(DetectGated(value, "none")) : IsTyped(x)}})

\* A sample, with the outcome its check will have.
Sample(type, value) == [type |-> type, value |-> value, outcome |-> OutcomeOf(type, value)]

Samples(declared) ==
    [i \in DOMAIN declared |-> Sample(trust[declared[i].field.name], declared[i].field.value)]

-----------------------------------------------------------------------------
\* A worker does not start on a schema-trust file that is refused.
Init ==
    /\ request \in Requests
    /\ TrustAccepted(request.file)
    /\ samples = Samples(Declared(line, request.logType, trust))
    /\ found = Typed(DetectSchemaAware(line, request.logType, trust))
    /\ kept = DedupSpans(found)
    /\ answer = Rewrite(line, kept)
    /\ pc = "idle"
    /\ offers = <<>>
    /\ served = 0
    /\ queue = <<>>
    /\ thread = "get"
    /\ item = NoItem
    /\ enqueued = 0
    /\ dropped = 0
    /\ processed = 0
    /\ outcomes = [o \in Outcome |-> 0]
    /\ events = [o \in Outcome |-> 0]
    /\ unlogged = [o \in Outcome |-> 0]
    /\ unfinished = 0

\* A request arrives; its declared fields are found.
Receive ==
    /\ pc = "idle"
    /\ served < MaxRequests
    /\ pc' = "offer"
    /\ offers' = samples
    /\ UNCHANGED <<work, served, queue, thread, item, counts, log>>

\* maybe_sample: the roll of the sample rate says no...
NotSampled ==
    /\ pc = "offer"
    /\ offers # <<>>
    /\ offers' = Tail(offers)
    /\ UNCHANGED <<work, pc, served, queue, thread, item, counts, log>>

\* ... or yes.
Sampled ==
    /\ pc = "offer"
    /\ offers # <<>>
    /\ pc' = "put"
    /\ UNCHANGED <<work, offers, served, queue, thread, item, counts, log>>

\* Faulty variant: a queue without a bound.
OfferUnbounded ==
    /\ pc = "put"
    /\ queue' = Append(queue, Head(offers))
    /\ offers' = Tail(offers)
    /\ pc' = "count"
    /\ UNCHANGED <<work, served, thread, item, counts, log>>

\* put_nowait succeeds; the count comes after it, and the thread may already
\* have taken the sample by then.
Offer ==
    /\ pc = "put"
    /\ Len(queue) < QueueSize
    /\ queue' = Append(queue, Head(offers))
    /\ offers' = Tail(offers)
    /\ pc' = "count"
    /\ UNCHANGED <<work, served, thread, item, counts, log>>

CountOffer ==
    /\ pc = "count"
    /\ enqueued' = enqueued + 1
    /\ pc' = "offer"
    /\ UNCHANGED <<work, offers, served, queue, thread, item, dropped,
                   processed, outcomes, log>>

\* Faulty variant: a put that waits for room.
DropNever == FALSE /\ UNCHANGED vars

\* Faulty variant: a dropped sample counts as one that was put.
DropCountedAsPut ==
    /\ pc = "put"
    /\ Len(queue) = QueueSize
    /\ pc' = "count"
    /\ offers' = Tail(offers)
    /\ UNCHANGED <<work, served, queue, thread, item, counts, log>>

\* put_nowait raises Full: the new sample is dropped.
Drop ==
    /\ pc = "put"
    /\ Len(queue) = QueueSize
    /\ dropped' = dropped + 1
    /\ pc' = "offer"
    /\ offers' = Tail(offers)
    /\ UNCHANGED <<work, served, queue, thread, item, enqueued,
                   processed, outcomes, log>>

\* The rest of detect_all_schema_aware, and the rewriting.
Answer ==
    /\ pc = "offer"
    /\ offers = <<>>
    /\ served' = served + 1
    /\ pc' = "reply"
    /\ UNCHANGED <<work, offers, queue, thread, item, counts, log>>

\* The audit events are built from the kept spans and the reply is sent.
Reply ==
    /\ pc = "reply"
    /\ pc' = "idle"
    /\ UNCHANGED <<work, offers, served, queue, thread, item, counts, log>>

-----------------------------------------------------------------------------
(* The sampler's thread                                                    *)

Get ==
    /\ thread = "get"
    /\ queue # <<>>
    /\ item' = Head(queue)
    /\ queue' = Tail(queue)
    /\ thread' = "check"
    /\ UNCHANGED <<handler, counts, log>>

\* Faulty variant: what is not consistent counts as no signal.
CheckTwoWay ==
    /\ thread = "check"
    /\ processed' = processed + 1
    /\ outcomes' = [outcomes EXCEPT ![IF item.outcome = "consistent" THEN "consistent"
                                      ELSE "no_signal"] = @ + 1]
    /\ thread' = "append"
    /\ UNCHANGED <<handler, queue, item, enqueued, dropped, log>>

\* The outcome is counted before its event is written.
Check ==
    /\ thread = "check"
    /\ processed' = processed + 1
    /\ outcomes' = [outcomes EXCEPT ![item.outcome] = @ + 1]
    /\ thread' = "append"
    /\ UNCHANGED <<handler, queue, item, enqueued, dropped, log>>

AppendEvent ==
    /\ thread = "append"
    /\ events' = [events EXCEPT ![item.outcome] = @ + 1]
    /\ item' = NoItem
    /\ thread' = "get"
    /\ UNCHANGED <<handler, queue, counts, unlogged, unfinished>>

Faults == unfinished + unlogged["consistent"] + unlogged["no_signal"]
          + unlogged["drift_detected"]

\* The next state of the thread when _process_one raised: _run goes on.
\* Faulty variant: it does not.
AfterErrorEnds == "ended"
AfterError == "get"

\* The detection raises, and the sample is not counted...
CheckFails ==
    /\ thread = "check"
    /\ Faults < MaxFaults
    /\ unfinished' = unfinished + 1
    /\ item' = NoItem
    /\ thread' = AfterError
    /\ UNCHANGED <<handler, queue, counts, events, unlogged>>

\* ... or the audit log cannot be appended to, after the count.
AppendFails ==
    /\ thread = "append"
    /\ Faults < MaxFaults
    /\ unlogged' = [unlogged EXCEPT ![item.outcome] = @ + 1]
    /\ item' = NoItem
    /\ thread' = AfterError
    /\ UNCHANGED <<handler, queue, counts, events, unfinished>>

Handle == Receive \/ NotSampled \/ Sampled \/ Offer \/ CountOffer \/ Drop \/ Answer \/ Reply
Sampler == Get \/ Check \/ AppendEvent \/ CheckFails \/ AppendFails
Next == Handle \/ Sampler

\* The handler returns, and the daemon thread runs as long as the process.
Fairness == WF_vars(Handle) /\ WF_vars(Sampler)

Spec == Init /\ [][Next]_vars /\ Fairness

-----------------------------------------------------------------------------
(* Properties                                                              *)

\* Type invariant of the handler and the sampler.
TypeOK ==
    /\ request \in Requests
    /\ pc \in {"idle", "offer", "put", "count", "reply"}
    /\ served \in 0 .. MaxRequests
    /\ Len(queue) <= QueueSize
    /\ thread \in {"get", "check", "append"}
    /\ enqueued \in Nat /\ dropped \in Nat /\ processed \in Nat /\ unfinished \in Nat
    /\ outcomes \in [Outcome -> Nat]
    /\ events \in [Outcome -> Nat]
    /\ unlogged \in [Outcome -> Nat]
    /\ Faults <= MaxFaults

Disjoint(hits) ==
    \A i, j \in DOMAIN hits : i # j => ~Overlaps(hits[i], hits[j])

\* The line with each of some disjoint spans replaced once.
Replaced1(t, hits) ==
    FlattenSeq([i \in DOMAIN t |->
        IF \E h \in ToSet(hits) : h.s = i THEN Placeholder
        ELSE IF \E h \in ToSet(hits) : i \in Cells(h) THEN <<>>
        ELSE <<i>>])

\* When no two kept spans overlap, the answer is the line with each of them
\* replaced once and all the rest in place, and each token or pseudonym is
\* made from the text the span covers, the text the audit event is about
\* (anonymize.py:273-281, service.py:540-552).
RewriteExact ==
    pc = "reply" /\ Disjoint(kept) =>
        /\ answer.out = Replaced1(line, kept)
        /\ ToSet(answer.seen) = {[n \in 1 .. h.e - h.s |-> h.s + n - 1] : h \in ToSet(kept)}

\* Another span starts within a span and ends before it does: it is replaced
\* first, and what it is replaced by moves the end of the longer one.
EndMoved(k) ==
    \E g \in ToSet(kept) : k.s <= g.s /\ g.e < k.e

\* What was found does not come out again: a kept span of its type covers the
\* start of every found span, and nothing that lies under both is left in the
\* answer, unless another type was found within the kept span
\* (service.py:532-538, anonymize.py:256-281).
FoundIsGone ==
    pc = "reply" =>
        \A h \in ToSet(found) :
            \E k \in ToSet(kept) :
                /\ k.type = h.type
                /\ h.s \in Cells(k)
                /\ EndMoved(k) \/ Cells(h) \cap Cells(k) \cap ToSet(answer.out) = {}

\* A declared field whose value occurs once in the line is covered by a span
\* of its declared type, whatever the other fields are (detect.py:866-896).
DeclaredCovered ==
    pc = "reply" =>
        \A f \in ToSet(ExtractFields(request.logType, line)) :
            LET at == {i \in DOMAIN line : FindFrom(line, f.value, i) = i}
            IN f.name \in DOMAIN trust /\ f.value # <<>> /\ Cardinality(at) = 1
               => \E h \in ToSet(found) :
                    /\ h.type = trust[f.name]
                    /\ at = {h.s}
                    /\ h.e - h.s = Len(f.value)

\* The values of the line's fields that have a regex hit in them, and the
\* others.
Values(covered) ==
    {v \in FieldValues(line, request.logType) :
        (\E h \in ToSet(ScanRegex(line)) : Overlaps(h, v)) = covered}

\* What the gate cuts out if it lets the model see the line, and whether there
\* is nothing but blanks between it and a span.
CutOut == UNION {WithKey(line, v) : v \in Values(TRUE)}
TouchesCut(h) ==
    \E c \in CutOut : \A i \in (h.e .. c - 1) \cup (c + 1 .. h.s - 1) : line[i] = "sp"

\* The field gate hides from the NER model only what it cuts out: a person, or
\* the full length of an e-mail address, that the model would have found is
\* lost only if it touches what is cut out, or stands outside the fields of a
\* line whose values with letters all have regex hits.  A field name taken for
\* a person is no loss (detect.py:606-698, :731-767).
GateLosesOnly ==
    pc = "reply" =>
        \A h \in ToSet(DetectAll(line)) \ ToSet(DetectGated(line, request.logType)) :
            \/ h \in Dangling(line)
            \/ h \in Names(line) \cup LongEmails(line) /\ TouchesCut(h)
            \/ /\ h \in Names(line) \cup LongEmails(line)
               /\ Values(TRUE) # {}
               /\ \A v \in Values(FALSE) :
                     ~Overlaps(h, v) /\ \A i \in Cells(v) : line[i] \notin Alphabetic

\* The gate makes up no finding: one that the whole line does not give runs
\* across what was cut out, or up to it, and is never the name of a field whose
\* value was cut out (detect.py:635-662).
GateAddsNothing ==
    pc = "reply" =>
        \A h \in ToSet(DetectGated(line, request.logType)) \ ToSet(DetectAll(line)) :
            /\ TouchesCut(h)
            /\ \A v \in Values(TRUE) :
                  ~ (line[h.s] \in Word /\ IsCell(line, h.s + 1, "eq") /\ v.s = h.s + 2)

\* The handler never waits for the sampler (schema_trust_sampler.py:85-105).
NeverWaits == pc # "idle" => ENABLED Handle

\* Every sample that was put is in the queue, at work, counted as processed
\* or was given up by an exception (schema_trust_sampler.py:96-152).
SamplesConserved ==
    enqueued + (IF pc = "count" THEN 1 ELSE 0)
        = processed + unfinished + Len(queue) + (IF thread = "check" THEN 1 ELSE 0)

\* A drift that was counted is in the audit log, is being written, or could
\* not be (schema_trust_sampler.py:149-160).
DriftReported ==
    outcomes["drift_detected"] =
        events["drift_detected"] + unlogged["drift_detected"]
        + (IF thread = "append" /\ item.outcome = "drift_detected" THEN 1 ELSE 0)

\* An exception does not end the sampling: every sample is worked off
\* (schema_trust_sampler.py:107-124).
SamplesDrain == queue # <<>> ~> queue = <<>> /\ thread = "get"

=============================================================================
