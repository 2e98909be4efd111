----------------------------- MODULE PolicyReload -----------------------------
(***************************************************************************)
(* The hot reload of the anonymization policy: load_policy() and           *)
(* anonymize_by_policy() (src/src/anonymize.py), PolicyWatcher.check_now() *)
(* (policy_watcher.py), the log of policy changes (policy_audit.py) and    *)
(* the /anonymize handler that uses the policy (service.py).  Each worker  *)
(* process has a request thread and a poller thread; the workers share     *)
(* nothing but the policy file an operator edits and the log.              *)
(*                                                                         *)
(* Simplifications:                                                        *)
(*  - the hash of a file is its content;                                   *)
(*  - load_policy() replaces the three sets in one step, and a span is     *)
(*    matched against the three in one step: the interpreter of the        *)
(*    image (CPython 3.12) switches threads at calls and at the back edge  *)
(*    of a loop, and neither sequence holds one;                           *)
(*  - a request holds at most one span of a type;                          *)
(*  - check_now() runs under the watcher's lock, so a worker has one check *)
(*    at a time, whether its poller or its admin endpoint makes it.        *)
(***************************************************************************)
EXTENDS Naturals, FiniteSets, Functions

CONSTANTS
    Workers,        \* worker processes
    CanonicalTypes, \* CANONICAL_TYPES, the types a span can have
    FileStates,     \* what the operator leaves at the policy path
    Builtin,        \* the policy in the source, used without a file
    Missing,        \* no file at the policy path
    Malformed,      \* a file that is not text or not a JSON object of lists of strings
    MaxEdits,       \* bound: edits of the policy file
    MaxFaults       \* bound: worker deaths, and failed reads of the file and appends

Policy == [redact : SUBSET CanonicalTypes, pseudonymize : SUBSET CanonicalTypes,
           tokenize : SUBSET CanonicalTypes]

\* Faulty variant: a type left out of the three sets is let through.
DisjointOnly(c) ==
    /\ c \in Policy
    /\ c.redact \cap c.pseudonymize = {}
    /\ c.redact \cap c.tokenize = {}
    /\ c.pseudonymize \cap c.tokenize = {}

\* load_policy() accepts a content whose three sets do not overlap and
\* leave no canonical type out.
Accepted(c) ==
    /\ c \in Policy
    /\ c.redact \cap c.pseudonymize = {}
    /\ c.redact \cap c.tokenize = {}
    /\ c.pseudonymize \cap c.tokenize = {}
    /\ c.redact \cup c.pseudonymize \cup c.tokenize = CanonicalTypes

ASSUME FileStatesAssumption == FileStates \subseteq Policy \cup {Missing, Malformed}
ASSUME NoPolicyAssumption == Missing \notin Policy /\ Malformed \notin Policy
ASSUME BuiltinAssumption == Accepted(Builtin)
ASSUME BoundAssumption == MaxEdits \in Nat /\ MaxFaults \in Nat

VARIABLES
    file,       \* the content at the policy path
    stage,      \* of each worker: "down", "imported" or "up"
    active,     \* PSEUDONYMIZE_TYPES, TOKENIZE_TYPES and REDACT_TYPES
    known,      \* the watcher's _last_known_hash
    check,      \* where the worker is in check_now()
    hashed,     \* the hash this check read
    spans,      \* types of the spans in the request being served
    applied,    \* what was done so far with each of them
    audited,    \* the method its audit event names
    trail,      \* the log of policy changes, repetitions ignored
    \* history
    imported,   \* the content the worker found when it started
    raced,      \* the content it loaded last is not the one it hashed
    unlogged,   \* an append to the log failed
    edits, faults

policyVars == <<active, known, check, hashed>>
requestVars == <<spans, applied, audited>>
history == <<imported, raced, unlogged>>
vars == <<file, stage, policyVars, requestVars, trail, history, edits, faults>>

NoSpans == [ty \in {} |-> ty]

Init ==
    /\ file \in FileStates
    /\ stage = [w \in Workers |-> "down"]
    /\ active = [w \in Workers |-> Builtin]
    /\ known = [w \in Workers |-> Missing]
    /\ check = [w \in Workers |-> "idle"]
    /\ hashed = [w \in Workers |-> Missing]
    /\ spans = [w \in Workers |-> {}]
    /\ applied = [w \in Workers |-> NoSpans]
    /\ audited = [w \in Workers |-> NoSpans]
    /\ trail = {}
    /\ imported = [w \in Workers |-> Missing]
    /\ raced = [w \in Workers |-> FALSE]
    /\ unlogged = [w \in Workers |-> FALSE]
    /\ edits = 0
    /\ faults = 0

-----------------------------------------------------------------------------
(* The operator and the start of a worker.                                 *)

Edit(c) ==
    /\ edits < MaxEdits
    /\ c # file
    /\ file' = c
    /\ edits' = edits + 1
    /\ UNCHANGED <<stage, policyVars, requestVars, trail, history, faults>>

\* The policy of a worker that starts on a content.
InForce(c) == IF c = Missing THEN Builtin ELSE c

\* service.py at import: load_policy(), which raises on an invalid file and
\* so keeps the worker from starting.
Import(w) ==
    /\ stage[w] = "down"
    /\ file = Missing \/ Accepted(file)
    /\ stage' = [stage EXCEPT ![w] = "imported"]
    /\ active' = [active EXCEPT ![w] = InForce(file)]
    /\ imported' = [imported EXCEPT ![w] = file]
    /\ UNCHANGED <<file, known, check, hashed, requestVars, trail, raced, unlogged,
                   edits, faults>>

\* Further down in service.py: PolicyWatcher() reads the hash, then starts.
StartWatcher(w) ==
    /\ stage[w] = "imported"
    /\ stage' = [stage EXCEPT ![w] = "up"]
    /\ known' = [known EXCEPT ![w] = file]
    /\ raced' = [raced EXCEPT ![w] = file # imported[w]]
    /\ UNCHANGED <<file, active, check, hashed, requestVars, trail, imported, unlogged,
                   edits, faults>>

Die(w) ==
    /\ stage[w] # "down"
    /\ faults < MaxFaults
    /\ faults' = faults + 1
    /\ stage' = [stage EXCEPT ![w] = "down"]
    /\ active' = [active EXCEPT ![w] = Builtin]
    /\ known' = [known EXCEPT ![w] = Missing]
    /\ check' = [check EXCEPT ![w] = "idle"]
    /\ hashed' = [hashed EXCEPT ![w] = Missing]
    /\ spans' = [spans EXCEPT ![w] = {}]
    /\ applied' = [applied EXCEPT ![w] = NoSpans]
    /\ audited' = [audited EXCEPT ![w] = NoSpans]
    /\ imported' = [imported EXCEPT ![w] = Missing]
    /\ raced' = [raced EXCEPT ![w] = FALSE]
    /\ unlogged' = [unlogged EXCEPT ![w] = FALSE]
    /\ UNCHANGED <<file, trail, edits>>

-----------------------------------------------------------------------------
(* check_now(), by the poller or by POST /admin/policy/reload.             *)

\* An unchanged hash ends the check.
HashFile(w) ==
    /\ stage[w] = "up"
    /\ check[w] = "idle"
    /\ file # known[w]
    /\ check' = [check EXCEPT ![w] = "loading"]
    /\ hashed' = [hashed EXCEPT ![w] = file]
    /\ UNCHANGED <<file, stage, active, known, requestVars, trail, history, edits, faults>>

\* load_policy() finds the path empty: it keeps the sets it has, and
\* check_now() counts that as a reload.
ReloadMissing(w) ==
    /\ check[w] = "loading"
    /\ file = Missing
    /\ known' = [known EXCEPT ![w] = hashed[w]]
    /\ check' = [check EXCEPT ![w] = "reloaded"]
    /\ raced' = [raced EXCEPT ![w] = @ \/ hashed[w] # Missing]
    /\ UNCHANGED <<file, stage, active, hashed, requestVars, trail, imported, unlogged,
                   edits, faults>>

ReloadAccepted(w) ==
    /\ check[w] = "loading"
    /\ Accepted(file)
    /\ active' = [active EXCEPT ![w] = file]
    /\ known' = [known EXCEPT ![w] = hashed[w]]
    /\ check' = [check EXCEPT ![w] = "reloaded"]
    /\ raced' = [raced EXCEPT ![w] = file # hashed[w]]
    /\ UNCHANGED <<file, stage, hashed, requestVars, trail, imported, unlogged,
                   edits, faults>>

\* PolicyConfigError: neither the policy nor the known hash changes.
ReloadRejected(w) ==
    /\ check[w] = "loading"
    /\ file # Missing
    /\ ~Accepted(file)
    /\ check' = [check EXCEPT ![w] = "rejected"]
    /\ UNCHANGED <<file, stage, active, known, hashed, requestVars, trail, history,
                   edits, faults>>

\* Faulty variant: the exception ends the poller thread.
PollerDies(w) ==
    /\ check[w] = "loading"
    /\ file = Missing
    /\ check' = [check EXCEPT ![w] = "dead"]
    /\ UNCHANGED <<file, stage, active, known, hashed, requestVars, trail, history,
                   edits, faults>>

\* Another exception leaves check_now(), and the poll loop carries on: the file
\* goes away between exists() and open(), does not decode, or cannot be read.
ReloadFails(w) ==
    /\ check[w] = "loading"
    /\ \/ file \in {Missing, Malformed} /\ UNCHANGED faults
       \/ faults < MaxFaults /\ faults' = faults + 1
    /\ check' = [check EXCEPT ![w] = "idle"]
    /\ UNCHANGED <<file, stage, active, known, hashed, requestVars, trail, history, edits>>

\* Faulty variant: the file is hashed again for the event.
EventRehashed(w) == [worker |-> w, outcome |-> check[w], new |-> file]

\* The event a check writes; its new_policy_hash is the hash that was read.
PolicyEvent(w) == [worker |-> w, outcome |-> check[w], new |-> hashed[w]]

AppendEvent(w) ==
    /\ check[w] \in {"reloaded", "rejected"}
    /\ trail' = trail \cup {PolicyEvent(w)}
    /\ check' = [check EXCEPT ![w] = "idle"]
    /\ UNCHANGED <<file, stage, active, known, hashed, requestVars, history, edits, faults>>

\* OSError from the append: the reload stands, its event is never written.
AppendFails(w) ==
    /\ check[w] \in {"reloaded", "rejected"}
    /\ faults < MaxFaults
    /\ faults' = faults + 1
    /\ unlogged' = [unlogged EXCEPT ![w] = TRUE]
    /\ check' = [check EXCEPT ![w] = "idle"]
    /\ UNCHANGED <<file, stage, active, known, hashed, requestVars, trail, imported,
                   raced, edits>>

-----------------------------------------------------------------------------
(* The request thread: anonymize_by_policy(), then one audit event a span. *)

ActionFor(p, ty) ==
    IF ty \in p.redact THEN "redact"
    ELSE IF ty \in p.pseudonymize THEN "pseudonymize"
    ELSE IF ty \in p.tokenize THEN "tokenize"
    ELSE "untouched"

MethodFor(p, ty) ==
    IF ty \in p.pseudonymize THEN "pseudonymize"
    ELSE IF ty \in p.tokenize THEN "tokenize"
    ELSE "redact"

BeginRequest(w, S) ==
    /\ stage[w] = "up"
    /\ spans[w] = {}
    /\ spans' = [spans EXCEPT ![w] = S]
    /\ UNCHANGED <<file, stage, policyVars, applied, audited, trail, history, edits, faults>>

TransformSpan(w, ty) ==
    /\ ty \in spans[w] \ DOMAIN applied[w]
    /\ applied' = [applied EXCEPT ![w] =
                     [x \in DOMAIN @ \cup {ty} |->
                        IF x = ty THEN ActionFor(active[w], ty) ELSE @[x]]]
    /\ UNCHANGED <<file, stage, policyVars, spans, audited, trail, history, edits, faults>>

AuditSpan(w, ty) ==
    /\ DOMAIN applied[w] = spans[w]
    /\ ty \in spans[w] \ DOMAIN audited[w]
    /\ audited' = [audited EXCEPT ![w] =
                     [x \in DOMAIN @ \cup {ty} |->
                        IF x = ty THEN MethodFor(active[w], ty) ELSE @[x]]]
    /\ UNCHANGED <<file, stage, policyVars, spans, applied, trail, history, edits, faults>>

Respond(w) ==
    /\ spans[w] # {}
    /\ DOMAIN audited[w] = spans[w]
    /\ spans' = [spans EXCEPT ![w] = {}]
    /\ applied' = [applied EXCEPT ![w] = NoSpans]
    /\ audited' = [audited EXCEPT ![w] = NoSpans]
    /\ UNCHANGED <<file, stage, policyVars, trail, history, edits, faults>>

-----------------------------------------------------------------------------
Start(w) == Import(w) \/ StartWatcher(w)

Check(w) ==
    \/ HashFile(w) \/ ReloadMissing(w) \/ ReloadAccepted(w) \/ ReloadRejected(w)
    \/ ReloadFails(w) \/ AppendEvent(w) \/ AppendFails(w)

Request(w) ==
    \/ \E S \in SUBSET CanonicalTypes \ {{}} : BeginRequest(w, S)
    \/ \E ty \in CanonicalTypes : TransformSpan(w, ty) \/ AuditSpan(w, ty)
    \/ Respond(w)

Next ==
    \/ \E c \in FileStates : Edit(c)
    \/ \E w \in Workers : Start(w) \/ Die(w) \/ Check(w) \/ Request(w)

Spec == Init /\ [][Next]_vars

\* gunicorn starts every worker, and its poller thread keeps polling.
FairSpec == Spec /\ \A w \in Workers : WF_vars(Start(w)) /\ WF_vars(Check(w))

-----------------------------------------------------------------------------
Actions == {"redact", "pseudonymize", "tokenize", "untouched"}
Applications == UNION {[S -> Actions] : S \in SUBSET CanonicalTypes}
Hashes == Policy \cup {Missing, Malformed}
PolicyEvents == [worker : Workers, outcome : {"reloaded", "rejected"}, new : Hashes]

\* Every variable has its type.
TypeOK ==
    /\ file \in Hashes
    /\ stage \in [Workers -> {"down", "imported", "up"}]
    /\ active \in [Workers -> Policy]
    /\ known \in [Workers -> Hashes]
    /\ check \in [Workers -> {"idle", "loading", "reloaded", "rejected"}]
    /\ hashed \in [Workers -> Hashes]
    /\ spans \in [Workers -> SUBSET CanonicalTypes]
    /\ applied \in [Workers -> Applications]
    /\ audited \in [Workers -> Applications]
    /\ trail \in SUBSET PolicyEvents
    /\ imported \in [Workers -> Hashes]
    /\ raced \in [Workers -> BOOLEAN]
    /\ unlogged \in [Workers -> BOOLEAN]
    /\ edits \in Nat
    /\ faults \in Nat

\* Whatever the operator writes and whenever it is loaded, no request leaves
\* a span of a canonical type in the text.
EverySpanHandled ==
    \A w \in Workers : \A ty \in DOMAIN applied[w] : applied[w][ty] # "untouched"

\* Between two checks the log names the policy a worker runs on: the one it
\* started with or one it logged as reloaded, unless the file changed while
\* the worker was loading it or an append failed.
LogNamesPolicy ==
    \A w \in Workers :
        stage[w] = "up" /\ check[w] = "idle" /\ ~raced[w] /\ ~unlogged[w]
            /\ active[w] # InForce(imported[w])
        => [worker |-> w, outcome |-> "reloaded", new |-> active[w]] \in trail

\* Once the operator stops editing, every worker runs on the policy in the
\* file, unless the last change fell between its two reads of the file.
UnracedConverge ==
    \A w \in Workers :
        <>[](stage[w] = "up" /\ Accepted(file) /\ ~raced[w] => active[w] = file)

\* The same without the exception: each poller makes its worker converge to
\* the policy on disk (policy_watcher.py's docstring).
Converge ==
    \A w \in Workers : <>[](stage[w] = "up" /\ Accepted(file) => active[w] = file)

\* An audit event names what was done with the value (audit.py's docstring).
AuditTellsAction ==
    \A w \in Workers : \A ty \in DOMAIN audited[w] : audited[w][ty] = applied[w][ty]

=============================================================================
