-------------------------- MODULE PolicyReloadProofs --------------------------
(***************************************************************************)
(* Proofs about PolicyReload, for every set of workers and types, every    *)
(* collection of contents an operator may write, and any number of edits,  *)
(* deaths and failed appends.                                              *)
(***************************************************************************)
EXTENDS PolicyReload, TLAPS

\* A check and a request need a worker that has its watcher.
ChecksAreUp ==
    \A w \in Workers : check[w] # "idle" => stage[w] = "up"

\* Every worker runs on a policy that load_policy() accepts.
PoliciesAccepted == \A w \in Workers : Accepted(active[w])

\* A worker without its watcher runs on what it found at the policy path, and
\* has not yet failed to log anything.
ImportInForce ==
    \A w \in Workers :
        /\ stage[w] # "up" => ~unlogged[w]
        /\ stage[w] = "imported" => active[w] = InForce(imported[w])

\* A policy in force is the one of the start, a logged one, or the one whose
\* event the check under way is about to append.
LogFollowsPolicy ==
    \A w \in Workers : stage[w] = "up" /\ ~raced[w] /\ ~unlogged[w] =>
        \/ active[w] = InForce(imported[w])
        \/ [worker |-> w, outcome |-> "reloaded", new |-> active[w]] \in trail
        \/ check[w] = "reloaded" /\ active[w] = hashed[w]

ReloadInv ==
    /\ TypeOK
    /\ ChecksAreUp
    /\ PoliciesAccepted
    /\ EverySpanHandled
    /\ ImportInForce
    /\ LogFollowsPolicy

-----------------------------------------------------------------------------
\* A policy that is accepted is a policy, and no file is none.
LEMMA AcceptedIsPolicy ==
    ASSUME NEW c, Accepted(c)
    PROVE  c \in Policy /\ c # Missing
  BY NoPolicyAssumption DEF Accepted

\* A worker starts on a policy that is accepted.
LEMMA InForceAccepted ==
    ASSUME NEW c, c = Missing \/ Accepted(c)
    PROVE  Accepted(InForce(c))
  BY BuiltinAssumption DEF InForce

\* What is in the file has the type of a hash.
LEMMA FileStatesType == FileStates \subseteq Hashes
  BY FileStatesAssumption DEF Hashes

\* What is done with one more span of a request joins what was done so far.
LEMMA ApplicationsExtend ==
    ASSUME NEW a \in Applications, NEW ty \in CanonicalTypes, NEW act \in Actions
    PROVE  [x \in DOMAIN a \cup {ty} |-> IF x = ty THEN act ELSE a[x]] \in Applications
<1>1. PICK S \in SUBSET CanonicalTypes : a \in [S -> Actions]
  BY DEF Applications
<1>2. [x \in DOMAIN a \cup {ty} |-> IF x = ty THEN act ELSE a[x]] \in [S \cup {ty} -> Actions]
  BY <1>1
<1> QED
  BY <1>2, S \cup {ty} \in SUBSET CanonicalTypes DEF Applications

LEMMA NoSpansType == NoSpans \in Applications /\ DOMAIN NoSpans = {}
<1>1. NoSpans \in [{} -> Actions]
  BY DEF NoSpans
<1> QED
  BY <1>1 DEF Applications

\* An accepted policy leaves no canonical type untouched.
LEMMA ActionForAccepted ==
    ASSUME NEW p, Accepted(p), NEW ty \in CanonicalTypes
    PROVE  ActionFor(p, ty) \in Actions \ {"untouched"}
<1>1. ty \in p.redact \cup p.pseudonymize \cup p.tokenize
  BY DEF Accepted
<1> QED
  BY <1>1 DEF ActionFor, Actions

LEMMA MethodForType ==
    ASSUME NEW p, NEW ty
    PROVE  MethodFor(p, ty) \in Actions
  BY DEF MethodFor, Actions

-----------------------------------------------------------------------------
LEMMA InitReloadInv == Init => ReloadInv
<1> SUFFICES ASSUME Init
             PROVE  ReloadInv
  OBVIOUS
<1> USE DEF Init
<1>1. TypeOK
  <2>1. Builtin \in Policy
    BY BuiltinAssumption, AcceptedIsPolicy
  <2> QED BY <2>1, FileStatesType, NoSpansType DEF TypeOK, Hashes
<1>2. PoliciesAccepted
  BY BuiltinAssumption DEF PoliciesAccepted
<1>3. EverySpanHandled
  BY NoSpansType DEF EverySpanHandled
<1> QED
  BY <1>1, <1>2, <1>3 DEF ReloadInv, ChecksAreUp, ImportInForce, LogFollowsPolicy

\* Every step keeps the types.
LEMMA NextReloadType == TypeOK /\ PoliciesAccepted /\ [Next]_vars => TypeOK'
<1> SUFFICES ASSUME TypeOK, PoliciesAccepted, [Next]_vars
             PROVE  TypeOK'
  OBVIOUS
<1> USE DEF policyVars, requestVars, history
<1>1. ASSUME NEW c \in FileStates, Edit(c)
      PROVE  TypeOK'
  BY <1>1, FileStatesType DEF Edit, TypeOK
<1>2. ASSUME NEW w \in Workers, Import(w)
      PROVE  TypeOK'
  <2>1. InForce(file) \in Policy
    BY <1>2, InForceAccepted, AcceptedIsPolicy DEF Import
  <2> QED BY <1>2, <2>1 DEF Import, TypeOK
<1>3. ASSUME NEW w \in Workers, StartWatcher(w)
      PROVE  TypeOK'
  BY <1>3 DEF StartWatcher, TypeOK
<1>4. ASSUME NEW w \in Workers, Die(w)
      PROVE  TypeOK'
  BY <1>4, BuiltinAssumption, AcceptedIsPolicy, NoSpansType DEF Die, TypeOK, Hashes
<1>5. ASSUME NEW w \in Workers, HashFile(w)
      PROVE  TypeOK'
  BY <1>5 DEF HashFile, TypeOK
<1>6. ASSUME NEW w \in Workers, ReloadMissing(w)
      PROVE  TypeOK'
  BY <1>6 DEF ReloadMissing, TypeOK
<1>7. ASSUME NEW w \in Workers, ReloadAccepted(w)
      PROVE  TypeOK'
  BY <1>7, AcceptedIsPolicy DEF ReloadAccepted, TypeOK
<1>8. ASSUME NEW w \in Workers, ReloadRejected(w)
      PROVE  TypeOK'
  BY <1>8 DEF ReloadRejected, TypeOK
<1>9. ASSUME NEW w \in Workers, ReloadFails(w)
      PROVE  TypeOK'
  BY <1>9 DEF ReloadFails, TypeOK
<1>10. ASSUME NEW w \in Workers, AppendEvent(w)
       PROVE  TypeOK'
  <2>1. PolicyEvent(w) \in PolicyEvents
    BY <1>10 DEF AppendEvent, PolicyEvent, PolicyEvents, TypeOK
  <2> QED BY <1>10, <2>1 DEF AppendEvent, TypeOK
<1>11. ASSUME NEW w \in Workers, AppendFails(w)
       PROVE  TypeOK'
  BY <1>11 DEF AppendFails, TypeOK
<1>12. ASSUME NEW w \in Workers, NEW S \in SUBSET CanonicalTypes, BeginRequest(w, S)
       PROVE  TypeOK'
  BY <1>12 DEF BeginRequest, TypeOK
<1>13. ASSUME NEW w \in Workers, NEW ty \in CanonicalTypes, TransformSpan(w, ty)
       PROVE  TypeOK'
  <2>1. ActionFor(active[w], ty) \in Actions
    BY ActionForAccepted DEF PoliciesAccepted
  <2> DEFINE a == [x \in DOMAIN applied[w] \cup {ty} |->
                     IF x = ty THEN ActionFor(active[w], ty) ELSE applied[w][x]]
  <2>2. a \in Applications
    <3>1. applied[w] \in Applications
      BY DEF TypeOK
    <3> QED BY <2>1, <3>1, ApplicationsExtend
  <2>3. applied' = [applied EXCEPT ![w] = a]
    BY <1>13 DEF TransformSpan
  <2> HIDE DEF a
  <2>4. applied' \in [Workers -> Applications]
    BY <2>2, <2>3 DEF TypeOK
  <2> QED BY <1>13, <2>4 DEF TransformSpan, TypeOK
<1>14. ASSUME NEW w \in Workers, NEW ty \in CanonicalTypes, AuditSpan(w, ty)
       PROVE  TypeOK'
  <2> DEFINE a == [x \in DOMAIN audited[w] \cup {ty} |->
                     IF x = ty THEN MethodFor(active[w], ty) ELSE audited[w][x]]
  <2>1. a \in Applications
    <3>1. audited[w] \in Applications
      BY DEF TypeOK
    <3>2. MethodFor(active[w], ty) \in Actions
      BY MethodForType
    <3> QED BY <3>1, <3>2, ApplicationsExtend
  <2>2. audited' = [audited EXCEPT ![w] = a]
    BY <1>14 DEF AuditSpan
  <2> HIDE DEF a
  <2>3. audited' \in [Workers -> Applications]
    BY <2>1, <2>2 DEF TypeOK
  <2> QED BY <1>14, <2>3 DEF AuditSpan, TypeOK
<1>15. ASSUME NEW w \in Workers, Respond(w)
       PROVE  TypeOK'
  BY <1>15, NoSpansType DEF Respond, TypeOK
<1>16. CASE UNCHANGED vars
  BY <1>16 DEF vars, TypeOK
<1> QED
  BY <1>1, <1>2, <1>3, <1>4, <1>5, <1>6, <1>7, <1>8, <1>9, <1>10, <1>11, <1>12,
     <1>13, <1>14, <1>15, <1>16 DEF Next, Start, Check, Request

\* Checks belong to workers that are up, and every policy that comes into
\* force was accepted.
LEMMA NextAccepted ==
    TypeOK /\ ChecksAreUp /\ PoliciesAccepted /\ [Next]_vars
        => ChecksAreUp' /\ PoliciesAccepted'
<1> SUFFICES ASSUME TypeOK, ChecksAreUp, PoliciesAccepted, [Next]_vars
             PROVE  ChecksAreUp' /\ PoliciesAccepted'
  OBVIOUS
<1> USE DEF TypeOK, ChecksAreUp, PoliciesAccepted, policyVars, requestVars, history
<1>1. ASSUME NEW w \in Workers, Import(w)
      PROVE  ChecksAreUp' /\ PoliciesAccepted'
  <2>1. Accepted(InForce(file))
    BY <1>1, InForceAccepted DEF Import
  <2> QED BY <1>1, <2>1 DEF Import
<1>2. ASSUME NEW w \in Workers, StartWatcher(w) \/ HashFile(w)
      PROVE  ChecksAreUp' /\ PoliciesAccepted'
  BY <1>2 DEF StartWatcher, HashFile
<1>3. ASSUME NEW w \in Workers, Die(w)
      PROVE  ChecksAreUp' /\ PoliciesAccepted'
  BY <1>3, BuiltinAssumption DEF Die
<1>4. ASSUME NEW w \in Workers, ReloadMissing(w) \/ ReloadRejected(w) \/ ReloadFails(w)
      PROVE  ChecksAreUp' /\ PoliciesAccepted'
  BY <1>4 DEF ReloadMissing, ReloadRejected, ReloadFails
<1>5. ASSUME NEW w \in Workers, ReloadAccepted(w)
      PROVE  ChecksAreUp' /\ PoliciesAccepted'
  BY <1>5 DEF ReloadAccepted
<1>6. ASSUME NEW w \in Workers, AppendEvent(w) \/ AppendFails(w)
      PROVE  ChecksAreUp' /\ PoliciesAccepted'
  BY <1>6 DEF AppendEvent, AppendFails
<1>7. CASE UNCHANGED <<stage, active, check>>
  BY <1>7
<1> QED
  BY <1>1, <1>2, <1>3, <1>4, <1>5, <1>6, <1>7
  DEF Next, Start, Check, Request, Edit, BeginRequest, TransformSpan, AuditSpan, Respond, vars

\* No step of a request leaves its span untouched.
LEMMA NextHandled ==
    TypeOK /\ PoliciesAccepted /\ EverySpanHandled /\ [Next]_vars => EverySpanHandled'
<1> SUFFICES ASSUME TypeOK, PoliciesAccepted, EverySpanHandled, [Next]_vars
             PROVE  EverySpanHandled'
  OBVIOUS
<1> USE DEF TypeOK, EverySpanHandled, policyVars, requestVars, history
<1>1. ASSUME NEW w \in Workers, NEW ty \in CanonicalTypes, TransformSpan(w, ty)
      PROVE  EverySpanHandled'
  <2>1. ActionFor(active[w], ty) # "untouched"
    BY ActionForAccepted DEF PoliciesAccepted
  <2>2. ASSUME NEW u \in Workers, NEW x \in DOMAIN applied'[u]
        PROVE  applied'[u][x] # "untouched"
    <3>1. CASE u = w
      <4>1. applied'[w] = [y \in DOMAIN applied[w] \cup {ty} |->
                             IF y = ty THEN ActionFor(active[w], ty) ELSE applied[w][y]]
        BY <1>1 DEF TransformSpan
      <4> QED BY <2>1, <2>2, <3>1, <4>1
    <3>2. CASE u # w
      BY <1>1, <2>2, <3>2 DEF TransformSpan
    <3> QED BY <3>1, <3>2
  <2> QED BY <2>2
<1>2. ASSUME NEW w \in Workers, Die(w) \/ Respond(w)
      PROVE  EverySpanHandled'
  <2>1. applied' = [applied EXCEPT ![w] = NoSpans]
    BY <1>2 DEF Die, Respond
  <2>2. ASSUME NEW u \in Workers
        PROVE  applied'[u] = NoSpans \/ applied'[u] = applied[u]
    BY <2>1
  <2> QED BY <2>2, NoSpansType
<1>3. CASE UNCHANGED applied
  BY <1>3
<1> QED
  BY <1>1, <1>2, <1>3
  DEF Next, Start, Check, Request, Edit, Import, StartWatcher, HashFile, ReloadMissing,
      ReloadAccepted, ReloadRejected, ReloadFails, AppendEvent, AppendFails, BeginRequest,
      AuditSpan, vars

\* The policy in force is explained by the start, the log or the check under
\* way; one step for each action that changes a term of the explanation.
LEMMA NextLogFollows ==
    ReloadInv /\ [Next]_vars => ImportInForce' /\ LogFollowsPolicy'
<1> SUFFICES ASSUME ReloadInv, [Next]_vars
             PROVE  ImportInForce' /\ LogFollowsPolicy'
  OBVIOUS
<1> USE DEF ReloadInv, TypeOK, ImportInForce, LogFollowsPolicy, policyVars, requestVars, history
<1>1. ASSUME NEW w \in Workers, Import(w)
      PROVE  ImportInForce' /\ LogFollowsPolicy'
  BY <1>1 DEF Import
<1>2. ASSUME NEW w \in Workers, StartWatcher(w)
      PROVE  ImportInForce' /\ LogFollowsPolicy'
  BY <1>2 DEF StartWatcher
<1>3. ASSUME NEW w \in Workers, Die(w)
      PROVE  ImportInForce' /\ LogFollowsPolicy'
  BY <1>3 DEF Die
<1>4. ASSUME NEW w \in Workers, HashFile(w)
      PROVE  ImportInForce' /\ LogFollowsPolicy'
  BY <1>4 DEF HashFile
<1>5. ASSUME NEW w \in Workers, ReloadMissing(w)
      PROVE  ImportInForce' /\ LogFollowsPolicy'
  BY <1>5 DEF ReloadMissing, ChecksAreUp
<1>6. ASSUME NEW w \in Workers, ReloadAccepted(w)
      PROVE  ImportInForce' /\ LogFollowsPolicy'
  BY <1>6 DEF ReloadAccepted, ChecksAreUp
<1>7. ASSUME NEW w \in Workers, ReloadRejected(w) \/ ReloadFails(w)
      PROVE  ImportInForce' /\ LogFollowsPolicy'
  BY <1>7 DEF ReloadRejected, ReloadFails
<1>8. ASSUME NEW w \in Workers, AppendEvent(w)
      PROVE  ImportInForce' /\ LogFollowsPolicy'
  BY <1>8 DEF AppendEvent, PolicyEvent
<1>9. ASSUME NEW w \in Workers, AppendFails(w)
      PROVE  ImportInForce' /\ LogFollowsPolicy'
  BY <1>9 DEF AppendFails, ChecksAreUp
<1>10. CASE UNCHANGED <<stage, active, check, hashed, trail, imported, raced, unlogged>>
  BY <1>10
<1> QED
  BY <1>1, <1>2, <1>3, <1>4, <1>5, <1>6, <1>7, <1>8, <1>9, <1>10
  DEF Next, Start, Check, Request, Edit, BeginRequest, TransformSpan, AuditSpan, Respond, vars

-----------------------------------------------------------------------------
(* The convergence of a worker to the file, less the fairness it needs.    *)

\* What a worker without a race runs on is what its watcher last hashed.
KnownInForce ==
    \A w \in Workers :
        stage[w] = "up" /\ ~raced[w] /\ Accepted(known[w]) => active[w] = known[w]

\* Steps that checks of a worker take until they have loaded the file, if it
\* is left alone; the check under way may have hashed an earlier content.
StepsLeft(w) ==
    CASE check[w] = "idle"    -> IF known[w] = file THEN 0 ELSE 3
      [] check[w] = "loading" -> IF hashed[w] = file THEN 2 ELSE 5
      [] OTHER                -> IF known[w] = file THEN 1 ELSE 4

\* No step but an edit, a death, a start or a load that fails takes a worker
\* further from the file, and a step of its own check takes it nearer.
ChecksApproach ==
    Accepted(file) /\ file' = file =>
        \A w \in Workers :
            /\ Check(w) /\ ~ReloadFails(w) => StepsLeft(w)' < StepsLeft(w)
            /\ stage'[w] = stage[w] /\ ~ReloadFails(w) => StepsLeft(w)' <= StepsLeft(w)

\* A step of the next check can be taken: the guards of HashFile, of
\* ReloadAccepted on a file that is accepted, and of AppendEvent.
CheckGoesOn(w) ==
    \/ check[w] = "idle" /\ file # known[w]
    \/ check[w] = "loading" /\ Accepted(file)
    \/ check[w] \in {"reloaded", "rejected"}

\* A worker whose checks have nothing left to do runs on the file.
ChecksSettle ==
    \A w \in Workers :
        stage[w] = "up" /\ Accepted(file) /\ ~raced[w] => CheckGoesOn(w) \/ active[w] = file

\* A reload that reads what it hashed leaves the sets equal to the known hash.
LEMMA NextKnown ==
    ReloadInv /\ KnownInForce /\ [Next]_vars => KnownInForce'
<1> SUFFICES ASSUME ReloadInv, KnownInForce, [Next]_vars
             PROVE  KnownInForce'
  OBVIOUS
<1> USE DEF ReloadInv, TypeOK, KnownInForce, policyVars, requestVars, history
<1>1. ASSUME NEW w \in Workers, StartWatcher(w)
      PROVE  KnownInForce'
  BY <1>1, AcceptedIsPolicy DEF StartWatcher, ImportInForce, InForce
<1>2. ASSUME NEW w \in Workers, Import(w) \/ Die(w)
      PROVE  KnownInForce'
  BY <1>2 DEF Import, Die
<1>3. ASSUME NEW w \in Workers, ReloadMissing(w)
      PROVE  KnownInForce'
  BY <1>3, AcceptedIsPolicy DEF ReloadMissing
<1>4. ASSUME NEW w \in Workers, ReloadAccepted(w)
      PROVE  KnownInForce'
  BY <1>4 DEF ReloadAccepted
<1>5. CASE UNCHANGED <<stage, active, known, raced>>
  BY <1>5
<1> QED
  BY <1>1, <1>2, <1>3, <1>4, <1>5
  DEF Next, Start, Check, Request, Edit, HashFile, ReloadRejected, ReloadFails, AppendEvent,
      AppendFails, BeginRequest, TransformSpan, AuditSpan, Respond, vars

\* One step of a check of one worker, while the file holds an accepted policy.
LEMMA CheckApproaches ==
    ASSUME ReloadInv, Accepted(file), file' = file, NEW w \in Workers, Check(w)
    PROVE  /\ ~ReloadFails(w) => StepsLeft(w)' < StepsLeft(w)
           /\ \A x \in Workers \ {w} : StepsLeft(x)' = StepsLeft(x)
<1> USE DEF ReloadInv, TypeOK, StepsLeft
<1>1. file # Missing
  BY AcceptedIsPolicy
<1>2. CASE HashFile(w)
  BY <1>2 DEF HashFile
<1>3. CASE ReloadAccepted(w)
  BY <1>3 DEF ReloadAccepted
<1>4. CASE AppendEvent(w) \/ AppendFails(w)
  BY <1>4 DEF AppendEvent, AppendFails
<1>5. CASE ReloadFails(w)
  <2>1. /\ check' = [check EXCEPT ![w] = "idle"]
        /\ UNCHANGED <<known, hashed>>
    BY <1>5 DEF ReloadFails
  <2> QED BY <1>5, <2>1
<1> QED
  BY <1>1, <1>2, <1>3, <1>4, <1>5 DEF Check, ReloadMissing, ReloadRejected

\* The other steps that leave a worker where it is leave its checks alone.
LEMMA NextApproaches ==
    ReloadInv /\ [Next]_vars => ChecksApproach
<1> SUFFICES ASSUME ReloadInv, [Next]_vars, Accepted(file), file' = file, NEW w \in Workers
             PROVE  /\ Check(w) /\ ~ReloadFails(w) => StepsLeft(w)' < StepsLeft(w)
                    /\ stage'[w] = stage[w] /\ ~ReloadFails(w)
                         => StepsLeft(w)' <= StepsLeft(w)
  BY DEF ChecksApproach
<1>1. StepsLeft(w) \in 0 .. 5 /\ StepsLeft(w)' \in 0 .. 5
  BY DEF StepsLeft
<1>2. ASSUME NEW x \in Workers, Check(x), ~ReloadFails(w)
      PROVE  StepsLeft(w)' <= StepsLeft(w)
  BY <1>1, <1>2, CheckApproaches
<1>3. ASSUME NEW x \in Workers, Start(x) \/ Die(x), stage'[w] = stage[w]
      PROVE  StepsLeft(w)' = StepsLeft(w)
  BY <1>3 DEF ReloadInv, TypeOK, Start, Import, StartWatcher, Die, StepsLeft
<1>4. ASSUME UNCHANGED policyVars
      PROVE  StepsLeft(w)' = StepsLeft(w)
  BY <1>4 DEF policyVars, StepsLeft
<1>5. \/ \E x \in Workers : Start(x) \/ Die(x) \/ Check(x)
      \/ UNCHANGED policyVars
  BY DEF Next, Request, Edit, BeginRequest, TransformSpan, AuditSpan, Respond, vars
<1>6. stage'[w] = stage[w] /\ ~ReloadFails(w) => StepsLeft(w)' <= StepsLeft(w)
  BY <1>1, <1>2, <1>3, <1>4, <1>5
<1> QED
  BY <1>6, CheckApproaches

-----------------------------------------------------------------------------
\* The invariant holds from the start and every step preserves it.
LEMMA ReloadInvariance == Spec => []ReloadInv
<1>1. ReloadInv /\ [Next]_vars => ReloadInv'
  BY NextReloadType, NextAccepted, NextHandled, NextLogFollows DEF ReloadInv
<1> QED
  BY <1>1, InitReloadInv, PTL DEF Spec

\* PolicyReload is type correct: every variable of the file, the workers,
\* their watchers and requests, and the log always has its type.
THEOREM PolicyTypeCorrect == Spec => []TypeOK
<1>1. ReloadInv => TypeOK
  BY DEF ReloadInv
<1> QED
  BY <1>1, ReloadInvariance, PTL

\* load_policy() fails closed: whatever is written to the policy file and
\* whenever it is loaded, anonymize_by_policy() leaves no span of a canonical
\* type in the text.
THEOREM NoSpanUntouched == Spec => []EverySpanHandled
<1>1. ReloadInv => EverySpanHandled
  BY DEF ReloadInv
<1> QED
  BY <1>1, ReloadInvariance, PTL

\* Between two checks, the log of policy changes names the policy a worker
\* runs on, unless it started on it, the file changed between the worker's
\* two reads of it, or an append failed.
THEOREM LogNamesPolicyAlways == Spec => []LogNamesPolicy
<1>1. ReloadInv => LogNamesPolicy
  BY DEF ReloadInv, LogFollowsPolicy, LogNamesPolicy
<1> QED
  BY <1>1, ReloadInvariance, PTL

\* While the file holds a policy that is accepted and the operator leaves it
\* alone, every step of a worker's checks takes it nearer to having loaded that
\* file, within five steps, unless reading the file failed, and no step of
\* anybody else takes it further (policy_watcher.py:142-204): the variant of UnracedConverge.
THEOREM ChecksApproachAlways == Spec => [][ChecksApproach]_vars
<1>1. ReloadInv /\ [Next]_vars => ChecksApproach
  BY NextApproaches
<1> QED
  BY <1>1, ReloadInvariance, PTL DEF Spec

\* A worker that has no step of a check left to take runs on the policy in
\* the file, unless the file changed between the two reads of its last reload
\* (policy_watcher.py:160-190): what is left of UnracedConverge without fairness.
THEOREM ChecksSettleAlways == Spec => []ChecksSettle
<1>1. Init => KnownInForce
  BY DEF Init, KnownInForce
<1>2. ReloadInv /\ KnownInForce /\ [Next]_vars => KnownInForce'
  BY NextKnown
<1>3. ReloadInv /\ KnownInForce => ChecksSettle
  BY DEF ReloadInv, TypeOK, KnownInForce, ChecksSettle, CheckGoesOn
<1> QED
  BY <1>1, <1>2, <1>3, ReloadInvariance, PTL DEF Spec

=============================================================================
