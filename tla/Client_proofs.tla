---------------------------- MODULE Client_proofs ----------------------------
(***************************************************************************)
(* Theorems about the consumer's proxy, its confidential requests, the     *)
(* local service and its proxy, the installation of engines and the model  *)
(* store, for every number of requests, pages, tokens, attestations,       *)
(* commands, starts, records and shards; about the isolation of an engine, *)
(* however the host changes; and about the terminal.                       *)
(*                                                                         *)
(* Each part has an inductive invariant of its own; a part that does not   *)
(* run stays as it is, so the invariants hold whichever part is in focus.  *)
(***************************************************************************)
EXTENDS MCClient, SequenceTheorems, FiniteSetTheorems, TLAPS

\* A step of the whole is a step of each part or leaves it alone.
LEMMA PartSteps ==
  ASSUME [Next]_vars
  PROVE  [Quota!Next]_quota /\ [Regulated!Next]_regulated /\ [Proxy!Next]_proxy
         /\ [Engines!Next]_engines /\ [Store!Next]_store /\ [Bundles!Next]_bundles
         /\ [Service!Next]_service /\ [Isolation!Next]_isolation /\ [Screen!Next]_screen
         /\ [Model!Next]_model
  BY DEF Next, vars, consumer, machine

-----------------------------------------------------------------------------
(***************************************************************************)
(* Confidential requests.  What the consumer verified is what the          *)
(* coordinator keeps beside the sealed request, and the node hands it to   *)
(* the runtime only when its own record is the same; from then on the      *)
(* handle of the program is the key that was verified.                     *)
(***************************************************************************)
OfferedRoute ==
  [report : Report \cup {0}, key : Report \cup {0}, evidence : Report \cup {0}, current : BOOLEAN]
SealedStage == {"new", "offered", "verified", "waiting", "opened", "failed"}
JobEnvelope ==
  [direction : {"request", "result"}, route : Sealer, report : Report, tee : Report,
   session : Sealer]
RegulatedWork ==
  [status : {"queued", "leased", "succeeded", "failed"}, report : Report, key : Report,
   envelope : JobEnvelope]

RegulatedType ==
  /\ sealed \in [Sealer -> [at : SealedStage, route : OfferedRoute]]
  /\ work \in [Sealer -> {Regulated!NoWork} \cup RegulatedWork]
  /\ adapter \in [Sealer -> [at : {"none", "running", "exited", "killed"},
                             handle : Report \cup {0}]]

\* A job exists for this request.
Created(q) == work[q].status # "none"

\* A route that was verified binds an allowed report, and the job created on it
\* says the same.
RouteVerified(q) ==
  /\ sealed[q].at = "offered" => sealed[q].route.report \in Report
  /\ sealed[q].at \in {"verified", "waiting", "opened"} =>
       /\ sealed[q].route.key = sealed[q].route.report
       /\ sealed[q].route.report \in Report \cap Allowed
  /\ sealed[q].at \in {"waiting", "opened"} =>
       Created(q) /\ work[q].report = sealed[q].route.report
  /\ sealed[q].at \in {"new", "offered", "verified"} =>
       ~Created(q) /\ adapter[q].at = "none"

\* A job carries the request sealed to the verified key until the program that
\* holds this key has answered for it.
WorkSound(q) ==
  /\ Created(q) =>
       /\ work[q].key = work[q].report /\ work[q].report \in Allowed
       /\ \/ /\ work[q].status # "succeeded"
             /\ work[q].envelope = Regulated!Envelope("request", q, work[q].report, work[q].key)
          \/ /\ work[q].status = "succeeded" /\ adapter[q].handle = work[q].key
             /\ work[q].envelope = Regulated!Envelope("result", q, work[q].report, work[q].key)
  /\ adapter[q].at = "running" <=> work[q].status = "leased"
  /\ adapter[q].at = "running" => adapter[q].handle = work[q].key
  /\ sealed[q].at = "opened" => work[q].status = "succeeded"

RegulatedInv == RegulatedType /\ \A q \in Sealer : RouteVerified(q) /\ WorkSound(q)

\* Nothing is prepared and nothing created.
LEMMA RegulatedInit == Regulated!Init => RegulatedInv
  BY DEF Regulated!Init, RegulatedInv, RegulatedType, RouteVerified, WorkSound, Created,
         Regulated!NoWork, Regulated!NoRoute, OfferedRoute, SealedStage

\* A job is a job, and what is none has no status but "none".
LEMMA WorkKinds ==
  ASSUME RegulatedType, NEW q \in Sealer
  PROVE  /\ work[q] # Regulated!NoWork <=> Created(q)
         /\ Created(q) => work[q] \in RegulatedWork
  BY DEF RegulatedType, Created, Regulated!NoWork, RegulatedWork

\* What happens to other requests leaves this one as it was.
LEMMA RegulatedSame ==
  ASSUME NEW q \in Sealer, RouteVerified(q), WorkSound(q),
         sealed'[q] = sealed[q], work'[q] = work[q], adapter'[q] = adapter[q]
  PROVE  RouteVerified(q)' /\ WorkSound(q)'
  BY DEF RouteVerified, WorkSound, Created

\* A step keeps the types.
LEMMA RegulatedTypes ==
  ASSUME RegulatedInv, [Regulated!Next]_regulated
  PROVE  RegulatedType'
<1> USE DEF RegulatedInv, RegulatedType
<1>1. CASE UNCHANGED regulated
  BY <1>1 DEF regulated
<1>2. ASSUME NEW q \in Sealer, Regulated!Fails(q), UNCHANGED <<work, adapter>>
      PROVE  RegulatedType'
  BY <1>2 DEF Regulated!Fails, Regulated!NoRoute, OfferedRoute, SealedStage
<1>3. ASSUME UNCHANGED <<sealed, work, adapter>> PROVE RegulatedType'
  BY <1>3
<1>4. ASSUME NEW q \in Sealer, NEW route \in Regulated!Route, Regulated!PrepareAnswered(q, route)
      PROVE  RegulatedType'
  <2>1. [at |-> "offered", route |-> route] \in [at : SealedStage, route : OfferedRoute]
    BY DEF Regulated!Route, OfferedRoute, SealedStage
  <2> QED
    BY <1>4, <2>1 DEF Regulated!PrepareAnswered
<1>5. ASSUME NEW q \in Sealer, NEW b \in BOOLEAN, Regulated!VerifyPreparedRoute(q, b)
      PROVE  RegulatedType'
  BY <1>5, <1>2 DEF Regulated!VerifyPreparedRoute, SealedStage
<1>6. ASSUME NEW q \in Sealer, NEW b \in BOOLEAN, Regulated!EncryptAndCreate(q, b)
      PROVE  RegulatedType'
  <2> DEFINE route == sealed[q].route
             job == [status |-> "queued", report |-> route.report, key |-> route.key,
                     envelope |-> Regulated!Envelope("request", q, route.report, route.key)]
  <2>1. route.report \in Report /\ route.key \in Report
    BY <1>6 DEF Regulated!EncryptAndCreate, RouteVerified
  <2>2. job \in RegulatedWork
    BY <2>1 DEF Regulated!Envelope, RegulatedWork, JobEnvelope
  <2>3. work' = [work EXCEPT ![q] = job] /\ UNCHANGED adapter
    BY <1>6 DEF Regulated!EncryptAndCreate
  <2> HIDE DEF job
  <2>4. work' \in [Sealer -> {Regulated!NoWork} \cup RegulatedWork]
    BY <2>2, <2>3
  <2>5. sealed' \in [Sealer -> [at : SealedStage, route : OfferedRoute]]
    <3>1. sealed' = [sealed EXCEPT ![q].at = "waiting"] \/ Regulated!Fails(q)
      BY <1>6 DEF Regulated!EncryptAndCreate
    <3>2. CASE sealed' = [sealed EXCEPT ![q].at = "waiting"]
      BY <3>2 DEF SealedStage
    <3>3. CASE Regulated!Fails(q)
      BY <3>3 DEF Regulated!Fails, Regulated!NoRoute, OfferedRoute, SealedStage
    <3> QED
      BY <3>1, <3>2, <3>3
  <2> QED
    BY <2>3, <2>4, <2>5
<1>7. ASSUME NEW q \in Sealer, NEW j \in Sealer, Regulated!PollRegulated(q, j)
      PROVE  RegulatedType'
  BY <1>7, <1>2 DEF Regulated!PollRegulated, SealedStage
<1>8. ASSUME NEW q \in Sealer, NEW how \in {"leased", "failed"}, Created(q),
             Regulated!JobEnds(q, how)
      PROVE  work' \in [Sealer -> {Regulated!NoWork} \cup RegulatedWork]
  BY <1>8, WorkKinds DEF Regulated!JobEnds, RegulatedWork
<1>9. ASSUME NEW q \in Sealer, Regulated!ExecuteRegulated(q)
      PROVE  RegulatedType'
  <2>1. Created(q) /\ UNCHANGED sealed
    BY <1>9 DEF Regulated!ExecuteRegulated, Created
  <2>2. CASE Regulated!RecordMatches(q)
    <3>1. key_record \in Report
      BY <2>1, <2>2, WorkKinds DEF Regulated!RecordMatches, RegulatedWork
    <3> QED
      BY <1>8, <1>9, <2>1, <2>2, <3>1 DEF Regulated!ExecuteRegulated
  <2>3. CASE ~Regulated!RecordMatches(q)
    BY <1>8, <1>9, <2>1, <2>3 DEF Regulated!ExecuteRegulated
  <2> QED
    BY <2>2, <2>3
<1>10. ASSUME NEW q \in Sealer, NEW j \in Sealer, Regulated!AdapterAnswers(q, j)
       PROVE  RegulatedType'
  <2>1. Created(q) /\ Created(j) /\ UNCHANGED sealed
    BY <1>10 DEF Regulated!AdapterAnswers, Created, WorkSound
  <2>2. adapter' \in [Sealer -> [at : {"none", "running", "exited", "killed"},
                                 handle : Report \cup {0}]]
    BY <1>10 DEF Regulated!AdapterAnswers
  <2>3. PICK output \in Regulated!Output(q, j) :
          IF Regulated!OutputBound(q, output)
            THEN work' = [work EXCEPT ![q].status = "succeeded", ![q].envelope = output]
            ELSE Regulated!JobEnds(q, "failed")
    BY <1>10 DEF Regulated!AdapterAnswers
  <2>4. CASE Regulated!OutputBound(q, output)
    <3>1. output \in JobEnvelope
      BY <2>1, <2>4, WorkKinds
      DEF Regulated!Output, Regulated!OutputBound, Regulated!Envelope, JobEnvelope, RegulatedWork
    <3> DEFINE job == [work[q] EXCEPT !.status = "succeeded", !.envelope = output]
    <3>2. work' = [work EXCEPT ![q] = job]
      BY <2>3, <2>4
    <3>3. job \in RegulatedWork
      BY <2>1, <3>1, WorkKinds DEF RegulatedWork
    <3> HIDE DEF job
    <3> QED
      BY <2>1, <2>2, <3>2, <3>3
  <2>5. CASE ~Regulated!OutputBound(q, output)
    BY <2>1, <2>2, <2>3, <2>5, <1>8
  <2> QED
    BY <2>4, <2>5
<1>11. ASSUME NEW q \in Sealer, NEW b \in BOOLEAN, Regulated!AdapterFails(q, b)
       PROVE  RegulatedType'
  <2>1. Created(q) /\ UNCHANGED sealed
    BY <1>11 DEF Regulated!AdapterFails, Created, WorkSound
  <2> QED
    BY <1>8, <1>11, <2>1 DEF Regulated!AdapterFails
<1> QED
  BY <1>1, <1>2, <1>3, <1>4, <1>5, <1>6, <1>7, <1>9, <1>10, <1>11
  DEF Regulated!Next, Regulated!TeePrepare, Regulated!TeeAttest, Regulated!AttestFails,
      Regulated!WaitOver

\* A step keeps what is known of every request.
LEMMA RegulatedNext ==
  ASSUME RegulatedInv, [Regulated!Next]_regulated
  PROVE  RegulatedInv'
<1>1. RegulatedType'
  BY RegulatedTypes
<1>2. ASSUME NEW r \in Sealer PROVE RouteVerified(r) /\ WorkSound(r)
  BY <1>2 DEF RegulatedInv
<1> SUFFICES ASSUME NEW r \in Sealer PROVE (RouteVerified(r) /\ WorkSound(r))'
  BY <1>1 DEF RegulatedInv
<1> USE DEF RegulatedInv, RegulatedType
<1>3. CASE UNCHANGED <<sealed, work, adapter>>
  BY <1>2, <1>3, RegulatedSame
<1>4. ASSUME NEW q \in Sealer, Regulated!Fails(q), UNCHANGED <<work, adapter>>
      PROVE  (RouteVerified(r) /\ WorkSound(r))'
  <2>1. CASE q = r
    BY <1>2, <1>4, <2>1 DEF Regulated!Fails, RouteVerified, WorkSound, Created
  <2>2. CASE q # r
    BY <1>2, <1>4, <2>2, RegulatedSame DEF Regulated!Fails
  <2> QED
    BY <2>1, <2>2
<1>5. ASSUME NEW q \in Sealer, NEW route \in Regulated!Route, Regulated!PrepareAnswered(q, route)
      PROVE  (RouteVerified(r) /\ WorkSound(r))'
  <2>1. CASE q = r
    <3>1. sealed[r].at = "new" /\ sealed' = [sealed EXCEPT ![q] = [at |-> "offered", route |-> route]]
          /\ work' = work /\ adapter' = adapter
      BY <1>5, <2>1 DEF Regulated!PrepareAnswered
    <3>2. sealed'[r].at = "offered" /\ sealed'[r].route.report \in Report
      BY <2>1, <3>1 DEF Regulated!Route
    <3> QED
      BY <1>2, <3>1, <3>2 DEF RouteVerified, WorkSound, Created
  <2>2. CASE q # r
    BY <1>2, <1>5, <2>2, RegulatedSame DEF Regulated!PrepareAnswered
  <2> QED
    BY <2>1, <2>2
<1>6. ASSUME NEW q \in Sealer, NEW b \in BOOLEAN, Regulated!VerifyPreparedRoute(q, b)
      PROVE  (RouteVerified(r) /\ WorkSound(r))'
  <2>1. CASE Regulated!Fails(q)
    BY <1>4, <1>6, <2>1 DEF Regulated!VerifyPreparedRoute
  <2>2. CASE ~Regulated!Fails(q) /\ q = r
    <3>1. sealed' = [sealed EXCEPT ![q].at = "verified"] /\ Regulated!VerifiedRoute(sealed[q].route)
      BY <1>6, <2>2 DEF Regulated!VerifyPreparedRoute
    <3>2. sealed[r].route.key = sealed[r].route.report /\ sealed[r].route.report \in Allowed
      BY <2>2, <3>1 DEF Regulated!VerifiedRoute, Regulated!ClientVerifies
    <3>3. /\ sealed[r].at = "offered" /\ sealed'[r].at = "verified"
          /\ sealed'[r].route = sealed[r].route /\ work' = work /\ adapter' = adapter
      BY <1>6, <2>2, <3>1 DEF Regulated!VerifyPreparedRoute
    <3> QED
      BY <1>2, <3>2, <3>3 DEF RouteVerified, WorkSound, Created
  <2>3. CASE q # r
    BY <1>2, <1>6, <2>3, RegulatedSame DEF Regulated!VerifyPreparedRoute, Regulated!Fails
  <2> QED
    BY <2>1, <2>2, <2>3
<1>7. ASSUME NEW q \in Sealer, NEW b \in BOOLEAN, Regulated!EncryptAndCreate(q, b)
      PROVE  (RouteVerified(r) /\ WorkSound(r))'
  <2>1. CASE q = r
    <3>1. /\ work'[r].status = "queued" /\ work'[r].report = sealed[r].route.report
          /\ work'[r].key = sealed[r].route.key
          /\ work'[r].envelope = Regulated!Envelope("request", r, work'[r].report, work'[r].key)
          /\ adapter' = adapter
      BY <1>7, <2>1 DEF Regulated!EncryptAndCreate
    <3>2. /\ sealed'[r].at = "waiting" /\ sealed'[r].route = sealed[r].route
          \/ sealed'[r].at = "failed"
      BY <1>7, <2>1 DEF Regulated!EncryptAndCreate, Regulated!Fails
    <3> QED
      BY <1>2, <1>7, <2>1, <3>1, <3>2
      DEF Regulated!EncryptAndCreate, RouteVerified, WorkSound, Created
  <2>2. CASE q # r
    BY <1>2, <1>7, <2>2, RegulatedSame DEF Regulated!EncryptAndCreate, Regulated!Fails
  <2> QED
    BY <2>1, <2>2
<1>8. ASSUME NEW q \in Sealer, NEW j \in Sealer, Regulated!PollRegulated(q, j)
      PROVE  (RouteVerified(r) /\ WorkSound(r))'
  <2>1. CASE Regulated!Fails(q)
    BY <1>4, <1>8, <2>1 DEF Regulated!PollRegulated
  <2>2. CASE ~Regulated!Fails(q) /\ q = r
    <3>1. sealed' = [sealed EXCEPT ![q].at = "opened"] /\ j = q /\ work[j].status = "succeeded"
      BY <1>8, <2>2 DEF Regulated!PollRegulated, Regulated!SameRoute
    <3> QED
      BY <1>2, <1>8, <2>2, <3>1 DEF Regulated!PollRegulated, RouteVerified, WorkSound, Created
  <2>3. CASE q # r
    BY <1>2, <1>8, <2>3, RegulatedSame DEF Regulated!PollRegulated, Regulated!Fails
  <2> QED
    BY <2>1, <2>2, <2>3
<1>9. ASSUME NEW q \in Sealer, NEW how \in {"leased", "failed"}, Created(q),
             work[q].status # "succeeded", Regulated!JobEnds(q, how), q = r
      PROVE  /\ work'[r].status = how /\ work'[r].report = work[r].report
             /\ work'[r].key = work[r].key /\ work'[r].envelope = work[r].envelope
             /\ work[r].envelope = Regulated!Envelope("request", q, work[q].report, work[q].key)
  BY <1>2, <1>9, WorkKinds DEF Regulated!JobEnds, RegulatedWork, WorkSound
<1>10. ASSUME NEW q \in Sealer, Regulated!ExecuteRegulated(q)
       PROVE  (RouteVerified(r) /\ WorkSound(r))'
  <2>1. work[q].status = "queued" /\ Created(q) /\ sealed' = sealed
    BY <1>10 DEF Regulated!ExecuteRegulated, Created
  <2>2. CASE q = r /\ Regulated!RecordMatches(q)
    <3>1. /\ Regulated!JobEnds(q, "leased") /\ key_record = work[r].key
          /\ adapter' = [adapter EXCEPT ![q] = [at |-> "running", handle |-> key_record]]
      BY <1>10, <2>2 DEF Regulated!ExecuteRegulated, Regulated!RecordMatches
    <3>2. adapter'[r].at = "running" /\ adapter'[r].handle = work[r].key
      BY <2>2, <3>1
    <3> QED
      BY <1>2, <1>9, <2>1, <2>2, <3>1, <3>2 DEF RouteVerified, WorkSound, Created
  <2>3. CASE q = r /\ ~Regulated!RecordMatches(q)
    <3>1. Regulated!JobEnds(q, "failed") /\ adapter' = adapter
      BY <1>10, <2>3 DEF Regulated!ExecuteRegulated
    <3> QED
      BY <1>2, <1>9, <2>1, <2>3, <3>1 DEF RouteVerified, WorkSound, Created
  <2>4. CASE q # r
    BY <1>2, <1>10, <2>4, RegulatedSame DEF Regulated!ExecuteRegulated, Regulated!JobEnds
  <2> QED
    BY <2>2, <2>3, <2>4
<1>11. ASSUME NEW q \in Sealer, NEW j \in Sealer, Regulated!AdapterAnswers(q, j)
       PROVE  (RouteVerified(r) /\ WorkSound(r))'
  <2>1. /\ adapter[q].at = "running" /\ sealed' = sealed
        /\ adapter' = [adapter EXCEPT ![q].at = "exited"]
    BY <1>11 DEF Regulated!AdapterAnswers
  <2>2. work[q].status = "leased" /\ Created(q) /\ adapter[q].handle = work[q].key
    BY <2>1 DEF WorkSound, Created
  <2>3. PICK output \in Regulated!Output(q, j) :
          IF Regulated!OutputBound(q, output)
            THEN work' = [work EXCEPT ![q].status = "succeeded", ![q].envelope = output]
            ELSE Regulated!JobEnds(q, "failed")
    BY <1>11 DEF Regulated!AdapterAnswers
  <2>4. CASE q = r /\ Regulated!OutputBound(q, output)
    <3>1. output = Regulated!Envelope("result", q, work[q].report, work[q].key)
      BY <2>2, <2>4 DEF Regulated!Output, Regulated!OutputBound, Regulated!Envelope
    <3>2. /\ work'[r].status = "succeeded" /\ work'[r].report = work[r].report
          /\ work'[r].key = work[r].key /\ work'[r].envelope = output
      BY <2>2, <2>3, <2>4, WorkKinds DEF RegulatedWork
    <3> QED
      BY <1>2, <2>1, <2>2, <2>4, <3>1, <3>2 DEF RouteVerified, WorkSound, Created
  <2>5. CASE q = r /\ ~Regulated!OutputBound(q, output)
    <3>1. Regulated!JobEnds(q, "failed")
      BY <2>3, <2>5
    <3> QED
      BY <1>2, <1>9, <2>1, <2>2, <2>5, <3>1 DEF RouteVerified, WorkSound, Created
  <2>6. CASE q # r
    BY <1>2, <2>1, <2>3, <2>6, RegulatedSame DEF Regulated!JobEnds
  <2> QED
    BY <2>4, <2>5, <2>6
<1>12. ASSUME NEW q \in Sealer, NEW b \in BOOLEAN, Regulated!AdapterFails(q, b)
       PROVE  (RouteVerified(r) /\ WorkSound(r))'
  <2>1. /\ Regulated!JobEnds(q, "failed") /\ sealed' = sealed /\ work[q].status = "leased"
        /\ adapter[q].at = "running"
        /\ adapter' = [adapter EXCEPT ![q].at = IF b THEN "killed" ELSE "exited"]
    BY <1>12 DEF Regulated!AdapterFails, WorkSound
  <2>2. CASE q = r
    BY <1>2, <1>9, <2>1, <2>2 DEF RouteVerified, WorkSound, Created
  <2>3. CASE q # r
    BY <1>2, <2>1, <2>3, RegulatedSame DEF Regulated!JobEnds
  <2> QED
    BY <2>2, <2>3
<1> QED
  BY <1>3, <1>4, <1>5, <1>6, <1>7, <1>8, <1>10, <1>11, <1>12
  DEF Regulated!Next, Regulated!TeePrepare, Regulated!TeeAttest, Regulated!AttestFails,
      Regulated!WaitOver, regulated

\* The invariant says what the runs check.
LEMMA RegulatedSafe ==
  ASSUME RegulatedInv
  PROVE  Regulated!SealedToVerified /\ Regulated!AdapterAccounted
<1> USE DEF RegulatedInv
<1>1. ASSUME NEW q \in Sealer, work[q] # Regulated!NoWork, work[q].envelope.direction = "request"
      PROVE  work[q].envelope.tee = work[q].envelope.report /\ work[q].envelope.tee \in Allowed
  <2>1. Created(q) /\ WorkSound(q)
    BY <1>1, WorkKinds
  <2>2. work[q].envelope = Regulated!Envelope("request", q, work[q].report, work[q].key)
    BY <1>1, <2>1 DEF WorkSound, Regulated!Envelope
  <2> QED
    BY <2>1, <2>2 DEF WorkSound, Regulated!Envelope
<1>2. ASSUME NEW q \in Sealer, sealed[q].at = "opened"
      PROVE  /\ work[q].envelope
                  = Regulated!Envelope("result", q, sealed[q].route.report, adapter[q].handle)
             /\ adapter[q].handle \in Allowed
  BY <1>2, WorkKinds DEF RouteVerified, WorkSound, Created
<1>3. ASSUME NEW q \in Sealer
      PROVE  adapter[q].at = "running" <=> work[q] # Regulated!NoWork /\ work[q].status = "leased"
  BY <1>3, WorkKinds DEF WorkSound, Created
<1>4. ASSUME NEW q \in Sealer, work[q] # Regulated!NoWork, work[q].status = "succeeded"
      PROVE  work[q].envelope.route = q
  <2>1. Created(q) /\ WorkSound(q)
    BY <1>4, WorkKinds
  <2>2. work[q].envelope = Regulated!Envelope("result", q, work[q].report, work[q].key)
    BY <1>4, <2>1 DEF WorkSound
  <2> QED
    BY <2>2 DEF Regulated!Envelope
<1> QED
  BY <1>1, <1>2, <1>3, <1>4 DEF Regulated!SealedToVerified, Regulated!AdapterAccounted

-----------------------------------------------------------------------------
(***************************************************************************)
(* The proxy of quota use.  While no refresh was left incomplete, memory   *)
(* holds the newest generation; an access token lapses only when no call   *)
(* is being repeated, so a repeated call is always accepted.               *)
(***************************************************************************)
CallRecord ==
  [at : {"reading", "sent", "refused", "refreshing"}, what : {"create", "wait", "read"},
   token : Nat, retried : BOOLEAN]
Endings == {"none", "done", "failed", "timeout", "unreadable"}
Replies ==
  {"open", "authentication", "error", "invalid", "result", "failed", "timeout", "done",
   "unreadable"}

NetJob == [status : {"none", "queued", "leased"} \cup Quota!Ended, log : Nat]
StreamRecord ==
  [next : Nat, pending : Seq(Nat), terminal : Endings, frames : Seq(Nat), failing : BOOLEAN]

QuotaType ==
  /\ session \in Nat /\ write_lock \subseteq Asker /\ broken \in BOOLEAN
  /\ server \in [gen : Nat, lapsed : BOOLEAN]
  /\ net_job \in [Asker -> NetJob]
  /\ call \in [Asker -> {Quota!NoCall} \cup CallRecord]
  /\ sse \in [Asker -> StreamRecord]
  /\ reply \in [Asker -> Replies]

\* The writer is the one request that refreshes, and only one that was refused
\* for the token in memory refreshes.
LockSound ==
  /\ write_lock = {} \/ \E q \in Asker : write_lock = {q}
  /\ \A q \in Asker : call[q].at = "refreshing" <=> write_lock = {q}

TokensSound ==
  ~broken =>
    /\ session = server.gen
    /\ \A q \in Asker :
         /\ reply[q] # "authentication"
         /\ call[q].at \in {"sent", "refused", "refreshing"} => call[q].token <= server.gen
         /\ call[q].at = "refreshing" => call[q].token = server.gen
         /\ call[q].at \in {"refused", "refreshing"} =>
              (call[q].token = server.gen <=> server.lapsed)
         /\ call[q].at \in {"reading", "sent"} /\ call[q].retried => ~server.lapsed
         /\ call[q].at = "sent" /\ (call[q].retried \/ server.lapsed) =>
              call[q].token = server.gen

\* Where a request's stream stands: what was shown is the log up to the cursor.
PageInOrder(q) ==
  /\ sse[q].next = Len(sse[q].frames) + Len(sse[q].pending) /\ sse[q].next <= net_job[q].log
  /\ \A i \in 1 .. Len(sse[q].frames) : sse[q].frames[i] = i - 1
  /\ \A i \in 1 .. Len(sse[q].pending) : sse[q].pending[i] = Len(sse[q].frames) + i - 1
  /\ sse[q].terminal = "done" \/ reply[q] = "done" =>
       net_job[q].status = "succeeded" /\ sse[q].next = net_job[q].log

\* What a request may still do.
RequestSound(q) ==
  /\ reply[q] # "open" => call[q] = Quota!NoCall
  /\ net_job[q].status = "none" => sse[q].next = 0 /\ sse[q].terminal = "none"
  /\ call[q].at # "none" /\ call[q].what = "create" => net_job[q].status = "none"
  /\ call[q].at # "none" /\ call[q].what = "read" =>
       sse[q].pending = <<>> /\ sse[q].terminal = "none" /\ net_job[q].status # "none"
  /\ reply[q] = "result" => net_job[q].status = "succeeded"

QuotaInv ==
  /\ QuotaType /\ LockSound /\ TokensSound
  /\ \A q \in Asker : PageInOrder(q) /\ RequestSound(q)

USE DEF Quota!Ended

LEMMA QuotaInit == Quota!Init => QuotaInv
<1> SUFFICES ASSUME Quota!Init PROVE QuotaInv
  OBVIOUS
<1> USE DEF Quota!Init
<1>1. QuotaType
  <2>1. Quota!FirstPage \in StreamRecord
    BY EmptySeq DEF Quota!FirstPage, Endings, StreamRecord
  <2> QED
    BY <2>1 DEF QuotaType, Replies, NetJob
<1>2. LockSound /\ TokensSound
  BY DEF LockSound, TokensSound, Quota!NoCall
<1>3. \A q \in Asker : PageInOrder(q) /\ RequestSound(q)
  BY DEF PageInOrder, RequestSound, Quota!NoCall, Quota!FirstPage
<1> QED
  BY <1>1, <1>2, <1>3 DEF QuotaInv

\* A call is none or a record.
LEMMA CallKinds ==
  ASSUME QuotaType, NEW q \in Asker
  PROVE  /\ call[q] = Quota!NoCall <=> call[q].at = "none"
         /\ call[q].at # "none" => call[q] \in CallRecord
  BY DEF QuotaType, Quota!NoCall, CallRecord

\* What a failed call does.
LEMMA FailedCall ==
  ASSUME QuotaType, NEW q \in Asker, Quota!CallFails(q), call[q].at # "none"
  PROVE  /\ call' = [call EXCEPT ![q] = Quota!NoCall]
         /\ \/ /\ call[q].what = "read" /\ reply' = reply
               /\ sse' = [sse EXCEPT ![q].failing = TRUE]
            \/ call[q].what # "read" /\ reply' = [reply EXCEPT ![q] = "error"] /\ sse' = sse
  BY DEF Quota!CallFails, Quota!Answer

\* A read brings the next entries of the log, in order and as many as fit a page,
\* and takes the cursor to their end.
LEMMA StreamPage ==
  ASSUME QuotaType, NEW q \in Asker, Quota!StreamAnswered(q), sse[q].next <= net_job[q].log
  PROVE  \E upto \in Nat, page \in Seq(Nat) :
           /\ upto \in sse[q].next .. net_job[q].log
           /\ Len(page) = upto - sse[q].next
           /\ \A i \in 1 .. Len(page) : page[i] = sse[q].next + i - 1
           /\ sse' = [sse EXCEPT ![q] = [@ EXCEPT
                !.next = upto, !.pending = page, !.failing = FALSE,
                !.terminal = Quota!Verdict(net_job[q].status, upto < net_job[q].log)]]
<1> DEFINE from == sse[q].next
           log == net_job[q].log
           upto == IF log - from > PageSize THEN from + PageSize ELSE log
           page == [i \in 1 .. upto - from |-> from + i - 1]
<1>1. from \in Nat /\ log \in Nat /\ from <= log
  BY DEF QuotaType, StreamRecord, NetJob
<1>2. upto \in Nat /\ upto \in from .. log
  BY <1>1, QuotaAssumption
<1>3. page \in Seq(Nat) /\ Len(page) = upto - from
  <2>1. upto - from \in Nat /\ page \in [1 .. (upto - from) -> Nat]
    BY <1>1, <1>2
  <2> HIDE DEF upto, from
  <2> QED
    BY <2>1
<1>4. sse' = [sse EXCEPT ![q] = [@ EXCEPT
                !.next = upto, !.pending = page, !.failing = FALSE,
                !.terminal = Quota!Verdict(net_job[q].status, upto < net_job[q].log)]]
  BY DEF Quota!StreamAnswered
<1>5. \A i \in 1 .. Len(page) : page[i] = from + i - 1
  BY <1>3
<1> HIDE DEF upto, page
<1> QED
  BY <1>2, <1>3, <1>4, <1>5

\* A step keeps the types.
LEMMA QuotaTypes ==
  ASSUME QuotaInv, [Quota!Next]_quota
  PROVE  QuotaType'
<1> USE DEF QuotaInv, QuotaType
<1>1. CASE UNCHANGED quota
  BY <1>1 DEF quota
<1>2. CASE Quota!TokenLapses
  BY <1>2 DEF Quota!TokenLapses
<1>3. CASE Quota!OtherCommandRefreshes
  BY <1>3 DEF Quota!OtherCommandRefreshes
<1>4. \A what \in {"create", "wait", "read"} : Quota!Calling(what) \in CallRecord
  BY DEF Quota!Calling, CallRecord
<1>5. ASSUME NEW q \in Asker, call[q].at # "none"
      PROVE  /\ [call[q] EXCEPT !.at = "refused"] \in CallRecord
             /\ [call[q] EXCEPT !.at = "refreshing"] \in CallRecord
             /\ [call[q] EXCEPT !.at = "reading", !.retried = TRUE] \in CallRecord
  BY <1>5, CallKinds DEF CallRecord
<1>6. ASSUME NEW q \in Asker
      PROVE  /\ [sse[q] EXCEPT !.failing = TRUE] \in StreamRecord
             /\ [sse[q] EXCEPT !.terminal = "timeout"] \in StreamRecord
             /\ [sse[q] EXCEPT !.terminal = "unreadable"] \in StreamRecord
  <2>1. sse[q] \in StreamRecord
    BY <1>6
  <2> QED
    BY <2>1 DEF StreamRecord, Endings
<1>7. ASSUME NEW q \in Asker, NEW how \in Replies, Quota!Answer(q, how)
      PROVE  /\ call' \in [Asker -> {Quota!NoCall} \cup CallRecord]
             /\ reply' \in [Asker -> Replies]
  BY <1>7 DEF Quota!Answer
<1>8. {"authentication", "error", "invalid", "result", "failed", "timeout"} \cup (Endings \ {"none"})
        \subseteq Replies
  BY DEF Replies, Endings
<1>9. ASSUME NEW q \in Asker, call[q].at # "none", Quota!CallFails(q)
      PROVE  /\ call' \in [Asker -> {Quota!NoCall} \cup CallRecord]
             /\ sse' \in [Asker -> StreamRecord] /\ reply' \in [Asker -> Replies]
  <2>1. CASE call[q].what = "read"
    <3>1. sse' = [sse EXCEPT ![q] = [sse[q] EXCEPT !.failing = TRUE]]
      BY <1>9, <2>1, FailedCall
    <3> QED
      BY <1>6, <1>9, <2>1, <3>1, FailedCall
  <2>2. CASE call[q].what # "read"
    BY <1>7, <1>8, <1>9, <2>2, FailedCall
  <2> QED
    BY <2>1, <2>2
<1>10. ASSUME NEW q \in Asker, Quota!ReadToken(q) PROVE QuotaType'
  <2>1. [call[q] EXCEPT !.at = "sent", !.token = session] \in CallRecord
    BY <1>10, CallKinds DEF Quota!ReadToken, CallRecord
  <2>2. call' = [call EXCEPT ![q] = [call[q] EXCEPT !.at = "sent", !.token = session]]
    BY <1>10 DEF Quota!ReadToken
  <2> QED
    BY <1>10, <2>1, <2>2 DEF Quota!ReadToken
<1>11. ASSUME NEW q \in Asker, Quota!Refused(q) PROVE QuotaType'
  <2>1. CASE ~call[q].retried
    <3>1. call' = [call EXCEPT ![q] = [call[q] EXCEPT !.at = "refused"]]
      BY <1>11, <2>1 DEF Quota!Refused
    <3> QED
      BY <1>5, <1>11, <2>1, <3>1 DEF Quota!Refused
  <2>2. CASE call[q].retried /\ call[q].what = "read"
    <3>1. sse' = [sse EXCEPT ![q] = [sse[q] EXCEPT !.failing = TRUE]]
      BY <1>11, <2>2 DEF Quota!Refused
    <3> QED
      BY <1>6, <1>11, <2>2, <3>1 DEF Quota!Refused
  <2>3. CASE call[q].retried /\ call[q].what # "read"
    BY <1>7, <1>8, <1>11, <2>3 DEF Quota!Refused
  <2> QED
    BY <2>1, <2>2, <2>3
<1>12. ASSUME NEW q \in Asker, Quota!RefreshProxySession(q) PROVE QuotaType'
  <2>1. CASE session # call[q].token
    <3>1. call' = [call EXCEPT ![q] = [call[q] EXCEPT !.at = "reading", !.retried = TRUE]]
      BY <1>12, <2>1 DEF Quota!RefreshProxySession
    <3> QED
      BY <1>5, <1>12, <2>1, <3>1 DEF Quota!RefreshProxySession
  <2>2. CASE session = call[q].token
    <3>1. call' = [call EXCEPT ![q] = [call[q] EXCEPT !.at = "refreshing"]]
      BY <1>12, <2>2 DEF Quota!RefreshProxySession
    <3> QED
      BY <1>5, <1>12, <2>2, <3>1 DEF Quota!RefreshProxySession
  <2> QED
    BY <2>1, <2>2
<1>13. ASSUME NEW q \in Asker, NEW stored \in BOOLEAN, Quota!Rotate(q, stored) PROVE QuotaType'
  <2>1. /\ call[q].at # "none" /\ net_job' = net_job /\ write_lock' = {}
        /\ server' = server \/ server' = [gen |-> server.gen + 1, lapsed |-> FALSE]
    BY <1>13 DEF Quota!Rotate
  <2> server' \in [gen : Nat, lapsed : BOOLEAN]
    <3>1. server \in [gen : Nat, lapsed : BOOLEAN]
      OBVIOUS
    <3>2. [gen |-> server.gen + 1, lapsed |-> FALSE] \in [gen : Nat, lapsed : BOOLEAN]
      BY <3>1
    <3> QED
      BY <2>1, <3>1, <3>2
  <2>2. CASE session = server.gen /\ stored
    <3>1. /\ call' = [call EXCEPT ![q] = [call[q] EXCEPT !.at = "reading", !.retried = TRUE]]
          /\ UNCHANGED <<broken, sse, reply>> /\ session' = server.gen + 1
      BY <1>13, <2>2 DEF Quota!Rotate
    <3>2. session' \in Nat
      <4>1. server.gen \in Nat
        OBVIOUS
      <4> QED
        BY <3>1, <4>1
    <3>3. call' \in [Asker -> {Quota!NoCall} \cup CallRecord]
      BY <1>5, <1>13, <2>1, <3>1
    <3> QED
      BY <2>1, <3>1, <3>2, <3>3
  <2>3. CASE ~(session = server.gen /\ stored)
    <3>1. broken' = TRUE /\ Quota!CallFails(q) /\ session' = session
      BY <1>13, <2>3 DEF Quota!Rotate
    <3> QED
      BY <1>9, <1>13, <2>1, <3>1
  <2> QED
    BY <2>2, <2>3
<1>14. ASSUME NEW q \in Asker, NEW valid \in BOOLEAN, Quota!ProxyInference(q, valid)
       PROVE  QuotaType'
  <2>1. CASE valid
    BY <1>4, <1>14, <2>1 DEF Quota!ProxyInference
  <2>2. CASE ~valid
    BY <1>7, <1>8, <1>14, <2>2 DEF Quota!ProxyInference
  <2> QED
    BY <2>1, <2>2
<1>15. ASSUME NEW q \in Asker, NEW heard \in BOOLEAN, Quota!CreateStandardJob(q, heard)
       PROVE  QuotaType'
  <2>1. /\ net_job' \in [Asker -> NetJob] /\ UNCHANGED <<session, write_lock, server, broken>>
        /\ call[q].at # "none"
    BY <1>15 DEF Quota!CreateStandardJob, NetJob
  <2>2. CASE ~heard
    BY <1>9, <1>15, <2>1, <2>2 DEF Quota!CreateStandardJob
  <2>3. CASE heard
    BY <1>4, <1>15, <2>1, <2>3 DEF Quota!CreateStandardJob
  <2> QED
    BY <2>2, <2>3
<1>16. ASSUME NEW q \in Asker, Quota!CallLost(q) PROVE QuotaType'
  BY <1>9, <1>16 DEF Quota!CallLost
<1>17. ASSUME NEW q \in Asker, Quota!WaitForStandardJob(q) PROVE QuotaType'
  <2>1. \/ Quota!Answer(q, "result") \/ Quota!Answer(q, "failed")
        \/ call' = [call EXCEPT ![q] = Quota!Calling("wait")] /\ UNCHANGED reply
    BY <1>17 DEF Quota!WaitForStandardJob
  <2> QED
    BY <1>4, <1>7, <1>8, <1>17, <2>1 DEF Quota!WaitForStandardJob
<1>18. ASSUME NEW q \in Asker, Quota!WaitTimesOut(q) PROVE QuotaType'
  BY <1>7, <1>8, <1>18 DEF Quota!WaitTimesOut
<1>19. ASSUME NEW q \in Asker, Quota!WriteFrame(q) PROVE QuotaType'
  <2>1. sse[q] \in StreamRecord /\ sse[q].pending # <<>>
    BY <1>19 DEF Quota!WriteFrame
  <2>2. /\ Tail(sse[q].pending) \in Seq(Nat)
        /\ Append(sse[q].frames, Head(sse[q].pending)) \in Seq(Nat)
    BY <2>1 DEF StreamRecord
  <2> DEFINE page == [sse[q] EXCEPT !.frames = Append(@, Head(sse[q].pending)), !.pending = Tail(@)]
  <2>3. sse' = [sse EXCEPT ![q] = page]
    BY <1>19 DEF Quota!WriteFrame
  <2>4. page \in StreamRecord
    BY <2>1, <2>2 DEF StreamRecord
  <2> HIDE DEF page
  <2> QED
    BY <1>19, <2>3, <2>4 DEF Quota!WriteFrame
<1>20. ASSUME NEW q \in Asker, Quota!WriteEnd(q) PROVE QuotaType'
  <2>1. sse[q].terminal \in Replies
    BY <1>8, <1>20 DEF Quota!WriteEnd, StreamRecord
  <2> QED
    BY <1>7, <1>20, <2>1 DEF Quota!WriteEnd
<1>21. ASSUME NEW q \in Asker, Quota!StreamDeadline(q) \/ Quota!RecoveryOver(q) PROVE QuotaType'
  <2>1. \/ sse' = [sse EXCEPT ![q] = [sse[q] EXCEPT !.terminal = "timeout"]]
        \/ sse' = [sse EXCEPT ![q] = [sse[q] EXCEPT !.terminal = "unreadable"]]
    BY <1>21 DEF Quota!StreamDeadline, Quota!RecoveryOver
  <2> QED
    BY <1>6, <1>21, <2>1 DEF Quota!StreamDeadline, Quota!RecoveryOver
<1>22. ASSUME NEW q \in Asker, Quota!ReadStream(q) PROVE QuotaType'
  BY <1>4, <1>22 DEF Quota!ReadStream
<1>23. ASSUME NEW q \in Asker, Quota!StreamAnswered(q) PROVE QuotaType'
  <2>1. PICK upto \in Nat, page \in Seq(Nat) :
          sse' = [sse EXCEPT ![q] = [@ EXCEPT
                    !.next = upto, !.pending = page, !.failing = FALSE,
                    !.terminal = Quota!Verdict(net_job[q].status, upto < net_job[q].log)]]
    BY <1>23, StreamPage DEF PageInOrder
  <2> DEFINE now == [sse[q] EXCEPT
                       !.next = upto, !.pending = page, !.failing = FALSE,
                       !.terminal = Quota!Verdict(net_job[q].status, upto < net_job[q].log)]
  <2>2. Quota!Verdict(net_job[q].status, upto < net_job[q].log) \in Endings
    BY DEF Quota!Verdict, Endings
  <2>3. sse[q] \in StreamRecord /\ sse' = [sse EXCEPT ![q] = now]
    BY <2>1
  <2>4. now \in StreamRecord
    BY <2>2, <2>3 DEF StreamRecord
  <2> HIDE DEF now
  <2> QED
    BY <1>23, <2>3, <2>4 DEF Quota!StreamAnswered
<1>24. ASSUME NEW q \in Asker, Quota!JobGoesOn(q) PROVE QuotaType'
  <2>1. net_job[q] \in NetJob
    OBVIOUS
  <2>2. PICK job \in NetJob : net_job' = [net_job EXCEPT ![q] = job]
    <3>1. \/ net_job' = [net_job EXCEPT ![q] = [status |-> "leased", log |-> net_job[q].log + 1]]
          \/ \E how \in Quota!Ended :
               net_job' = [net_job EXCEPT ![q] = [net_job[q] EXCEPT !.status = how]]
      BY <1>24 DEF Quota!JobGoesOn
    <3>2. /\ [status |-> "leased", log |-> net_job[q].log + 1] \in NetJob
          /\ \A how \in Quota!Ended : [net_job[q] EXCEPT !.status = how] \in NetJob
      BY <2>1 DEF NetJob
    <3> QED
      BY <3>1, <3>2
  <2> QED
    BY <1>24, <2>2 DEF Quota!JobGoesOn
<1> QED
  BY <1>1, <1>2, <1>3, <1>10, <1>11, <1>12, <1>13, <1>14, <1>15, <1>16, <1>17, <1>18, <1>19, <1>20,
     <1>21, <1>22, <1>23, <1>24
  DEF Quota!Next

\* A call that ends, or begins anew, disturbs no other.
LEMMA TokensSame ==
  ASSUME QuotaInv, NEW q \in Asker, UNCHANGED <<session, server, broken, write_lock>>,
         \A r \in Asker : r = q \/ call'[r] = call[r],
         call[q].at # "refreshing",
         call'[q].at = "none" \/ (call'[q].at = "reading" /\ ~call'[q].retried),
         \A r \in Asker : reply'[r] = reply[r] \/ reply'[r] # "authentication"
  PROVE  LockSound' /\ TokensSound'
<1> QuotaType /\ LockSound /\ TokensSound
  BY DEF QuotaInv
<1>1. LockSound'
  BY DEF LockSound
<1>2. TokensSound'
  BY DEF TokensSound
<1> QED
  BY <1>1, <1>2

\* A failed call leaves no call behind.
LEMMA FailedEnds ==
  ASSUME QuotaInv, NEW q \in Asker, call[q].at \in {"reading", "sent"},
         Quota!CallFails(q) \/ \E how \in Replies \ {"authentication"} : Quota!Answer(q, how),
         UNCHANGED <<session, server, broken, write_lock>>
  PROVE  LockSound' /\ TokensSound'
<1> QuotaType /\ LockSound /\ TokensSound
  BY DEF QuotaInv
<1>1. /\ call'[q].at = "none" /\ \A r \in Asker : r = q \/ call'[r] = call[r]
      /\ \A r \in Asker : reply'[r] = reply[r] \/ reply'[r] # "authentication"
  <2>1. CASE Quota!CallFails(q)
    BY <2>1, FailedCall DEF Quota!NoCall, QuotaType
  <2>2. CASE ~Quota!CallFails(q)
    <3>1. PICK how \in Replies \ {"authentication"} : Quota!Answer(q, how)
      BY <2>2
    <3> QED
      BY <3>1 DEF Quota!Answer, Quota!NoCall, QuotaType
  <2> QED
    BY <2>1, <2>2
<1>2. call[q].at # "refreshing"
  OBVIOUS
<1> QED
  BY <1>1, <1>2, TokensSame

\* A step keeps the lock and the tokens sound.
LEMMA TokensNext ==
  ASSUME QuotaInv, [Quota!Next]_quota
  PROVE  LockSound' /\ TokensSound'
<1> QuotaType /\ LockSound /\ TokensSound
  BY DEF QuotaInv
<1>t. /\ call \in [Asker -> {Quota!NoCall} \cup CallRecord] /\ reply \in [Asker -> Replies]
      /\ server \in [gen : Nat, lapsed : BOOLEAN] /\ session \in Nat /\ broken \in BOOLEAN
  BY DEF QuotaType
<1>1. ASSUME UNCHANGED <<session, server, broken, write_lock, call, reply>>
      PROVE  LockSound' /\ TokensSound'
  BY <1>1 DEF LockSound, TokensSound
<1>2. CASE Quota!TokenLapses
  <2>1. /\ UNCHANGED <<session, broken, write_lock, call, reply>>
        /\ server'.gen = server.gen /\ server'.lapsed
        /\ \A q \in Asker : /\ call[q].at \notin {"refused", "refreshing"}
                            /\ call[q].at # "none" => ~ call[q].retried
                            /\ call[q].at = "sent" => call[q].token = server.gen
    BY <1>t, <1>2 DEF Quota!TokenLapses
  <2> QED
    BY <2>1 DEF LockSound, TokensSound
<1>3. CASE Quota!OtherCommandRefreshes
  BY <1>3 DEF Quota!OtherCommandRefreshes, LockSound, TokensSound
<1>4. ASSUME NEW q \in Asker, Quota!ReadToken(q) PROVE LockSound' /\ TokensSound'
  <2>1. /\ UNCHANGED <<session, server, broken, write_lock, reply>> /\ write_lock = {}
        /\ call[q].at = "reading" /\ \A r \in Asker : r = q \/ call'[r] = call[r]
        /\ call'[q].at = "sent" /\ call'[q].token = session /\ call'[q].retried = call[q].retried
    <3>1. call[q] \in CallRecord
      BY <1>4, CallKinds DEF Quota!ReadToken
    <3> QED
      BY <1>t, <1>4, <3>1 DEF Quota!ReadToken, CallRecord
  <2>2. LockSound'
    BY <2>1 DEF LockSound
  <2>3. TokensSound'
    BY <1>t, <2>1 DEF TokensSound
  <2> QED
    BY <2>2, <2>3
<1>5. ASSUME NEW q \in Asker, Quota!Refused(q) PROVE LockSound' /\ TokensSound'
  <2>1. /\ UNCHANGED <<session, server, broken, write_lock>> /\ call[q].at = "sent"
        /\ call[q].token # server.gen \/ server.lapsed
        /\ call[q] \in CallRecord
    BY <1>t, <1>5, CallKinds DEF Quota!Refused, Quota!Accepted
  <2>2. CASE ~call[q].retried
    <3>1. /\ \A r \in Asker : r = q \/ call'[r] = call[r]
          /\ reply' = reply
          /\ call'[q].at = "refused" /\ call'[q].token = call[q].token
      <4>1. call[q] \in CallRecord
        BY <2>1, CallKinds
      <4> QED
        BY <1>t, <1>5, <2>2, <4>1 DEF Quota!Refused, CallRecord
    <3>2. LockSound'
      BY <2>1, <3>1 DEF LockSound
    <3>3. TokensSound'
      BY <2>1, <3>1 DEF TokensSound
    <3> QED
      BY <3>2, <3>3
  <2>3. CASE call[q].retried
    <3>1. /\ \A r \in Asker : r = q \/ call'[r] = call[r]
          /\ call'[q].at = "none"
          /\ \A r \in Asker : r = q \/ reply'[r] = reply[r]
      BY <1>t, <1>5, <2>3 DEF Quota!Refused, Quota!Answer, Quota!NoCall
    <3>2. broken
      BY <2>1, <2>3 DEF TokensSound
    <3>3. LockSound'
      BY <2>1, <3>1 DEF LockSound
    <3> QED
      BY <2>1, <3>2, <3>3 DEF TokensSound
  <2> QED
    BY <2>2, <2>3
<1>6. ASSUME NEW q \in Asker, Quota!RefreshProxySession(q) PROVE LockSound' /\ TokensSound'
  <2>1. /\ UNCHANGED <<session, server, broken, reply>> /\ call[q].at = "refused"
        /\ write_lock = {} /\ call[q] \in CallRecord
        /\ \A r \in Asker : r = q \/ call'[r] = call[r]
    BY <1>t, <1>6, CallKinds DEF Quota!RefreshProxySession
  <2>2. CASE session # call[q].token
    <3>1. write_lock' = {} /\ call'[q].at = "reading" /\ call'[q].retried
      BY <1>t, <1>6, <2>1, <2>2 DEF Quota!RefreshProxySession, CallRecord
    <3>2. LockSound'
      BY <2>1, <3>1 DEF LockSound
    <3>3. TokensSound'
      BY <1>t, <2>1, <2>2, <3>1 DEF TokensSound
    <3> QED
      BY <3>2, <3>3
  <2>3. CASE session = call[q].token
    <3>1. write_lock' = {q} /\ call'[q].at = "refreshing" /\ call'[q].token = call[q].token
      BY <1>t, <1>6, <2>1, <2>3 DEF Quota!RefreshProxySession, CallRecord
    <3>2. LockSound'
      BY <2>1, <3>1 DEF LockSound
    <3>3. TokensSound'
      BY <1>t, <2>1, <2>3, <3>1 DEF TokensSound
    <3> QED
      BY <3>2, <3>3
  <2> QED
    BY <2>2, <2>3
<1>7. ASSUME NEW q \in Asker, NEW stored \in BOOLEAN, Quota!Rotate(q, stored)
      PROVE  LockSound' /\ TokensSound'
  <2>1. /\ call[q].at = "refreshing" /\ write_lock' = {} /\ call[q] \in CallRecord
    BY <1>t, <1>7, CallKinds DEF Quota!Rotate
  <2>2. write_lock = {q} /\ \A r \in Asker : r # q => call[r].at # "refreshing"
    BY <2>1 DEF LockSound
  <2>3. CASE session = server.gen /\ stored
    <3>1. /\ session' = server.gen + 1 /\ server'.gen = server.gen + 1 /\ ~server'.lapsed
          /\ call'[q].at = "reading" /\ broken' = broken /\ reply' = reply
          /\ \A r \in Asker : r = q \/ call'[r] = call[r]
      BY <1>t, <1>7, <2>1, <2>3 DEF Quota!Rotate, CallRecord
    <3>2. LockSound'
      BY <2>1, <2>2, <3>1 DEF LockSound
    <3>3. TokensSound'
      <4> SUFFICES ASSUME ~broken PROVE TokensSound'
        BY <3>1 DEF TokensSound
      <4>1. server.lapsed /\ server.gen \in Nat
        BY <1>t, <2>1 DEF TokensSound
      <4>2. ASSUME NEW r \in Asker, r # q
            PROVE  /\ call[r].at \in {"sent", "refused"} =>
                        call[r].token <= server.gen /\ call[r].token \in Nat
                   /\ call[r].at \in {"reading", "sent"} => ~call[r].retried
                   /\ call[r].at # "refreshing"
        <5>1. call[r].at # "none" => call[r].token \in Nat
          BY <4>2, CallKinds DEF CallRecord
        <5> QED
          BY <2>2, <4>1, <4>2, <5>1 DEF TokensSound
      <4>3. ASSUME NEW r \in Asker
            PROVE  /\ reply[r] # "authentication"
                   /\ call'[r].at \in {"sent", "refused"} =>
                        call'[r].token <= server.gen + 1 /\ call'[r].token # server.gen + 1
                   /\ call'[r].at = "sent" => ~call'[r].retried
                   /\ call'[r].at # "refreshing"
        <5>1. CASE r = q
          BY <3>1, <5>1 DEF TokensSound
        <5>2. CASE r # q
          BY <3>1, <4>1, <4>2, <5>2 DEF TokensSound
        <5> QED
          BY <5>1, <5>2
      <4> QED
        BY <3>1, <4>3 DEF TokensSound
    <3> QED
      BY <3>2, <3>3
  <2>4. CASE ~(session = server.gen /\ stored)
    <3>1. broken' = TRUE /\ Quota!CallFails(q)
      BY <1>7, <2>4 DEF Quota!Rotate
    <3>2. call'[q].at = "none" /\ \A r \in Asker : r = q \/ call'[r] = call[r]
      BY <1>t, <2>1, <3>1, FailedCall DEF Quota!NoCall
    <3> QED
      BY <2>1, <2>2, <3>1, <3>2 DEF LockSound, TokensSound
  <2> QED
    BY <2>3, <2>4
<1>8. ASSUME NEW q \in Asker, NEW valid \in BOOLEAN, Quota!ProxyInference(q, valid)
      PROVE  LockSound' /\ TokensSound'
  <2>1. /\ call[q].at = "none" /\ \A r \in Asker : r = q \/ call'[r] = call[r]
        /\ UNCHANGED <<session, server, broken, write_lock>>
        /\ call'[q].at = "none" \/ (call'[q].at = "reading" /\ ~call'[q].retried)
    BY <1>t, <1>8 DEF Quota!ProxyInference, Quota!Answer, Quota!Calling, Quota!NoCall
  <2>2. \A r \in Asker : reply'[r] = reply[r] \/ reply'[r] # "authentication"
    BY <1>t, <1>8 DEF Quota!ProxyInference, Quota!Answer
  <2> QED
    BY <1>8, <2>1, <2>2, TokensSame
<1>9. ASSUME NEW q \in Asker, NEW heard \in BOOLEAN, Quota!CreateStandardJob(q, heard)
      PROVE  LockSound' /\ TokensSound'
  <2>1. CASE ~heard
    BY <1>9, <2>1, FailedEnds DEF Quota!CreateStandardJob
  <2>2. CASE heard
    <3>1. /\ call[q].at = "sent" /\ reply' = reply
          /\ UNCHANGED <<session, server, broken, write_lock>>
          /\ \/ call' = [call EXCEPT ![q] = Quota!NoCall]
             \/ call' = [call EXCEPT ![q] = Quota!Calling("wait")]
      BY <1>9, <2>2 DEF Quota!CreateStandardJob
    <3>2. /\ \A r \in Asker : r = q \/ call'[r] = call[r]
          /\ call'[q].at = "none" \/ (call'[q].at = "reading" /\ ~call'[q].retried)
      BY <1>t, <1>9, <3>1 DEF Quota!Calling, Quota!NoCall
    <3> QED
      BY <1>9, <3>1, <3>2, TokensSame
  <2> QED
    BY <2>1, <2>2
<1>10. ASSUME NEW q \in Asker, Quota!CallLost(q) PROVE LockSound' /\ TokensSound'
  BY <1>10, FailedEnds DEF Quota!CallLost
<1>11. ASSUME NEW q \in Asker, Quota!WaitForStandardJob(q) PROVE LockSound' /\ TokensSound'
  <2>1. \/ Quota!Answer(q, "result") \/ Quota!Answer(q, "failed")
        \/ call' = [call EXCEPT ![q] = Quota!Calling("wait")] /\ UNCHANGED reply
    BY <1>11 DEF Quota!WaitForStandardJob
  <2>2. CASE Quota!Answer(q, "result") \/ Quota!Answer(q, "failed")
    BY <1>11, <2>2, FailedEnds DEF Quota!WaitForStandardJob, Replies
  <2>3. CASE call' = [call EXCEPT ![q] = Quota!Calling("wait")] /\ UNCHANGED reply
    BY <1>t, <1>11, <2>3, TokensSame DEF Quota!WaitForStandardJob, Quota!Calling
  <2> QED
    BY <2>1, <2>2, <2>3
<1>12. ASSUME NEW q \in Asker, Quota!WaitTimesOut(q) PROVE LockSound' /\ TokensSound'
  BY <1>12, FailedEnds DEF Quota!WaitTimesOut, Replies
<1>13. ASSUME NEW q \in Asker, \/ Quota!WriteFrame(q) \/ Quota!StreamDeadline(q)
                               \/ Quota!RecoveryOver(q) \/ Quota!JobGoesOn(q)
       PROVE  LockSound' /\ TokensSound'
  BY <1>1, <1>13
  DEF Quota!WriteFrame, Quota!StreamDeadline, Quota!RecoveryOver, Quota!JobGoesOn
<1>14. ASSUME NEW q \in Asker, Quota!WriteEnd(q) PROVE LockSound' /\ TokensSound'
  <2>1. sse[q].terminal \in Endings
    BY DEF QuotaType, StreamRecord
  <2>2. /\ call[q].at = "none" /\ call'[q].at = "none" /\ \A r \in Asker : r = q \/ call'[r] = call[r]
        /\ \A r \in Asker : reply'[r] = reply[r] \/ reply'[r] # "authentication"
        /\ UNCHANGED <<session, server, broken, write_lock>>
    BY <1>t, <1>14, <2>1
    DEF Quota!WriteEnd, Quota!Relaying, Quota!Answer, Quota!NoCall, Endings
  <2> QED
    BY <1>14, <2>2, TokensSame
<1>15. ASSUME NEW q \in Asker, Quota!ReadStream(q) PROVE LockSound' /\ TokensSound'
  <2>1. /\ call[q].at = "none" /\ \A r \in Asker : r = q \/ call'[r] = call[r]
        /\ UNCHANGED <<session, server, broken, write_lock, reply>>
        /\ call'[q].at = "reading" /\ call'[q].retried = FALSE
    BY <1>t, <1>15 DEF Quota!ReadStream, Quota!Idle, Quota!Relaying, Quota!Calling, Quota!NoCall
  <2> QED
    BY <1>15, <2>1, TokensSame
<1>16. ASSUME NEW q \in Asker, Quota!StreamAnswered(q) PROVE LockSound' /\ TokensSound'
  BY <1>t, <1>16, TokensSame DEF Quota!StreamAnswered, Quota!NoCall
<1>17. CASE UNCHANGED quota
  BY <1>1, <1>17 DEF quota
<1> QED
  BY <1>2, <1>3, <1>4, <1>5, <1>6, <1>7, <1>8, <1>9, <1>10, <1>11, <1>12, <1>13, <1>14, <1>15,
     <1>16, <1>17
  DEF Quota!Next

-----------------------------------------------------------------------------
(***************************************************************************)
(* The frames of a stream.  The cursor, what was written and what waits to *)
(* be written always make up a prefix of the log.                          *)
(***************************************************************************)
\* What happens to other requests leaves this one as it was.
LEMMA RequestSame ==
  ASSUME NEW r \in Asker, PageInOrder(r), RequestSound(r),
         call'[r] = call[r], net_job'[r] = net_job[r], sse'[r] = sse[r], reply'[r] = reply[r]
  PROVE  PageInOrder(r)' /\ RequestSound(r)'
  BY DEF PageInOrder, RequestSound

\* Where the call of a request stands: whether it goes on, and as what.
SameCall(r) == call'[r].at # "none" => call[r].at # "none" /\ call'[r].what = call[r].what

\* A call that goes on as it was, or ends with an answer that claims nothing.
LEMMA CallOnly ==
  ASSUME QuotaType, QuotaType', NEW r \in Asker, PageInOrder(r), RequestSound(r),
         SameCall(r), UNCHANGED <<net_job, sse>>,
         \/ reply'[r] = reply[r] /\ (reply[r] = "open" \/ call[r].at # "none" \/ call' = call)
         \/ reply'[r] \notin {"open", "result", "done"} /\ call'[r] = Quota!NoCall
  PROVE  PageInOrder(r)' /\ RequestSound(r)'
  BY CallKinds DEF PageInOrder, RequestSound, SameCall, Quota!NoCall

\* A read that failed is noted, nothing else.
LEMMA FailingNoted ==
  ASSUME QuotaType, NEW r \in Asker, PageInOrder(r), RequestSound(r),
         sse' = [sse EXCEPT ![r].failing = TRUE], UNCHANGED <<net_job, reply>>,
         call' = [call EXCEPT ![r] = Quota!NoCall]
  PROVE  PageInOrder(r)' /\ RequestSound(r)'
<1>1. /\ sse'[r].next = sse[r].next /\ sse'[r].pending = sse[r].pending
      /\ sse'[r].frames = sse[r].frames /\ sse'[r].terminal = sse[r].terminal
      /\ call'[r] = Quota!NoCall /\ call'[r].at = "none"
  BY DEF QuotaType, StreamRecord, Quota!NoCall
<1> QED
  BY <1>1 DEF PageInOrder, RequestSound

\* The step of one request is not a step of another.
LEMMA OthersStay ==
  ASSUME QuotaType, NEW q \in Asker, NEW r \in Asker, q # r,
         \/ Quota!ReadToken(q) \/ Quota!Refused(q) \/ Quota!RefreshProxySession(q)
         \/ \E b \in BOOLEAN : Quota!Rotate(q, b) \/ Quota!ProxyInference(q, b)
                               \/ Quota!CreateStandardJob(q, b)
         \/ Quota!CallLost(q) \/ Quota!WaitForStandardJob(q) \/ Quota!WaitTimesOut(q)
         \/ Quota!WriteFrame(q) \/ Quota!WriteEnd(q) \/ Quota!StreamDeadline(q)
         \/ Quota!RecoveryOver(q) \/ Quota!ReadStream(q) \/ Quota!StreamAnswered(q)
         \/ Quota!JobGoesOn(q)
  PROVE  call'[r] = call[r] /\ net_job'[r] = net_job[r] /\ sse'[r] = sse[r] /\ reply'[r] = reply[r]
<1> USE DEF QuotaType, Quota!Answer, Quota!CallFails
<1>1. CASE Quota!ReadToken(q) \/ Quota!Refused(q) \/ Quota!RefreshProxySession(q)
  BY <1>1 DEF Quota!ReadToken, Quota!Refused, Quota!RefreshProxySession
<1>2. ASSUME NEW b \in BOOLEAN,
             Quota!Rotate(q, b) \/ Quota!ProxyInference(q, b) \/ Quota!CreateStandardJob(q, b)
      PROVE  /\ call'[r] = call[r] /\ net_job'[r] = net_job[r]
             /\ sse'[r] = sse[r] /\ reply'[r] = reply[r]
  BY <1>2 DEF Quota!Rotate, Quota!ProxyInference, Quota!CreateStandardJob
<1>3. CASE Quota!CallLost(q) \/ Quota!WaitForStandardJob(q) \/ Quota!WaitTimesOut(q)
  BY <1>3 DEF Quota!CallLost, Quota!WaitForStandardJob, Quota!WaitTimesOut
<1>4. CASE Quota!WriteFrame(q) \/ Quota!WriteEnd(q) \/ Quota!StreamDeadline(q)
  BY <1>4 DEF Quota!WriteFrame, Quota!WriteEnd, Quota!StreamDeadline
<1>5. CASE Quota!RecoveryOver(q) \/ Quota!ReadStream(q) \/ Quota!JobGoesOn(q)
  BY <1>5 DEF Quota!RecoveryOver, Quota!ReadStream, Quota!JobGoesOn
<1>6. CASE Quota!StreamAnswered(q)
  BY <1>6 DEF Quota!StreamAnswered
<1> QED
  BY <1>1, <1>2, <1>3, <1>4, <1>5, <1>6

\* A step keeps the frames in order and the requests sound.
LEMMA RequestsNext ==
  ASSUME QuotaInv, QuotaType', [Quota!Next]_quota
  PROVE  \A r \in Asker : (PageInOrder(r) /\ RequestSound(r))'
<1> QuotaType
  BY DEF QuotaInv
<1> SUFFICES ASSUME NEW r \in Asker PROVE (PageInOrder(r) /\ RequestSound(r))'
  OBVIOUS
<1>0. PageInOrder(r) /\ RequestSound(r)
  BY DEF QuotaInv
<1>t. /\ call \in [Asker -> {Quota!NoCall} \cup CallRecord] /\ reply \in [Asker -> Replies]
      /\ sse \in [Asker -> StreamRecord] /\ net_job \in [Asker -> NetJob]
      /\ sse[r] \in StreamRecord /\ net_job[r] \in NetJob
  BY DEF QuotaType
<1>1. CASE UNCHANGED <<call, net_job, sse, reply>>
  BY <1>0, <1>1, RequestSame
<1>2. CASE Quota!ReadToken(r)
  <2>1. call[r] \in CallRecord
    BY <1>2, CallKinds DEF Quota!ReadToken
  <2>2. SameCall(r) /\ call[r].at # "none" /\ UNCHANGED <<net_job, sse, reply>>
    BY <1>t, <1>2, <2>1 DEF Quota!ReadToken, SameCall, CallRecord
  <2> QED
    BY <1>0, <2>2, CallOnly
<1>3. CASE Quota!Refused(r)
  <2>1. call[r] \in CallRecord /\ call[r].at = "sent" /\ net_job' = net_job
    BY <1>3, CallKinds DEF Quota!Refused
  <2>2. CASE ~call[r].retried
    <3>1. SameCall(r) /\ UNCHANGED <<net_job, sse, reply>>
      BY <1>t, <1>3, <2>1, <2>2 DEF Quota!Refused, SameCall, CallRecord
    <3> QED
      BY <1>0, <2>1, <3>1, CallOnly
  <2>3. CASE call[r].retried /\ call[r].what = "read"
    BY <1>0, <1>3, <2>3, FailingNoted DEF Quota!Refused
  <2>4. CASE call[r].retried /\ call[r].what # "read"
    <3>1. Quota!Answer(r, "authentication") /\ UNCHANGED <<net_job, sse>>
      BY <1>3, <2>4 DEF Quota!Refused
    <3>2. reply'[r] = "authentication" /\ call'[r] = Quota!NoCall /\ SameCall(r)
      BY <1>t, <3>1 DEF Quota!Answer, SameCall, Quota!NoCall
    <3> QED
      BY <1>0, <3>1, <3>2, CallOnly
  <2> QED
    BY <2>2, <2>3, <2>4
<1>4. CASE Quota!RefreshProxySession(r)
  <2>1. call[r] \in CallRecord /\ call[r].at = "refused"
    BY <1>4, CallKinds DEF Quota!RefreshProxySession
  <2>2. SameCall(r) /\ UNCHANGED <<net_job, sse, reply>>
    BY <1>t, <1>4, <2>1 DEF Quota!RefreshProxySession, SameCall, CallRecord
  <2> QED
    BY <1>0, <2>1, <2>2, CallOnly
<1>5. ASSUME call[r].at # "none", Quota!CallFails(r), UNCHANGED net_job
      PROVE  (PageInOrder(r) /\ RequestSound(r))'
  <2>1. CASE call[r].what = "read"
    BY <1>0, <1>5, <2>1, FailedCall, FailingNoted
  <2>2. CASE call[r].what # "read"
    <3>1. reply'[r] = "error" /\ call'[r] = Quota!NoCall /\ SameCall(r) /\ UNCHANGED <<net_job, sse>>
      BY <1>t, <1>5, <2>2, FailedCall DEF SameCall, Quota!NoCall
    <3> QED
      BY <1>0, <3>1, CallOnly
  <2> QED
    BY <2>1, <2>2
<1>6. ASSUME NEW stored \in BOOLEAN, Quota!Rotate(r, stored)
      PROVE  (PageInOrder(r) /\ RequestSound(r))'
  <2>1. call[r] \in CallRecord /\ call[r].at = "refreshing" /\ net_job' = net_job
    BY <1>6, CallKinds DEF Quota!Rotate
  <2>2. CASE session = server.gen /\ stored
    <3>1. SameCall(r) /\ UNCHANGED <<net_job, sse, reply>>
      BY <1>t, <1>6, <2>1, <2>2 DEF Quota!Rotate, SameCall, CallRecord
    <3> QED
      BY <1>0, <2>1, <3>1, CallOnly
  <2>3. CASE ~(session = server.gen /\ stored)
    BY <1>5, <1>6, <2>1, <2>3 DEF Quota!Rotate
  <2> QED
    BY <2>2, <2>3
<1>7. ASSUME NEW valid \in BOOLEAN, Quota!ProxyInference(r, valid)
      PROVE  (PageInOrder(r) /\ RequestSound(r))'
  <2>1. /\ reply[r] = "open" /\ call[r] = Quota!NoCall /\ net_job[r].status = "none"
        /\ UNCHANGED <<net_job, sse>>
    BY <1>7 DEF Quota!ProxyInference
  <2>2. CASE valid
    <3>1. call'[r].what = "create" /\ reply' = reply
      BY <1>t, <1>7, <2>2 DEF Quota!ProxyInference, Quota!Calling
    <3> QED
      BY <1>0, <2>1, <3>1 DEF PageInOrder, RequestSound
  <2>3. CASE ~valid
    <3>1. reply'[r] = "invalid" /\ call'[r] = Quota!NoCall /\ SameCall(r)
      BY <1>t, <1>7, <2>3 DEF Quota!ProxyInference, Quota!Answer, SameCall, Quota!NoCall
    <3> QED
      BY <1>0, <2>1, <3>1, CallOnly
  <2> QED
    BY <2>2, <2>3
<1>8. ASSUME NEW heard \in BOOLEAN, Quota!CreateStandardJob(r, heard)
      PROVE  (PageInOrder(r) /\ RequestSound(r))'
  <2>1. /\ call[r].at = "sent" /\ call[r].what = "create" /\ net_job[r].status = "none"
        /\ net_job'[r].status = "queued" /\ net_job'[r].log = 0
        /\ sse' = sse /\ reply[r] = "open" /\ sse[r].next = 0 /\ sse[r].terminal = "none"
    <3>1. net_job' = [net_job EXCEPT ![r] = [status |-> "queued", log |-> 0]] /\ call[r].at = "sent"
          /\ call[r].what = "create"
      BY <1>8 DEF Quota!CreateStandardJob
    <3>2. sse' = sse
      BY <1>8, <3>1, FailedCall DEF Quota!CreateStandardJob
    <3> QED
      BY <1>0, <1>t, <3>1, <3>2 DEF RequestSound, Quota!NoCall
  <2>2. /\ call'[r].at = "none" \/ call'[r].what = "wait"
        /\ \/ reply'[r] = "open"
           \/ reply'[r] = "error" /\ call'[r] = Quota!NoCall
    <3>1. CASE heard
      BY <1>t, <1>8, <2>1, <3>1 DEF Quota!CreateStandardJob, Quota!Calling, Quota!NoCall
    <3>2. CASE ~heard
      BY <1>t, <1>8, <2>1, <3>2, FailedCall DEF Quota!CreateStandardJob, Quota!NoCall
    <3> QED
      BY <3>1, <3>2
  <2>3. PageInOrder(r)'
    <3>1. /\ sse[r].next = Len(sse[r].frames) + Len(sse[r].pending)
          /\ \A i \in 1 .. Len(sse[r].frames) : sse[r].frames[i] = i - 1
          /\ \A i \in 1 .. Len(sse[r].pending) : sse[r].pending[i] = Len(sse[r].frames) + i - 1
      BY <1>0 DEF PageInOrder
    <3>2. sse'[r] = sse[r] /\ sse'[r].next <= net_job'[r].log /\ reply'[r] # "done"
          /\ sse'[r].terminal # "done"
      BY <2>1, <2>2
    <3> QED
      BY <3>1, <3>2 DEF PageInOrder
  <2>4. RequestSound(r)'
    BY <2>1, <2>2 DEF RequestSound
  <2> QED
    BY <2>3, <2>4
<1>9. CASE Quota!CallLost(r)
  BY <1>5, <1>9 DEF Quota!CallLost
<1>10. CASE Quota!WaitForStandardJob(r)
  <2>1. call[r] \in CallRecord /\ call[r].at = "sent" /\ call[r].what = "wait"
        /\ UNCHANGED <<net_job, sse>>
    BY <1>10, CallKinds DEF Quota!WaitForStandardJob
  <2>2. CASE net_job[r].status = "succeeded"
    <3>1. reply'[r] = "result" /\ call'[r] = Quota!NoCall /\ call'[r].at = "none"
      BY <1>t, <1>10, <2>2 DEF Quota!WaitForStandardJob, Quota!Answer, Quota!NoCall
    <3> QED
      BY <1>0, <2>1, <2>2, <3>1 DEF PageInOrder, RequestSound
  <2>3. CASE net_job[r].status \in {"failed", "cancelled"}
    <3>1. reply'[r] = "failed" /\ call'[r] = Quota!NoCall /\ SameCall(r)
      BY <1>t, <1>10, <2>3 DEF Quota!WaitForStandardJob, Quota!Answer, Quota!NoCall, SameCall
    <3> QED
      BY <1>0, <2>1, <3>1, CallOnly
  <2>4. CASE net_job[r].status \notin {"succeeded", "failed", "cancelled"}
    <3>1. reply' = reply /\ call' = [call EXCEPT ![r] = Quota!Calling("wait")]
      BY <1>10, <2>4 DEF Quota!WaitForStandardJob
    <3>2. SameCall(r)
      BY <1>t, <2>1, <3>1 DEF SameCall, Quota!Calling
    <3> QED
      BY <1>0, <2>1, <3>1, <3>2, CallOnly
  <2> QED
    BY <2>2, <2>3, <2>4
<1>11. CASE Quota!WaitTimesOut(r)
  <2>1. reply'[r] = "timeout" /\ call'[r] = Quota!NoCall /\ SameCall(r) /\ UNCHANGED <<net_job, sse>>
    BY <1>t, <1>11 DEF Quota!WaitTimesOut, Quota!Answer, Quota!NoCall, SameCall
  <2> QED
    BY <1>0, <2>1, CallOnly
<1>12. CASE Quota!WriteFrame(r)
  <2> DEFINE frames == sse[r].frames
             pending == sse[r].pending
  <2>1. /\ reply[r] = "open" /\ pending # <<>> /\ UNCHANGED <<net_job, call, reply>>
        /\ sse' = [sse EXCEPT ![r].frames = Append(@, Head(pending)), ![r].pending = Tail(@)]
    BY <1>12 DEF Quota!WriteFrame, Quota!Relaying
  <2>2. /\ sse'[r].next = sse[r].next /\ sse'[r].terminal = sse[r].terminal
        /\ sse'[r].frames = Append(frames, Head(pending)) /\ sse'[r].pending = Tail(pending)
    BY <1>t, <2>1 DEF StreamRecord
  <2>3. frames \in Seq(Nat) /\ pending \in Seq(Nat) /\ call[r].at = "none"
    BY <1>t, <1>12 DEF StreamRecord, Quota!WriteFrame, Quota!Relaying, Quota!NoCall
  <2>4. /\ Len(Append(frames, Head(pending))) = Len(frames) + 1
        /\ Len(Tail(pending)) = Len(pending) - 1 /\ Len(pending) \in Nat /\ Len(pending) > 0
        /\ \A i \in 1 .. Len(frames) : Append(frames, Head(pending))[i] = frames[i]
        /\ Append(frames, Head(pending))[Len(frames) + 1] = pending[1]
        /\ \A i \in 1 .. Len(pending) - 1 : Tail(pending)[i] = pending[i + 1]
    <3> HIDE DEF frames, pending
    <3> QED
      BY <2>1, <2>3
  <2> HIDE DEF frames, pending
  <2>5. PageInOrder(r)'
    <3>1. /\ sse[r].next = Len(frames) + Len(pending) /\ sse[r].next <= net_job[r].log
          /\ \A i \in 1 .. Len(frames) : frames[i] = i - 1
          /\ \A i \in 1 .. Len(pending) : pending[i] = Len(frames) + i - 1
          /\ sse[r].terminal = "done" \/ reply[r] = "done" =>
               net_job[r].status = "succeeded" /\ sse[r].next = net_job[r].log
      BY <1>0 DEF PageInOrder, frames, pending
    <3>2. Len(frames) \in Nat
      BY <2>3
    <3>3. \A i \in 1 .. Len(frames) + 1 : Append(frames, Head(pending))[i] = i - 1
      <4>1. pending[1] = Len(frames)
        BY <2>4, <3>1, <3>2
      <4>2. ASSUME NEW i \in 1 .. Len(frames) + 1 PROVE i \in 1 .. Len(frames) \/ i = Len(frames) + 1
        BY <3>2
      <4> QED
        BY <2>4, <3>1, <3>2, <4>1, <4>2
    <3>4. \A i \in 1 .. Len(pending) - 1 : Tail(pending)[i] = Len(frames) + 1 + i - 1
      BY <2>4, <3>1, <3>2
    <3>5. /\ Len(sse'[r].frames) = Len(frames) + 1 /\ Len(sse'[r].pending) = Len(pending) - 1
          /\ \A i \in 1 .. Len(frames) + 1 : sse'[r].frames[i] = i - 1
          /\ \A i \in 1 .. Len(pending) - 1 : sse'[r].pending[i] = Len(frames) + 1 + i - 1
      BY <2>2, <2>4, <3>3, <3>4
    <3>6. /\ sse'[r].next = sse[r].next /\ sse'[r].terminal = sse[r].terminal
          /\ net_job' = net_job /\ reply' = reply
          /\ sse'[r].next = Len(sse'[r].frames) + Len(sse'[r].pending)
      <4>1. Len(frames) + Len(pending) = (Len(frames) + 1) + (Len(pending) - 1)
        BY <2>4, <3>2
      <4>2. Len(sse'[r].frames) + Len(sse'[r].pending) = (Len(frames) + 1) + (Len(pending) - 1)
        BY <3>5
      <4> QED
        BY <2>1, <2>2, <3>1, <4>1, <4>2
    <3> QED
      BY <3>1, <3>5, <3>6 DEF PageInOrder
  <2>6. RequestSound(r)'
    <3>1. /\ net_job[r].status = "none" => sse[r].next = 0 /\ sse[r].terminal = "none"
          /\ reply[r] = "result" => net_job[r].status = "succeeded"
      BY <1>0 DEF RequestSound
    <3> QED
      BY <2>1, <2>2, <2>3, <3>1 DEF RequestSound
  <2> QED
    BY <2>5, <2>6
<1>13. CASE Quota!WriteEnd(r)
  <2>1. /\ reply[r] = "open" /\ call[r] = Quota!NoCall /\ sse[r].terminal # "none"
        /\ Quota!Answer(r, sse[r].terminal) /\ UNCHANGED <<net_job, sse>>
    BY <1>13 DEF Quota!WriteEnd, Quota!Relaying
  <2>2. reply'[r] = sse[r].terminal /\ call'[r] = Quota!NoCall /\ call'[r].at = "none"
    BY <1>t, <2>1 DEF Quota!Answer, Quota!NoCall
  <2>3. sse[r].terminal # "result"
    BY <1>t DEF StreamRecord, Endings
  <2> QED
    BY <1>0, <2>1, <2>2, <2>3 DEF PageInOrder, RequestSound
<1>14. CASE Quota!StreamDeadline(r) \/ Quota!RecoveryOver(r)
  <2>1. /\ reply[r] = "open" /\ call[r].at = "none" /\ net_job[r].status # "none"
        /\ UNCHANGED <<net_job, call, reply>>
        /\ \/ sse' = [sse EXCEPT ![r].terminal = "timeout"]
           \/ sse' = [sse EXCEPT ![r].terminal = "unreadable"]
    BY <1>14
    DEF Quota!StreamDeadline, Quota!RecoveryOver, Quota!Idle, Quota!Relaying, Quota!NoCall
  <2>2. /\ sse'[r].next = sse[r].next /\ sse'[r].pending = sse[r].pending
        /\ sse'[r].frames = sse[r].frames /\ sse'[r].terminal \in {"timeout", "unreadable"}
    BY <1>t, <2>1 DEF StreamRecord
  <2> QED
    BY <1>0, <2>1, <2>2 DEF PageInOrder, RequestSound
<1>15. CASE Quota!ReadStream(r)
  <2>1. /\ reply[r] = "open" /\ net_job[r].status # "none" /\ sse[r].pending = <<>>
        /\ sse[r].terminal = "none" /\ UNCHANGED <<net_job, sse, reply>>
        /\ call'[r].what = "read"
    BY <1>t, <1>15 DEF Quota!ReadStream, Quota!Idle, Quota!Relaying, Quota!Calling
  <2> QED
    BY <1>0, <2>1 DEF PageInOrder, RequestSound
<1>16. CASE Quota!StreamAnswered(r)
  <2> DEFINE frames == sse[r].frames
             log == net_job[r].log
  <2>1. /\ call[r].at = "sent" /\ call[r].what = "read" /\ UNCHANGED <<net_job, reply>>
        /\ call'[r] = Quota!NoCall /\ call'[r].at = "none"
    BY <1>t, <1>16 DEF Quota!StreamAnswered, Quota!NoCall
  <2>2. sse[r].pending = <<>> /\ reply[r] = "open" /\ frames \in Seq(Nat) /\ log \in Nat
    BY <1>0, <1>t, <2>1 DEF RequestSound, Quota!NoCall, StreamRecord, NetJob
  <2>3. /\ sse[r].next = Len(frames) /\ sse[r].next <= log
        /\ \A i \in 1 .. Len(frames) : frames[i] = i - 1
    <3>1. Len(sse[r].pending) = 0 /\ Len(frames) \in Nat
      BY <2>2
    <3> QED
      BY <1>0, <3>1 DEF PageInOrder
  <2>4. PICK upto \in Nat, page \in Seq(Nat) :
          /\ upto \in sse[r].next .. log /\ Len(page) = upto - sse[r].next
          /\ \A i \in 1 .. Len(page) : page[i] = sse[r].next + i - 1
          /\ sse' = [sse EXCEPT ![r] = [@ EXCEPT
               !.next = upto, !.pending = page, !.failing = FALSE,
               !.terminal = Quota!Verdict(net_job[r].status, upto < log)]]
    BY <1>16, <2>3, StreamPage
  <2>5. /\ sse'[r].next = upto /\ sse'[r].pending = page /\ sse'[r].frames = frames
        /\ sse'[r].terminal = Quota!Verdict(net_job[r].status, upto < log)
    BY <1>t, <2>4 DEF StreamRecord
  <2>6. /\ sse'[r].terminal = "done" => net_job[r].status = "succeeded" /\ upto = log
        /\ net_job[r].status = "none" => sse'[r].terminal = "none"
    BY <2>2, <2>4, <2>5 DEF Quota!Verdict
  <2>7. net_job[r].status # "none"
    BY <1>0, <2>1 DEF RequestSound
  <2> HIDE DEF frames, log
  <2>8. PageInOrder(r)'
    <3>1. Len(frames) \in Nat /\ upto = Len(frames) + Len(page) /\ upto <= log
      BY <2>2, <2>3, <2>4
    <3> QED
      BY <2>1, <2>2, <2>3, <2>4, <2>5, <2>6, <3>1 DEF PageInOrder, log
  <2>9. RequestSound(r)'
    BY <2>1, <2>2, <2>5, <2>6, <2>7 DEF RequestSound
  <2> QED
    BY <2>8, <2>9
<1>17. CASE Quota!JobGoesOn(r)
  <2>1. /\ net_job[r].status \in {"queued", "leased"} /\ UNCHANGED <<call, sse, reply>>
        /\ net_job'[r].status # "none" /\ net_job'[r].log >= net_job[r].log
        /\ net_job[r].log \in Nat /\ net_job'[r].log \in Nat
    <3>1. net_job[r].log \in Nat
      BY <1>t DEF NetJob
    <3> QED
      BY <1>t, <1>17, <3>1 DEF Quota!JobGoesOn, NetJob
  <2>2. /\ sse[r].terminal # "done" /\ reply[r] # "done" /\ reply[r] # "result"
        /\ call[r].at # "none" => call[r].what # "create"
    BY <1>0, <2>1 DEF PageInOrder, RequestSound
  <2>3. PageInOrder(r)'
    <3>1. /\ sse[r].next = Len(sse[r].frames) + Len(sse[r].pending) /\ sse[r].next <= net_job[r].log
          /\ \A i \in 1 .. Len(sse[r].frames) : sse[r].frames[i] = i - 1
          /\ \A i \in 1 .. Len(sse[r].pending) : sse[r].pending[i] = Len(sse[r].frames) + i - 1
      BY <1>0 DEF PageInOrder
    <3>2. sse[r].next <= net_job'[r].log
      <4>1. sse[r].next \in Nat
        BY <1>t DEF StreamRecord
      <4>2. sse[r].next <= net_job[r].log
        BY <3>1
      <4>3. net_job'[r].log >= net_job[r].log /\ net_job[r].log \in Nat /\ net_job'[r].log \in Nat
        BY <2>1
      <4> QED
        BY <4>1, <4>2, <4>3
    <3> QED
      BY <2>1, <2>2, <3>1, <3>2 DEF PageInOrder
  <2>4. RequestSound(r)'
    BY <1>0, <2>1, <2>2 DEF RequestSound
  <2> QED
    BY <2>3, <2>4
<1>18. CASE UNCHANGED quota \/ Quota!TokenLapses \/ Quota!OtherCommandRefreshes
  BY <1>1, <1>18 DEF quota, Quota!TokenLapses, Quota!OtherCommandRefreshes
<1>19. ASSUME NEW q \in Asker, q # r,
              \/ Quota!ReadToken(q) \/ Quota!Refused(q) \/ Quota!RefreshProxySession(q)
              \/ \E b \in BOOLEAN : Quota!Rotate(q, b) \/ Quota!ProxyInference(q, b)
                                    \/ Quota!CreateStandardJob(q, b)
              \/ Quota!CallLost(q) \/ Quota!WaitForStandardJob(q) \/ Quota!WaitTimesOut(q)
              \/ Quota!WriteFrame(q) \/ Quota!WriteEnd(q) \/ Quota!StreamDeadline(q)
              \/ Quota!RecoveryOver(q) \/ Quota!ReadStream(q) \/ Quota!StreamAnswered(q)
              \/ Quota!JobGoesOn(q)
       PROVE  (PageInOrder(r) /\ RequestSound(r))'
  BY <1>0, <1>19, OthersStay, RequestSame
<1> QED
  BY <1>2, <1>3, <1>4, <1>6, <1>7, <1>8, <1>9, <1>10, <1>11, <1>12, <1>13, <1>14, <1>15, <1>16,
     <1>17, <1>18, <1>19
  DEF Quota!Next

LEMMA QuotaNext ==
  ASSUME QuotaInv, [Quota!Next]_quota
  PROVE  QuotaInv'
BY QuotaTypes, TokensNext, RequestsNext DEF QuotaInv

\* The invariant says what the runs check.
LEMMA QuotaSafe ==
  ASSUME QuotaInv
  PROVE  Quota!SessionShared /\ Quota!RelayedInOrder /\ Quota!ResultsSettled
<1>1. Quota!Cardinality(write_lock) <= 1
  <2>1. \A S : Quota!Cardinality(S) = Cardinality(S)
    BY DEF Quota!Cardinality, Cardinality
  <2>2. write_lock = {} \/ \E q \in Asker : write_lock = {q}
    BY DEF QuotaInv, LockSound
  <2> QED
    BY <2>1, <2>2, FS_EmptySet, FS_Singleton
<1>2. Quota!SessionShared
  BY <1>1 DEF QuotaInv, TokensSound, Quota!SessionShared
<1>3. ASSUME NEW q \in Streaming
      PROVE  LET shown == sse[q].frames \o sse[q].pending IN
             /\ \A i \in 1 .. Len(shown) : shown[i] = i - 1
             /\ reply[q] = "done" => /\ net_job[q].status = "succeeded"
                                     /\ Len(shown) = net_job[q].log
  <2> DEFINE frames == sse[q].frames
             pending == sse[q].pending
  <2>1. q \in Asker
    BY <1>3, QuotaAssumption
  <2>2. PageInOrder(q) /\ frames \in Seq(Nat) /\ pending \in Seq(Nat)
    BY <2>1 DEF QuotaInv, QuotaType, StreamRecord
  <2>3. /\ sse[q].next = Len(frames) + Len(pending)
        /\ \A i \in 1 .. Len(frames) : frames[i] = i - 1
        /\ \A i \in 1 .. Len(pending) : pending[i] = Len(frames) + i - 1
        /\ reply[q] = "done" => net_job[q].status = "succeeded" /\ sse[q].next = net_job[q].log
    BY <2>2 DEF PageInOrder
  <2> HIDE DEF frames, pending
  <2>4. Len(frames \o pending) = Len(frames) + Len(pending)
        /\ Len(frames) \in Nat /\ Len(pending) \in Nat
    BY <2>2
  <2>5. \A i \in 1 .. Len(frames) + Len(pending) : (frames \o pending)[i] = i - 1
    <3>1. ASSUME NEW i \in 1 .. Len(frames) PROVE (frames \o pending)[i] = i - 1
      BY <2>2, <2>3, <2>4
    <3>2. ASSUME NEW i \in Len(frames) + 1 .. Len(frames) + Len(pending)
          PROVE  (frames \o pending)[i] = i - 1
      <4>1. (frames \o pending)[i] = pending[i - Len(frames)]
        BY <2>2, <2>4
      <4>2. i - Len(frames) \in 1 .. Len(pending)
        BY <2>4
      <4> QED
        BY <2>3, <2>4, <4>1, <4>2
    <3> QED
      BY <2>4, <3>1, <3>2
  <2> QED
    BY <2>3, <2>4, <2>5 DEF frames, pending
<1>4. Quota!RelayedInOrder
  BY <1>3 DEF Quota!RelayedInOrder
<1>5. Quota!ResultsSettled
  BY DEF QuotaInv, RequestSound, Quota!ResultsSettled
<1> QED
  BY <1>2, <1>4, <1>5

\* Concurrent requests of the consumer's proxy lose no session through each
\* other's refreshes, a stream shows the log in order and ends with [DONE] only
\* when all of it was shown (authorized_get, next_proxy_sse_chunk), and a
\* confidential request is sealed to, and opened from, only the runtime whose
\* evidence was verified (verify_prepared_route, decrypt_result): for any
\* number of requests, any page size and any number of attestations.
THEOREM ConsumersAlwaysServed == Spec => []ConsumerServed
<1>1. Init => QuotaInv /\ RegulatedInv
  BY QuotaInit, RegulatedInit DEF Init
<1>2. QuotaInv /\ RegulatedInv /\ [Next]_vars => QuotaInv' /\ RegulatedInv'
  BY PartSteps, QuotaNext, RegulatedNext
<1>3. QuotaInv /\ RegulatedInv => ConsumerServed
  BY QuotaSafe, RegulatedSafe DEF ConsumerServed
<1> QED
  BY <1>1, <1>2, <1>3, PTL DEF Spec
-----------------------------------------------------------------------------
(***************************************************************************)
(* The proxy of the local service.  What is in the slot belongs to the     *)
(* request that holds the gate, to one whose client left while the engine  *)
(* worked, or an erase is still required.                                  *)
(***************************************************************************)
HandlingStep ==
  {"new", "queued", "admitted", "clean", "sent", "streaming", "ended", "failed"}
Tallies == [attempts : Nat, successes : Nat, failures : Nat, completed : Nat, required : BOOLEAN]

ProxyType ==
  /\ handling \in [Request -> HandlingStep]
  /\ gate \in Request \cup {NoRequest}
  /\ required \in BOOLEAN /\ reporting \in BOOLEAN
  /\ counts \in Tallies /\ status_file \in Tallies

\* One request at a time is between the gate and its cleanup.
GateHeld ==
  \A r \in Request : handling[r] \in {"admitted", "clean", "sent", "streaming"} <=> gate = r

\* Whose tokens the slot may hold.
SlotOwned ==
  \/ slot = NoRequest \/ slot \in left_behind \/ required
  \/ slot \in Request /\ handling[slot] \in {"sent", "streaming"}

\* A request that may be sent has found nothing to erase, or erased it.
CleanIsErased == \A r \in Request : handling[r] = "clean" => ~required

\* The counts add up, on disk too, and the file is behind only once a write has failed.
CountsSound ==
  /\ counts.successes + counts.failures = counts.attempts /\ counts.completed <= counts.attempts
  /\ status_file.successes + status_file.failures = status_file.attempts
  /\ status_file.completed <= status_file.attempts
  /\ counts.required = required
  /\ reporting => status_file = counts

ProxyInv == ProxyType /\ GateHeld /\ SlotOwned /\ CleanIsErased /\ CountsSound

LEMMA ProxyInit == Proxy!Init => ProxyInv
<1> SUFFICES ASSUME Proxy!Init PROVE ProxyInv
  OBVIOUS
<1>1. Proxy!NoCounts \in Tallies
  BY DEF Proxy!NoCounts, Tallies
<1>2. ProxyType
  BY <1>1 DEF Proxy!Init, ProxyType, HandlingStep
<1>3. GateHeld /\ SlotOwned /\ CleanIsErased
  BY RequestAssumption DEF Proxy!Init, GateHeld, SlotOwned, CleanIsErased
<1>4. CountsSound
  <2>1. /\ Proxy!NoCounts.successes = 0 /\ Proxy!NoCounts.failures = 0
        /\ Proxy!NoCounts.attempts = 0 /\ Proxy!NoCounts.completed = 0
        /\ Proxy!NoCounts.required = FALSE
    BY DEF Proxy!NoCounts
  <2>2. counts = Proxy!NoCounts /\ status_file = Proxy!NoCounts /\ required = FALSE
    BY DEF Proxy!Init
  <2>3. /\ counts.successes + counts.failures = counts.attempts
        /\ counts.completed <= counts.attempts
    BY <2>1, <2>2
  <2>4. counts.required = required
    BY <2>1, <2>2, Zenon
  <2>5. reporting => status_file = counts
    BY <2>2, Zenon
  <2>6. /\ status_file.successes + status_file.failures = status_file.attempts
        /\ status_file.completed <= status_file.attempts
    BY <2>1, <2>2
  <2> QED
    BY <2>3, <2>4, <2>5, <2>6, Zenon DEF CountsSound
<1> QED
  BY <1>2, <1>3, <1>4 DEF ProxyInv

\* The counts after an erase.
LEMMA CountedNext ==
  ASSUME ProxyType, CountsSound, NEW success \in BOOLEAN, NEW terminal \in BOOLEAN,
         NEW written \in BOOLEAN, Proxy!RecordCleanup(success, terminal, written)
  PROVE  /\ CountsSound' /\ required' = ~success /\ reporting' \in BOOLEAN
         /\ counts' \in Tallies /\ status_file' \in Tallies
<1> DEFINE a == counts.attempts
           s == counts.successes
           f == counts.failures
           d == counts.completed
           x == IF success THEN 1 ELSE 0
           y == IF success THEN 0 ELSE 1
           z == IF terminal THEN 1 ELSE 0
           new == [attempts |-> a + 1, successes |-> s + x, failures |-> f + y,
                   completed |-> d + z, required |-> ~success]
<1>1. a \in Nat /\ s \in Nat /\ f \in Nat /\ d \in Nat /\ s + f = a /\ d <= a
  BY DEF ProxyType, Tallies, CountsSound
<1>2. x \in Nat /\ y \in Nat /\ z \in Nat /\ x + y = 1 /\ z <= 1
  OBVIOUS
<1>3. counts' = new /\ required' = ~success /\ reporting' = (reporting /\ written)
      /\ status_file' = IF written THEN counts' ELSE status_file
  BY DEF Proxy!RecordCleanup
<1> HIDE DEF a, s, f, d, x, y, z
<1>4. /\ a + 1 \in Nat /\ s + x \in Nat /\ f + y \in Nat /\ d + z \in Nat
      /\ (s + x) + (f + y) = a + 1 /\ d + z <= a + 1
  BY <1>1, <1>2
<1>5. new \in Tallies
  BY <1>4 DEF Tallies
<1>6. /\ new.successes + new.failures = new.attempts /\ new.completed <= new.attempts
      /\ new.required = ~success
  BY <1>4
<1> HIDE DEF new
<1>7. CASE written
  BY <1>3, <1>5, <1>6, <1>7 DEF CountsSound, ProxyType
<1>8. CASE ~written
  BY <1>3, <1>5, <1>6, <1>8 DEF CountsSound, ProxyType
<1> QED
  BY <1>7, <1>8

\* A step of the proxy.
LEMMA ProxyNext ==
  ASSUME ProxyInv, [Proxy!Next]_proxy
  PROVE  ProxyInv'
<1> ProxyType /\ GateHeld /\ SlotOwned /\ CleanIsErased /\ CountsSound
  BY DEF ProxyInv
<1> USE RequestAssumption
\* A request moves to the next step, nothing is counted.
<1>1. ASSUME NEW r \in Request, NEW next \in HandlingStep, Proxy!Goes(r, next),
             UNCHANGED <<required, reporting, counts, status_file>>,
             gate' \in Request \cup {NoRequest}, GateHeld', SlotOwned',
             next = "clean" => ~required
      PROVE  ProxyInv'
  <2>1. ProxyType'
    BY <1>1 DEF ProxyType, Proxy!Goes
  <2>2. CleanIsErased' /\ CountsSound'
    BY <1>1 DEF ProxyType, CleanIsErased, CountsSound, Proxy!Goes
  <2> QED
    BY <1>1, <2>1, <2>2 DEF ProxyInv
<1>2. ASSUME NEW r \in Request,
             Proxy!Arrive(r) \/ Proxy!Reject(r) \/ Proxy!AcquireGate(r) \/ Proxy!NothingRequired(r)
             \/ Proxy!ResponseBegins(r)
      PROVE  ProxyInv'
  <2>1. PICK next \in HandlingStep : Proxy!Goes(r, next) /\ (next = "clean" => ~required)
    BY <1>2 DEF Proxy!Arrive, Proxy!Reject, Proxy!AcquireGate, Proxy!NothingRequired,
                Proxy!ResponseBegins, HandlingStep
  <2>2. GateHeld' /\ gate' \in Request \cup {NoRequest}
    BY <1>2 DEF Proxy!Arrive, Proxy!Reject, Proxy!AcquireGate, Proxy!NothingRequired,
                Proxy!ResponseBegins, Proxy!Goes, Proxy!At, GateHeld, ProxyType
  <2>3. SlotOwned' /\ UNCHANGED <<required, reporting, counts, status_file>>
    BY <1>2 DEF Proxy!Arrive, Proxy!Reject, Proxy!AcquireGate, Proxy!NothingRequired,
                Proxy!ResponseBegins, Proxy!Goes, Proxy!At, Proxy!tallies, SlotOwned, ProxyType
  <2> QED
    BY <1>1, <2>1, <2>2, <2>3
<1>3. ASSUME NEW r \in Request, Proxy!Forward(r) PROVE ProxyInv'
  <2>1. PICK next \in {"sent", "failed"} : Proxy!Goes(r, next)
    BY <1>3 DEF Proxy!Forward
  <2>2. GateHeld' /\ gate' \in Request \cup {NoRequest}
    BY <1>3 DEF Proxy!Forward, Proxy!Goes, Proxy!At, Proxy!Release, GateHeld, ProxyType
  <2>3. SlotOwned' /\ UNCHANGED <<required, reporting, counts, status_file>>
    BY <1>3 DEF Proxy!Forward, Proxy!Goes, Proxy!At, Proxy!tallies, SlotOwned, ProxyType
  <2> QED
    BY <1>1, <2>1, <2>2, <2>3 DEF HandlingStep
<1>4. ASSUME NEW r \in Request, Proxy!ClientLeaves(r) PROVE ProxyInv'
  <2>1. Proxy!Goes(r, "failed") /\ UNCHANGED <<required, reporting, counts, status_file, slot>>
    BY <1>4 DEF Proxy!ClientLeaves, Proxy!tallies
  <2>2. GateHeld' /\ gate' \in Request \cup {NoRequest}
    BY <1>4 DEF Proxy!ClientLeaves, Proxy!Goes, Proxy!At, Proxy!Release, GateHeld, ProxyType
  <2>3. SlotOwned'
    BY <1>4, <2>1 DEF Proxy!ClientLeaves, Proxy!Goes, Proxy!At, SlotOwned, ProxyType
  <2> QED
    BY <1>1, <2>1, <2>2, <2>3 DEF HandlingStep
\* An erase was tried and counted.
<1>5. ASSUME NEW r \in Request, NEW success \in BOOLEAN, NEW terminal \in BOOLEAN,
             NEW written \in BOOLEAN, NEW next \in {"clean", "ended", "failed"},
             gate = r, Proxy!RecordCleanup(success, terminal, written), Proxy!EraseSlot(success),
             Proxy!Goes(r, next), left_behind' = left_behind,
             next = "clean" => success /\ gate' = gate, next # "clean" => Proxy!Release(r)
      PROVE  ProxyInv'
  <2>1. /\ CountsSound' /\ required' = ~success /\ reporting' \in BOOLEAN
        /\ counts' \in Tallies /\ status_file' \in Tallies
    BY <1>5, CountedNext
  <2>2. ProxyType'
    BY <1>5, <2>1 DEF ProxyType, HandlingStep, Proxy!Goes, Proxy!Release
  <2>3. GateHeld'
    BY <1>5 DEF GateHeld, ProxyType, Proxy!Goes, Proxy!Release
  <2>4. SlotOwned'
    BY <1>5, <2>1 DEF SlotOwned, Proxy!EraseSlot
  <2>5. CleanIsErased'
    BY <1>5, <2>1 DEF CleanIsErased, GateHeld, ProxyType, Proxy!Goes
  <2> QED
    BY <2>1, <2>2, <2>3, <2>4, <2>5 DEF ProxyInv
<1>6. ASSUME NEW r \in Request, NEW success \in BOOLEAN, NEW written \in BOOLEAN,
             Proxy!RetryErase(r, success, written)
      PROVE  ProxyInv'
  <2>1. gate = r
    BY <1>6 DEF Proxy!RetryErase, Proxy!At, GateHeld
  <2>2. CASE success /\ written
    BY <1>5, <1>6, <2>1, <2>2 DEF Proxy!RetryErase
  <2>3. CASE ~(success /\ written)
    BY <1>5, <1>6, <2>1, <2>3 DEF Proxy!RetryErase
  <2> QED
    BY <2>2, <2>3
<1>7. ASSUME NEW r \in Request, NEW success \in BOOLEAN, NEW written \in BOOLEAN,
             Proxy!CleanupAfterTerminal(r, success, written)
      PROVE  ProxyInv'
  <2>1. gate = r
    BY <1>7 DEF Proxy!CleanupAfterTerminal, Proxy!At, GateHeld
  <2> QED
    BY <1>5, <1>7, <2>1 DEF Proxy!CleanupAfterTerminal
<1>8. CASE Proxy!EngineDies
  BY <1>8 DEF Proxy!EngineDies, Proxy!tallies, ProxyInv, ProxyType, GateHeld, SlotOwned,
              CleanIsErased, CountsSound
<1>9. CASE UNCHANGED proxy
  BY <1>9 DEF proxy, ProxyInv, ProxyType, GateHeld, SlotOwned, CleanIsErased, CountsSound
<1> QED
  BY <1>2, <1>3, <1>4, <1>6, <1>7, <1>8, <1>9 DEF Proxy!Next

\* The invariant holds in every state.
LEMMA ProxyHolds == Spec => []ProxyInv
<1>1. Init => ProxyInv
  BY ProxyInit DEF Init
<1>2. ProxyInv /\ [Next]_vars => ProxyInv'
  BY PartSteps, ProxyNext
<1> QED
  BY <1>1, <1>2, PTL DEF Spec

\* No request is sent to an engine that still holds the tokens of another,
\* unless that one's client left while the engine worked, whichever erases fail,
\* are tried again or lose their receipt (retry_pending_cleanup,
\* cleanup_after_terminal), for any number of requests.
THEOREM SlotAlwaysStartsClean == Spec => SlotStartsClean
<1>1. ProxyInv /\ [Next]_vars =>
        [\A r \in Request : (handling[r] # "sent" /\ handling'[r] = "sent")
           => slot \in {NoRequest} \cup left_behind]_(Proxy!vars)
  <2> SUFFICES ASSUME ProxyInv, Proxy!Next, NEW r \in Request, handling[r] # "sent",
                      handling'[r] = "sent"
               PROVE  slot \in {NoRequest} \cup left_behind
    BY PartSteps DEF proxy, Proxy!vars
  <2> ProxyType /\ GateHeld /\ SlotOwned /\ CleanIsErased
    BY DEF ProxyInv
  <2>1. handling[r] = "clean"
    BY DEF Proxy!Next, Proxy!Arrive, Proxy!Reject, Proxy!AcquireGate, Proxy!NothingRequired,
           Proxy!Forward, Proxy!ResponseBegins, Proxy!ClientLeaves, Proxy!RetryErase,
           Proxy!CleanupAfterTerminal, Proxy!EngineDies, Proxy!Goes, Proxy!At, ProxyType
  <2>2. ~required /\ gate = r
    BY <2>1 DEF CleanIsErased, GateHeld
  <2> QED
    BY <2>1, <2>2 DEF SlotOwned, GateHeld
<1> QED
  BY <1>1, ProxyHolds, PTL DEF Spec, SlotStartsClean, Proxy!StartsClean

\* What `serve status' and `serve stop' read is accepted, and a stop that
\* reports every cleanup as confirmed leaves no tokens of a request the file
\* counts (read_cleanup_status, finish_stop).
THEOREM StopsAlwaysConfirmed == Spec => []Proxy!ConfirmedIsClean
<1>1. ProxyInv => Proxy!ConfirmedIsClean
  <2> SUFFICES ASSUME ProxyInv PROVE Proxy!ConfirmedIsClean
    OBVIOUS
  <2> ProxyType /\ GateHeld /\ SlotOwned /\ CountsSound
    BY DEF ProxyInv
  <2>1. Proxy!StatusAccepted
    BY DEF CountsSound, Proxy!StatusAccepted
  <2>2. ASSUME Proxy!CleanupConfirmed, reporting, gate = NoRequest
        PROVE  slot \in {NoRequest} \cup left_behind
    <3>1. ~required
      BY <2>2 DEF Proxy!CleanupConfirmed, CountsSound
    <3>2. \A r \in Request : handling[r] \notin {"sent", "streaming"}
      BY <2>2, RequestAssumption DEF GateHeld
    <3> QED
      BY <3>1, <3>2 DEF SlotOwned
  <2> QED
    BY <2>1, <2>2 DEF Proxy!ConfirmedIsClean
<1> QED
  BY <1>1, ProxyHolds, PTL
-----------------------------------------------------------------------------
(***************************************************************************)
(* Engines.  A command beyond "resolved" holds the lock of its release,    *)
(* and only the command that made a directory under that lock enters it in *)
(* the registry.  What it unpacked is a release with the name of its own   *)
(* archive, which has passed its probe.                                    *)
(***************************************************************************)
BeforeLock == {"idle", "resolved"}
Archiving == {"missing", "cached", "stale", "downloaded"}
UnderLock == Archiving \cup {"locked", "pulled", "staged", "probed", "renamed"}
InstallRecord ==
  [at : BeforeLock \cup UnderLock, release : Release \cup {Absent},
   content : Engines!Content \cup {Absent}]

EngineType ==
  /\ installs \in [Installer -> InstallRecord]
  /\ version_lock \in [Release -> Installer \cup {Absent}]
  /\ cache \in [Engines!Asset -> Engines!Content \cup {Absent}]
  /\ directory \in [Release -> Engines!Content \cup {Absent}]
  /\ registry \in [Release -> Engines!Content \cup {Absent}]

\* What may be unpacked for a release, and what passes its probe.
SameArchive(r) ==
  {c \in Release : AssetOf[c] = AssetOf[r] /\ (KindOf[r] = "container" => c = r)}
Probed(r) == {c \in SameArchive(r) : KindOf[r] = "ollama" => <<c, r>> \in Mentions}

\* The command knows what it has reached.
InstallSound(p) ==
  LET w == installs[p] IN
  /\ w.at # "idle" => w.release \in Release
  /\ w.at # "idle" /\ KindOf[w.release] = "container" => w.content = w.release
  /\ w.at \in Archiving => KindOf[w.release] # "container"
  /\ w.at = "pulled" => KindOf[w.release] = "container"
  /\ w.at \in UnderLock => version_lock[w.release] = p
  /\ w.at = "staged" => w.content \in SameArchive(w.release)
  /\ w.at \in {"probed", "renamed"} => w.content \in Probed(w.release)
  /\ w.at = "renamed" => registry[w.release] = Absent /\ directory[w.release] = w.content

\* A file in the cache is Damaged or an archive of its name.
CacheNamed == \A a \in Engines!Asset : cache[a] \in Release => AssetOf[cache[a]] = a

\* What is registered was probed, and its directory is there.
RegistrySound ==
  \A r \in Release : registry[r] # Absent => directory[r] # Absent /\ registry[r] \in Probed(r)

EngineInv ==
  EngineType /\ CacheNamed /\ RegistrySound /\ \A p \in Installer : InstallSound(p)

LEMMA EngineInit == Engines!Init => EngineInv
<1> SUFFICES ASSUME Engines!Init PROVE EngineInv
  OBVIOUS
<1>1. Engines!Idle \in InstallRecord /\ Engines!Idle.at = "idle"
  BY DEF Engines!Idle, InstallRecord, BeforeLock
<1>2. EngineType
  BY <1>1 DEF Engines!Init, EngineType
<1>3. CacheNamed /\ RegistrySound
  BY EngineAssumption DEF Engines!Init, CacheNamed, RegistrySound
<1>4. \A p \in Installer : InstallSound(p)
  BY <1>1 DEF Engines!Init, InstallSound, UnderLock, Archiving
<1> QED
  BY <1>2, <1>3, <1>4 DEF EngineInv

\* A command's record with another step, and the record of one that ended.
LEMMA InstallKinds ==
  ASSUME NEW w \in InstallRecord
  PROVE  /\ Engines!Idle \in InstallRecord /\ Engines!Idle.at = "idle"
         /\ w.at \in BeforeLock \cup UnderLock /\ w.release \in Release \cup {Absent}
         /\ w.content \in Engines!Content \cup {Absent}
  BY DEF InstallRecord, Engines!Idle, BeforeLock

\* The command of p moves to another step.
LEMMA StepMoves ==
  ASSUME EngineType, NEW p \in Installer, NEW step \in BeforeLock \cup UnderLock,
         installs' = [installs EXCEPT ![p].at = step]
  PROVE  /\ installs' \in [Installer -> InstallRecord]
         /\ installs'[p].at = step /\ installs'[p].release = installs[p].release
         /\ installs'[p].content = installs[p].content
         /\ \A q \in Installer : q # p => installs'[q] = installs[q]
<1>1. [installs[p] EXCEPT !.at = step] \in InstallRecord
  BY DEF EngineType, InstallRecord
<1>2. installs' = [installs EXCEPT ![p] = [installs[p] EXCEPT !.at = step]]
  BY DEF EngineType
<1> QED
  BY <1>1, <1>2 DEF EngineType, InstallRecord

\* The command of p ends.
LEMMA CommandEnds ==
  ASSUME EngineType, NEW p \in Installer, Engines!Ends(p)
  PROVE  /\ installs' \in [Installer -> InstallRecord]
         /\ version_lock' \in [Release -> Installer \cup {Absent}]
         /\ installs'[p].at = "idle"
         /\ \A q \in Installer : q # p => installs'[q] = installs[q]
         /\ \A r \in Release, q \in Installer :
              q # p /\ version_lock[r] = q => version_lock'[r] = q
<1>1. Engines!Idle \in InstallRecord /\ Engines!Idle.at = "idle"
  BY DEF Engines!Idle, InstallRecord, BeforeLock
<1> QED
  BY <1>1 DEF EngineType, Engines!Ends

\* The other commands hold the locks of their own releases.
LEMMA OthersInstalls ==
  ASSUME EngineInv, NEW p \in Installer,
         \A q \in Installer : q # p => installs'[q] = installs[q],
         \A r \in Release, q \in Installer :
           q # p /\ version_lock[r] = q => version_lock'[r] = q,
         \A r \in Release : version_lock[r] # p =>
           registry'[r] = registry[r] /\ directory'[r] = directory[r]
  PROVE  \A q \in Installer : q # p => InstallSound(q)'
<1> TAKE q \in Installer
<1> HAVE q # p
<1>1. InstallSound(q) /\ installs'[q] = installs[q] /\ EngineType
  BY DEF EngineInv
<1>2. installs[q].at \in UnderLock =>
        /\ installs[q].release \in Release /\ version_lock[installs[q].release] = q
        /\ version_lock'[installs[q].release] = q
  BY <1>1 DEF InstallSound, UnderLock, Archiving
<1>3. installs[q].at = "renamed" =>
        /\ registry'[installs[q].release] = registry[installs[q].release]
        /\ directory'[installs[q].release] = directory[installs[q].release]
  BY <1>2 DEF UnderLock, Archiving
<1> QED
  BY <1>1, <1>2, <1>3 DEF InstallSound

\* A step of one command keeps what it and the others know.
LEMMA InstallStep ==
  ASSUME EngineInv, NEW p \in Installer, Engines!Step(p)
  PROVE  EngineInv'
<1> EngineType /\ InstallSound(p) /\ CacheNamed /\ RegistrySound
  BY DEF EngineInv
<1> /\ BeforeLock \cup UnderLock =
         {"idle", "resolved", "missing", "cached", "stale", "downloaded", "locked", "pulled",
          "staged", "probed", "renamed"}
  BY DEF BeforeLock, UnderLock, Archiving
<1>0. /\ version_lock \in [Release -> Installer \cup {Absent}]
      /\ cache \in [Engines!Asset -> Engines!Content \cup {Absent}]
      /\ directory \in [Release -> Engines!Content \cup {Absent}]
      /\ registry \in [Release -> Engines!Content \cup {Absent}]
      /\ installs[p].release \in Release \cup {Absent}
      /\ installs[p].content \in Engines!Content \cup {Absent}
  BY InstallKinds DEF EngineType
<1>1. ASSUME NEW r \in Release, Engines!ResolveRelease(p, r)
      PROVE  EngineInv'
  <2> DEFINE w == [at |-> "resolved", release |-> r, content |-> Engines!PlatformDigest(r)]
  <2>1. w \in InstallRecord
    BY DEF InstallRecord, BeforeLock, Engines!PlatformDigest, Engines!Content
  <2>2. /\ w.at = "resolved" /\ w.release = r
        /\ KindOf[r] = "container" => w.content = r
    BY DEF Engines!PlatformDigest
  <2>3. /\ installs' = [installs EXCEPT ![p] = w]
        /\ UNCHANGED <<version_lock, cache, directory, registry>>
    BY <1>1 DEF Engines!ResolveRelease, Engines!disk, Engines!book
  <2> HIDE DEF w
  <2>4. /\ installs' \in [Installer -> InstallRecord] /\ installs'[p] = w
        /\ \A q \in Installer : q # p => installs'[q] = installs[q]
    BY <2>1, <2>3 DEF EngineType
  <2>5. \A q \in Installer : q # p => InstallSound(q)'
    BY <2>3, <2>4, OthersInstalls
  <2>6. InstallSound(p)'
    BY <2>2, <2>4 DEF InstallSound, UnderLock, Archiving
  <2> QED
    BY <2>3, <2>4, <2>5, <2>6 DEF EngineInv, EngineType, CacheNamed, RegistrySound
\* The record and the lock it has afterwards, and that nothing else of the
\* registry or a directory moves.
<1>2. CASE Engines!AcquireInstallLock(p)
  <2> DEFINE r == installs[p].release
  <2>1. /\ installs[p].at = "resolved" /\ version_lock[r] = Absent
        /\ version_lock' = [version_lock EXCEPT ![r] = p]
        /\ installs' = [installs EXCEPT ![p].at = "locked"]
        /\ UNCHANGED <<cache, directory, registry>>
    BY <1>2 DEF Engines!AcquireInstallLock, Engines!At, Engines!Moves, Engines!disk, Engines!book
  <2>2. r \in Release
    BY <2>1 DEF InstallSound
  <2>3. /\ installs' \in [Installer -> InstallRecord]
        /\ installs'[p].at = "locked" /\ installs'[p].release = r
        /\ installs'[p].content = installs[p].content
        /\ \A q \in Installer : q # p => installs'[q] = installs[q]
    BY <2>1, StepMoves
  <2>4. version_lock' \in [Release -> Installer \cup {Absent}] /\ version_lock'[r] = p
    BY <1>0, <2>1, <2>2
  <2>5. \A s \in Release, q \in Installer :
          q # p /\ version_lock[s] = q => version_lock'[s] = q
    BY <1>0, <2>1, EngineAssumption
  <2>6. \A q \in Installer : q # p => InstallSound(q)'
    BY <2>1, <2>3, <2>5, OthersInstalls
  <2>7. InstallSound(p)'
    BY <2>1, <2>2, <2>3, <2>4 DEF InstallSound, UnderLock, Archiving
  <2> QED
    BY <2>1, <2>3, <2>4, <2>6, <2>7 DEF EngineInv, EngineType, CacheNamed, RegistrySound
<1>3. CASE Engines!Exact(p) \/ Engines!DiscardDownload(p) \/ Engines!InstallFails(p)
           \/ Engines!Upsert(p)
  <2> DEFINE r == installs[p].release
  <2>1. Engines!Ends(p) /\ UNCHANGED directory
    BY <1>3 DEF Engines!Exact, Engines!DiscardDownload, Engines!InstallFails, Engines!Upsert,
                Engines!disk, Engines!book
  <2>2. /\ installs' \in [Installer -> InstallRecord]
        /\ version_lock' \in [Release -> Installer \cup {Absent}]
        /\ installs'[p].at = "idle"
        /\ \A q \in Installer : q # p => installs'[q] = installs[q]
        /\ \A s \in Release, q \in Installer :
             q # p /\ version_lock[s] = q => version_lock'[s] = q
    BY <2>1, CommandEnds
  <2>3. /\ cache' \in [Engines!Asset -> Engines!Content \cup {Absent}] /\ CacheNamed'
    <3>1. CASE Engines!DiscardDownload(p)
      <4>1. /\ installs[p].at = "downloaded"
            /\ cache' = [cache EXCEPT ![AssetOf[r]] = Absent]
        BY <3>1 DEF Engines!DiscardDownload, Engines!At
      <4> QED
        BY <4>1, <1>0, EngineAssumption DEF CacheNamed
    <3>2. CASE UNCHANGED cache
      BY <3>2, <1>0 DEF CacheNamed
    <3> QED
      BY <1>3, <3>1, <3>2 DEF Engines!Exact, Engines!InstallFails, Engines!Upsert, Engines!disk
  <2>4. /\ registry' \in [Release -> Engines!Content \cup {Absent}] /\ RegistrySound'
        /\ \A s \in Release : version_lock[s] # p => registry'[s] = registry[s]
    <3>1. CASE Engines!Upsert(p)
      <4>1. /\ installs[p].at = "renamed" /\ directory[r] # Absent
            /\ registry' = [registry EXCEPT ![r] = directory[r]]
        BY <3>1 DEF Engines!Upsert, Engines!At, Engines!Manifest
      <4>2. /\ r \in Release /\ version_lock[r] = p /\ directory[r] = installs[p].content
            /\ installs[p].content \in Probed(r)
        BY <4>1 DEF InstallSound, UnderLock
      <4>3. registry' \in [Release -> Engines!Content \cup {Absent}]
        BY <4>1, <4>2, <1>0
      <4>4. RegistrySound'
        BY <4>1, <4>2, <2>1, <1>0 DEF RegistrySound
      <4> QED
        BY <4>1, <4>2, <4>3, <4>4, <1>0
    <3>2. CASE UNCHANGED registry
      BY <3>2, <2>1, <1>0 DEF RegistrySound
    <3> QED
      BY <1>3, <3>1, <3>2
         DEF Engines!Exact, Engines!DiscardDownload, Engines!InstallFails, Engines!book
  <2>5. \A q \in Installer : q # p => InstallSound(q)'
    BY <2>1, <2>2, <2>4, OthersInstalls
  <2>6. InstallSound(p)'
    BY <2>2 DEF InstallSound, UnderLock, Archiving
  <2> QED
    BY <2>1, <2>2, <2>3, <2>4, <2>5, <2>6, <1>0 DEF EngineInv, EngineType
\* The command goes on to a step with the lock it has.
<1>4. ASSUME NEW step \in UnderLock, installs' = [installs EXCEPT ![p].at = step],
             installs[p].at \in UnderLock,
             UNCHANGED <<version_lock, directory, registry>>,
             cache' \in [Engines!Asset -> Engines!Content \cup {Absent}] /\ CacheNamed',
             step \in Archiving => KindOf[installs[p].release] # "container",
             step = "pulled" => KindOf[installs[p].release] = "container",
             step = "staged" => installs[p].content \in SameArchive(installs[p].release),
             step = "probed" => installs[p].content \in Probed(installs[p].release),
             step # "renamed"
      PROVE  EngineInv'
  <2>1. /\ installs' \in [Installer -> InstallRecord]
        /\ installs'[p].at = step /\ installs'[p].release = installs[p].release
        /\ installs'[p].content = installs[p].content
        /\ \A q \in Installer : q # p => installs'[q] = installs[q]
    BY <1>4, StepMoves
  <2>2. /\ installs[p].release \in Release /\ version_lock[installs[p].release] = p
        /\ KindOf[installs[p].release] = "container"
             => installs[p].content = installs[p].release
    BY <1>4 DEF InstallSound, UnderLock, Archiving
  <2>3. \A q \in Installer : q # p => InstallSound(q)'
    BY <1>4, <2>1, OthersInstalls
  <2>4. InstallSound(p)'
    BY <1>4, <2>1, <2>2 DEF InstallSound
  <2> QED
    BY <1>4, <2>1, <2>3, <2>4, <1>0 DEF EngineInv, EngineType, RegistrySound
<1>5. CASE Engines!PrepareCachedAsset(p)
  <2> DEFINE r == installs[p].release
             step == IF cache[AssetOf[r]] = Absent THEN "missing"
                     ELSE IF cache[AssetOf[r]] = Engines!ReleaseChecksum(r) THEN "cached"
                     ELSE "stale"
  <2>1. /\ installs[p].at = "locked" /\ KindOf[r] # "container"
        /\ installs' = [installs EXCEPT ![p].at = step]
        /\ UNCHANGED <<version_lock, directory, registry, cache>>
    BY <1>5 DEF Engines!PrepareCachedAsset, Engines!At, Engines!Moves, Engines!disk, Engines!book
  <2>2. step \in Archiving
    BY DEF Archiving
  <2>3. step \in UnderLock /\ installs[p].at \in UnderLock /\ step \notin {"pulled", "staged", "probed", "renamed"}
    BY <2>1, <2>2 DEF UnderLock, Archiving
  <2> HIDE DEF step
  <2> QED
    BY <2>1, <2>2, <2>3, <1>0, <1>4 DEF CacheNamed
<1>6. CASE Engines!RemoveStale(p)
  <2>1. /\ installs[p].at = "stale"
        /\ cache' = [cache EXCEPT ![AssetOf[installs[p].release]] = Absent]
        /\ installs' = [installs EXCEPT ![p].at = "missing"]
        /\ UNCHANGED <<version_lock, directory, registry>>
    BY <1>6 DEF Engines!RemoveStale, Engines!At, Engines!Moves, Engines!book
  <2>2. KindOf[installs[p].release] # "container"
    BY <2>1 DEF InstallSound, Archiving
  <2>3. cache' \in [Engines!Asset -> Engines!Content \cup {Absent}] /\ CacheNamed'
    BY <2>1, <1>0, EngineAssumption DEF CacheNamed
  <2> QED
    BY <2>1, <2>2, <2>3, <1>4 DEF UnderLock, Archiving
<1>7. ASSUME NEW content \in Engines!Content, Engines!DownloadAsset(p, content)
      PROVE  EngineInv'
  <2> DEFINE r == installs[p].release
  <2>1. /\ installs[p].at = "missing" /\ content \in {r, Damaged}
        /\ cache' = [cache EXCEPT ![AssetOf[r]] = content]
        /\ installs' = [installs EXCEPT ![p].at = "downloaded"]
        /\ UNCHANGED <<version_lock, directory, registry>>
    BY <1>7 DEF Engines!DownloadAsset, Engines!At, Engines!Moves, Engines!book
  <2>2. KindOf[r] # "container" /\ r \in Release
    BY <2>1 DEF InstallSound, Archiving
  <2>3. cache' \in [Engines!Asset -> Engines!Content \cup {Absent}] /\ CacheNamed'
    BY <2>1, <2>2, <1>0, EngineAssumption DEF CacheNamed
  <2> QED
    BY <2>1, <2>2, <2>3, <1>4 DEF UnderLock, Archiving
<1>8. CASE Engines!VerifyDownload(p)
  <2>1. /\ installs[p].at = "downloaded"
        /\ installs' = [installs EXCEPT ![p].at = "cached"]
        /\ UNCHANGED <<version_lock, directory, registry, cache>>
    BY <1>8 DEF Engines!VerifyDownload, Engines!At, Engines!Moves, Engines!disk, Engines!book
  <2>2. KindOf[installs[p].release] # "container"
    BY <2>1 DEF InstallSound, Archiving
  <2> QED
    BY <2>1, <2>2, <1>0, <1>4 DEF UnderLock, Archiving, CacheNamed
<1>9. CASE Engines!ExtractArchive(p)
  <2> DEFINE r == installs[p].release
             c == cache[AssetOf[r]]
             w == [installs[p] EXCEPT !.at = "staged", !.content = c]
  <2>1. /\ installs[p].at = "cached" /\ c \in Release
        /\ installs' = [installs EXCEPT ![p].at = "staged", ![p].content = c]
        /\ UNCHANGED <<version_lock, directory, registry, cache>>
    BY <1>9 DEF Engines!ExtractArchive, Engines!At, Engines!disk, Engines!book
  <2>2. KindOf[r] # "container" /\ r \in Release /\ version_lock[r] = p
    BY <2>1 DEF InstallSound, UnderLock, Archiving
  <2>3. c \in SameArchive(r)
    <3>1. AssetOf[r] \in Engines!Asset
      BY <2>2 DEF Engines!Asset
    <3> QED
      BY <3>1, <2>1, <2>2 DEF CacheNamed, SameArchive
  <2>4. w \in InstallRecord /\ w.at = "staged" /\ w.content = c /\ w.release = r
    BY <2>1 DEF EngineType, InstallRecord, UnderLock, Engines!Content
  <2>5. installs' = [installs EXCEPT ![p] = w]
    BY <2>1 DEF EngineType
  <2> HIDE DEF w, c
  <2>6. /\ installs' \in [Installer -> InstallRecord] /\ installs'[p] = w
        /\ \A q \in Installer : q # p => installs'[q] = installs[q]
    BY <2>4, <2>5 DEF EngineType
  <2>7. \A q \in Installer : q # p => InstallSound(q)'
    BY <2>1, <2>6, OthersInstalls
  <2>8. InstallSound(p)'
    BY <2>1, <2>2, <2>3, <2>4, <2>6 DEF InstallSound, UnderLock, Archiving
  <2> QED
    BY <2>1, <2>6, <2>7, <2>8, <1>0 DEF EngineInv, EngineType, CacheNamed, RegistrySound
<1>10. ASSUME NEW image \in Engines!Content, Engines!PullImage(p, image)
       PROVE  EngineInv'
  <2>1. /\ installs[p].at = "locked" /\ KindOf[installs[p].release] = "container"
        /\ installs' = [installs EXCEPT ![p].at = "pulled"]
        /\ UNCHANGED <<version_lock, directory, registry, cache>>
    BY <1>10 DEF Engines!PullImage, Engines!At, Engines!Moves, Engines!disk, Engines!book
  <2> QED
    BY <2>1, <1>0, <1>4 DEF UnderLock, Archiving, CacheNamed
<1>11. CASE Engines!SaveBundle(p)
  <2>1. /\ installs[p].at = "pulled"
        /\ installs' = [installs EXCEPT ![p].at = "staged"]
        /\ UNCHANGED <<version_lock, directory, registry, cache>>
    BY <1>11 DEF Engines!SaveBundle, Engines!At, Engines!Moves, Engines!disk, Engines!book
  <2>2. installs[p].content \in SameArchive(installs[p].release)
    BY <2>1 DEF InstallSound, SameArchive
  <2> QED
    BY <2>1, <2>2, <1>0, <1>4 DEF UnderLock, Archiving, CacheNamed
<1>12. CASE Engines!ProbeEngine(p)
  <2>1. /\ installs[p].at = "staged"
        /\ KindOf[installs[p].release] = "ollama"
             => <<installs[p].content, installs[p].release>> \in Mentions
        /\ installs' = [installs EXCEPT ![p].at = "probed"]
        /\ UNCHANGED <<version_lock, directory, registry, cache>>
    BY <1>12 DEF Engines!ProbeEngine, Engines!At, Engines!Moves, Engines!disk, Engines!book
  <2>2. installs[p].content \in Probed(installs[p].release)
    BY <2>1 DEF InstallSound, Probed
  <2> QED
    BY <2>1, <2>2, <1>0, <1>4 DEF UnderLock, Archiving, CacheNamed
<1>13. CASE Engines!RenameIntoPlace(p)
  <2> DEFINE r == installs[p].release
  <2>1. /\ installs[p].at = "probed" /\ directory[r] = Absent
        /\ directory' = [directory EXCEPT ![r] = installs[p].content]
        /\ installs' = [installs EXCEPT ![p].at = "renamed"]
        /\ UNCHANGED <<version_lock, cache, registry>>
    BY <1>13 DEF Engines!RenameIntoPlace, Engines!At, Engines!Moves, Engines!book
  <2>2. /\ r \in Release /\ version_lock[r] = p /\ installs[p].content \in Probed(r)
        /\ KindOf[r] = "container" => installs[p].content = r
        /\ registry[r] = Absent
    BY <2>1 DEF InstallSound, UnderLock, RegistrySound
  <2>3. /\ installs' \in [Installer -> InstallRecord]
        /\ installs'[p].at = "renamed" /\ installs'[p].release = r
        /\ installs'[p].content = installs[p].content
        /\ \A q \in Installer : q # p => installs'[q] = installs[q]
    BY <2>1, StepMoves DEF UnderLock
  <2>4. directory' \in [Release -> Engines!Content \cup {Absent}]
    BY <1>0, <2>1
  <2>5. RegistrySound'
    BY <1>0, <2>1, <2>2 DEF RegistrySound
  <2>6. \A q \in Installer : q # p => InstallSound(q)'
    BY <2>1, <2>2, <2>3, <1>0, OthersInstalls
  <2>7. InstallSound(p)'
    BY <2>1, <2>2, <2>3, <1>0 DEF InstallSound, UnderLock, Archiving
  <2> QED
    BY <2>1, <2>3, <2>4, <2>5, <2>6, <2>7, <1>0 DEF EngineInv, EngineType, CacheNamed
<1> QED
  BY <1>1, <1>2, <1>3, <1>5, <1>6, <1>7, <1>8, <1>9, <1>10, <1>11, <1>12, <1>13
     DEF Engines!Step

LEMMA EngineNext == EngineInv /\ [Engines!Next]_engines => EngineInv'
<1> SUFFICES ASSUME EngineInv, [Engines!Next]_engines PROVE EngineInv'
  OBVIOUS
<1>1. CASE UNCHANGED engines
  <2>1. UNCHANGED <<installs, version_lock, cache, directory, registry>>
    BY <1>1 DEF engines
  <2> QED
    BY <2>1 DEF EngineInv, EngineType, CacheNamed, RegistrySound, InstallSound
<1>2. ASSUME NEW p \in Installer, Engines!Step(p)
      PROVE  EngineInv'
  BY <1>2, InstallStep
<1>3. ASSUME NEW r \in Release, Engines!SetDefault(r)
      PROVE  EngineInv'
  <2>1. UNCHANGED <<installs, version_lock, cache, directory, registry>>
    BY <1>3 DEF Engines!SetDefault, Engines!disk
  <2> QED
    BY <2>1 DEF EngineInv, EngineType, CacheNamed, RegistrySound, InstallSound
\* A directory that changes is of a registered engine, so nobody installs it.
<1>4. ASSUME NEW r \in Release, Engines!FilesChange(r)
      PROVE  EngineInv'
  <2>1. /\ registry[r] # Absent /\ directory' = [directory EXCEPT ![r] = Damaged]
        /\ UNCHANGED <<installs, version_lock, cache, registry>>
    BY <1>4 DEF Engines!FilesChange, Engines!book
  <2> EngineType /\ CacheNamed /\ RegistrySound
    BY DEF EngineInv
  <2>2. directory' \in [Release -> Engines!Content \cup {Absent}]
    BY <2>1 DEF EngineType, Engines!Content
  <2>3. RegistrySound'
    BY <2>1, EngineAssumption DEF RegistrySound, EngineType
  <2>4. \A p \in Installer : InstallSound(p)'
    BY <2>1 DEF EngineInv, InstallSound, EngineType
  <2> QED
    BY <2>1, <2>2, <2>3, <2>4 DEF EngineInv, EngineType, CacheNamed
<1> QED
  BY <1>1, <1>2, <1>3, <1>4 DEF Engines!Next

\* The invariant holds in every state.
LEMMA EngineHolds == Spec => []EngineInv
<1>1. Init => EngineInv
  BY EngineInit DEF Init
<1>2. EngineInv /\ [Next]_vars => EngineInv'
  BY PartSteps, EngineNext
<1> QED
  BY <1>1, <1>2, PTL DEF Spec

\* However many installations replace each other's archive in the cache between its
\* verification and its extraction, and whatever the versions print: an engine is
\* registered, and offered to be started, with the files of its own release or of
\* one with the same archive name that the probe cannot tell from it, never with
\* damaged ones and, of an image, never with another (probe_native_engine, upsert,
\* verify_integrity_inner), for any number of commands.  The proof knows nothing
\* of which versions contain which.
THEOREM InstalledAlwaysAsProbed == Spec => []Engines!InstalledAsProbed
<1>1. ASSUME EngineInv PROVE Engines!InstalledAsProbed
  <2> RegistrySound /\ EngineType
    BY <1>1 DEF EngineInv
  <2>1. ASSUME NEW r \in Release PROVE Probed(r) \subseteq Engines!TakenFor(r)
    BY DEF Probed, SameArchive, Engines!TakenFor
  <2> SUFFICES ASSUME NEW r \in Release
               PROVE  /\ registry[r] \in {Absent} \cup Engines!TakenFor(r)
                      /\ Engines!Offered(r) => directory[r] \in Engines!TakenFor(r)
    BY DEF Engines!InstalledAsProbed
  <2>2. registry[r] # Absent => registry[r] \in Engines!TakenFor(r)
    BY <2>1 DEF RegistrySound
  <2>3. Engines!Offered(r) => registry[r] # Absent /\ directory[r] = registry[r]
    BY DEF Engines!Offered, Engines!VerifyIntegrity, Engines!Manifest
  <2> QED
    BY <2>2, <2>3
<1> QED
  BY <1>1, EngineHolds, PTL

\* A record is made by the command that made the directory, under the lock.
LEMMA NeverAdoptedHolds == Spec => Engines!NeverAdopted
<1>1. EngineInv /\ [Next]_vars =>
        [\A r \in Release : registry'[r] # registry[r] =>
           \E p \in Installer : version_lock[r] = p /\ Engines!At(p, "renamed")
                                /\ installs[p].release = r /\ registry[r] = Absent]_(Engines!vars)
  <2> SUFFICES ASSUME EngineInv, Engines!Next, NEW r \in Release, registry'[r] # registry[r]
               PROVE  \E p \in Installer : version_lock[r] = p /\ Engines!At(p, "renamed")
                                /\ installs[p].release = r /\ registry[r] = Absent
    BY PartSteps DEF engines, Engines!vars
  <2>1. PICK p \in Installer : Engines!Upsert(p)
    <3>1. ASSUME NEW s \in Release, Engines!SetDefault(s) \/ Engines!FilesChange(s)
          PROVE  FALSE
      BY <3>1 DEF Engines!SetDefault, Engines!FilesChange, Engines!book
    <3>2. PICK p \in Installer : Engines!Step(p)
      BY <3>1 DEF Engines!Next
    <3>3. Engines!Upsert(p)
      BY <3>2 DEF Engines!Step, Engines!ResolveRelease, Engines!AcquireInstallLock, Engines!Exact,
         Engines!PrepareCachedAsset, Engines!RemoveStale, Engines!DownloadAsset,
         Engines!PullImage, Engines!VerifyDownload, Engines!DiscardDownload,
         Engines!ExtractArchive, Engines!SaveBundle, Engines!ProbeEngine,
         Engines!RenameIntoPlace, Engines!InstallFails, Engines!book
    <3> QED
      BY <3>2, <3>3
  <2>2. InstallSound(p) /\ EngineType
    BY DEF EngineInv
  <2>3. /\ Engines!At(p, "renamed") /\ installs[p].at = "renamed"
        /\ registry' = [registry EXCEPT ![installs[p].release] = Engines!Manifest(installs[p].release)]
    BY <2>1 DEF Engines!Upsert, Engines!At
  <2>4. installs[p].release = r
    BY <2>2, <2>3 DEF EngineType
  <2> QED
    BY <2>2, <2>3, <2>4 DEF InstallSound, UnderLock
<1> QED
  BY <1>1, EngineHolds, PTL DEF Spec, Engines!NeverAdopted
-----------------------------------------------------------------------------
(***************************************************************************)
(* The model store.  Two deletions never hold one record: the file of a    *)
(* record waits in its quarantine for the deletion that moved it there,    *)
(* and a record that is gone is not registered again while a deletion may  *)
(* still restore it.  A checksum goes from a download's request into its   *)
(* report, from the report into the record, and from the record into what  *)
(* a verification or a deletion will write back; nobody else changes what  *)
(* an id stands for while one of them still holds that id.                 *)
(***************************************************************************)
Checksum == Store!Weights \cup {None}
DeleteRecord ==
  [at : {"idle", "asked", "moved", "removed", "restored"}, record : Store!Record \cup {None},
   in_use : BOOLEAN, current : Checksum]

DeleteType ==
  /\ deletes \in [Delete -> DeleteRecord]
  /\ DOMAIN quarantine = Store!Record /\ DOMAIN records = Store!Record

Taken(d) == deletes[d].at \in {"moved", "removed", "restored"}
DeleteSound(d) ==
  /\ deletes[d].at # "idle" => deletes[d].record \in Store!Record
  /\ deletes[d].at \in {"moved", "removed"} => quarantine[deletes[d].record] # None
  /\ deletes[d].at \in {"removed", "restored"} => deletes[d].record \notin Store!Registered
OneDelete ==
  \A d, x \in Delete :
    Taken(d) /\ Taken(x) /\ deletes[d].record = deletes[x].record => d = x

StoreInv == DeleteType /\ OneDelete /\ \A d \in Delete : DeleteSound(d)

\* What the records say, and what is still to be written into them.
LoadSound(d) ==
  /\ downloads[d].at # "idle" => downloads[d].trusted \in Store!Weights
  /\ downloads[d].at \in {"checked", "ready"} => downloads[d].report = downloads[d].trusted
VerifySound ==
  verifying # None =>
    verifying.record \in Store!Record /\ verifying.report = root[verifying.record]
RestoreSound(d) == Taken(d) => deletes[d].current = root[deletes[d].record]

TrustInv ==
  /\ records \in [Store!Record -> Checksum] /\ root \in [Store!Record -> Checksum]
  /\ Store!TrustRootKept /\ VerifySound
  /\ \A d \in Download : LoadSound(d)
  /\ \A d \in Delete : RestoreSound(d)

\* A path that is taken names a file that was written, and so does the handle
\* of a download that receives.
Written(i) == i \in Store!Inode /\ inode[i] \in Seq(0 .. 3)
DownloadRecord ==
  [at : {"idle", "request", "stream", "valid", "linked", "checked", "ready"}, seen : Nat,
   file : Store!Inode \cup {None}, offset : Nat, append : BOOLEAN,
   trusted : Checksum, report : Checksum]

Receiving == \A d \in Download : downloads[d].at = "stream" => Written(downloads[d].file)

FilesInv ==
  /\ Store!TypeOK
  /\ partial # None => Written(partial)
  /\ downloads \in [Download -> DownloadRecord]
  /\ Receiving

LEMMA StoreInit == Store!Init => StoreInv
<1> SUFFICES ASSUME Store!Init PROVE StoreInv
  OBVIOUS
<1>1. Store!NoDelete \in DeleteRecord /\ Store!NoDelete.at = "idle"
  BY DEF Store!NoDelete, DeleteRecord, Checksum
<1> QED
  BY <1>1 DEF Store!Init, StoreInv, DeleteType, OneDelete, DeleteSound, Taken

\* A deletion that ends, or moves to another step.
LEMMA DeleteStops ==
  ASSUME DeleteType, NEW d \in Delete, Store!Stops(d)
  PROVE  /\ deletes' \in [Delete -> DeleteRecord] /\ deletes'[d].at = "idle"
         /\ \A x \in Delete : x # d => deletes'[x] = deletes[x]
<1>1. Store!NoDelete \in DeleteRecord /\ Store!NoDelete.at = "idle"
  BY DEF Store!NoDelete, DeleteRecord, Checksum
<1> QED
  BY <1>1 DEF DeleteType, Store!Stops

LEMMA DeleteMoves ==
  ASSUME DeleteType, NEW d \in Delete,
         NEW step \in {"moved", "removed", "restored"}, Store!Moves(d, step)
  PROVE  /\ deletes' \in [Delete -> DeleteRecord]
         /\ deletes'[d].at = step /\ deletes'[d].record = deletes[d].record
         /\ \A x \in Delete : x # d => deletes'[x] = deletes[x]
<1>1. [deletes[d] EXCEPT !.at = step] \in DeleteRecord
  BY DEF DeleteType, DeleteRecord
<1>2. deletes' = [deletes EXCEPT ![d] = [deletes[d] EXCEPT !.at = step]]
  BY DEF DeleteType, Store!Moves
<1> QED
  BY <1>1, <1>2 DEF DeleteType, DeleteRecord

\* The steps of deletions.
LEMMA DeletesNext ==
  ASSUME StoreInv, TrustInv, NEW d \in Delete,
         \/ Store!QuarantineFile(d) \/ Store!RemoveRecord(d) \/ Store!EraseFile(d)
         \/ Store!EraseFails(d) \/ Store!RestoreRecord(d) \/ Store!DeleteDies(d)
         \/ \E r \in Store!Record : Store!AskDelete(d, r)
  PROVE  StoreInv'
<1> DeleteType /\ OneDelete /\ \A x \in Delete : DeleteSound(x)
  BY DEF StoreInv
<1>0. DOMAIN quarantine = Store!Record /\ DOMAIN records = Store!Record
  BY DEF DeleteType
\* A step that takes no record.
<1>1. ASSUME deletes'[d].at \in {"idle", "asked"},
             deletes'[d].at = "asked" => deletes'[d].record \in Store!Record,
             deletes' \in [Delete -> DeleteRecord],
             \A x \in Delete : x # d => deletes'[x] = deletes[x],
             DOMAIN quarantine' = Store!Record, DOMAIN records' = Store!Record,
             \A x \in Delete : x # d /\ deletes[x].at \in {"moved", "removed"} =>
               quarantine'[deletes[x].record] # None,
             \A x \in Delete : x # d /\ deletes[x].at \in {"removed", "restored"} =>
               deletes[x].record \notin Store!Registered'
      PROVE  StoreInv'
  <2>1. ASSUME NEW x \in Delete PROVE DeleteSound(x)'
    <3>1. CASE x = d
      BY <3>1, <1>1 DEF DeleteSound
    <3>2. CASE x # d
      <4>1. deletes'[x] = deletes[x] /\ DeleteSound(x)
        BY <3>2, <1>1
      <4> QED
        BY <3>2, <4>1, <1>1 DEF DeleteSound
    <3> QED
      BY <3>1, <3>2
  <2>2. OneDelete'
    BY <1>1 DEF OneDelete, Taken
  <2> QED
    BY <1>1, <2>1, <2>2 DEF StoreInv, DeleteType
\* A step that keeps the record it has taken.
<1>2. ASSUME NEW step \in {"removed", "restored"}, Taken(d),
             deletes'[d].at = step, deletes'[d].record = deletes[d].record,
             deletes' \in [Delete -> DeleteRecord],
             \A x \in Delete : x # d => deletes'[x] = deletes[x],
             DOMAIN quarantine' = Store!Record, DOMAIN records' = Store!Record,
             \A r \in Store!Record : r # deletes[d].record =>
               quarantine'[r] = quarantine[r] /\ records'[r] = records[r],
             step = "removed" => quarantine'[deletes[d].record] # None,
             records'[deletes[d].record] = None
      PROVE  StoreInv'
  <2>0. deletes[d].record \in Store!Record
    BY <1>2 DEF Taken, DeleteSound
  <2>1. ASSUME NEW x \in Delete PROVE DeleteSound(x)'
    <3>1. CASE x = d
      BY <3>1, <1>2, <2>0 DEF DeleteSound, Store!Registered
    <3>2. CASE x # d
      <4>1. deletes'[x] = deletes[x] /\ DeleteSound(x)
        BY <3>2, <1>2
      <4>2. Taken(x) => deletes[x].record # deletes[d].record
        BY <3>2, <1>2 DEF OneDelete
      <4> QED
        BY <3>2, <4>1, <4>2, <1>2 DEF DeleteSound, Taken, Store!Registered
    <3> QED
      BY <3>1, <3>2
  <2>2. OneDelete'
    BY <1>2 DEF OneDelete, Taken
  <2> QED
    BY <1>2, <2>1, <2>2 DEF StoreInv, DeleteType
<1>3. ASSUME NEW r \in Store!Record, Store!AskDelete(d, r)
      PROVE  StoreInv'
  <2> DEFINE w == [at |-> "asked", record |-> r, in_use |-> serving # None, current |-> None]
  <2>1. w \in DeleteRecord /\ w.at = "asked" /\ w.record = r
    BY DEF DeleteRecord, Store!NoDelete, Checksum
  <2>2. deletes' = [deletes EXCEPT ![d] = w] /\ UNCHANGED <<quarantine, records>>
    BY <1>3 DEF Store!AskDelete, Store!book
  <2> HIDE DEF w
  <2>3. /\ deletes' \in [Delete -> DeleteRecord] /\ deletes'[d] = w
        /\ \A x \in Delete : x # d => deletes'[x] = deletes[x]
    BY <2>1, <2>2 DEF DeleteType
  <2> QED
    BY <2>1, <2>2, <2>3, <1>0, <1>1 DEF DeleteSound, Store!Registered
<1>4. CASE Store!QuarantineFile(d)
  <2> DEFINE r == deletes[d].record
  <2>1. deletes[d].at = "asked" /\ r \in Store!Record /\ UNCHANGED records
    BY <1>4 DEF Store!QuarantineFile, DeleteSound, Store!book
  <2>2. CASE ~ deletes[d].in_use /\ Store!Find(r) /\ quarantine[r] = None
    <3>1. /\ quarantine' = [quarantine EXCEPT ![r] = target] /\ target # None
          /\ r \in Store!Registered
          /\ deletes' = [deletes EXCEPT ![d].at = "moved", ![d].current = records[r]]
      BY <1>4, <2>2 DEF Store!QuarantineFile, Store!Find
    <3>6. records[r] \in Checksum
      BY <2>1 DEF TrustInv
    <3>2. /\ deletes' \in [Delete -> DeleteRecord]
          /\ deletes'[d].at = "moved" /\ deletes'[d].record = r
          /\ \A x \in Delete : x # d => deletes'[x] = deletes[x]
      BY <3>1, <3>6 DEF DeleteType, DeleteRecord
    <3>3. \A x \in Delete : Taken(x) => deletes[x].record # r
      BY <2>2, <3>1 DEF Taken, DeleteSound
    <3>4. ASSUME NEW x \in Delete PROVE DeleteSound(x)'
      <4>1. CASE x = d
        BY <4>1, <2>1, <3>1, <3>2, <1>0 DEF DeleteSound
      <4>2. CASE x # d
        <5>1. deletes'[x] = deletes[x] /\ DeleteSound(x)
          BY <4>2, <3>2
        <5> QED
          BY <4>2, <5>1, <3>1, <3>3, <2>1, <1>0 DEF DeleteSound, Taken, Store!Registered
      <4> QED
        BY <4>1, <4>2
    <3>5. OneDelete'
      BY <3>2, <3>3 DEF OneDelete, Taken
    <3> QED
      BY <2>1, <3>1, <3>2, <3>4, <3>5, <1>0 DEF StoreInv, DeleteType
  <2>3. CASE ~ (~ deletes[d].in_use /\ Store!Find(r) /\ quarantine[r] = None)
    <3>1. Store!Stops(d) /\ UNCHANGED quarantine
      BY <1>4, <2>3 DEF Store!QuarantineFile
    <3> QED
      BY <2>1, <3>1, DeleteStops, <1>0, <1>1 DEF DeleteSound, Store!Registered
  <2> QED
    BY <2>2, <2>3
<1>5. CASE Store!RemoveRecord(d)
  <2> DEFINE r == deletes[d].record
  <2>1. /\ deletes[d].at = "moved" /\ r \in Store!Record /\ Taken(d) /\ quarantine[r] # None
    BY <1>5 DEF Store!RemoveRecord, DeleteSound, Taken
  <2>2. CASE r \in Store!Registered
    <3>1. /\ records' = [records EXCEPT ![r] = None] /\ UNCHANGED quarantine
          /\ Store!Moves(d, "removed")
      BY <1>5, <2>2 DEF Store!RemoveRecord
    <3> QED
      BY <2>1, <3>1, DeleteMoves, <1>0, <1>2
  <2>3. CASE r \notin Store!Registered
    <3>1. /\ quarantine' = [quarantine EXCEPT ![r] = None] /\ Store!Stops(d) /\ UNCHANGED records
      BY <1>5, <2>3 DEF Store!RemoveRecord, Store!MoveBack
    <3>2. \A x \in Delete : x # d /\ Taken(x) => deletes[x].record # r
      BY <2>1 DEF OneDelete
    <3> QED
      BY <2>1, <3>1, <3>2, DeleteStops, <1>0, <1>1 DEF DeleteSound, Taken, Store!Registered
  <2> QED
    BY <2>2, <2>3
<1>6. CASE Store!EraseFile(d)
  <2> DEFINE r == deletes[d].record
  <2>1. /\ deletes[d].at = "removed" /\ Taken(d) /\ Store!Stops(d) /\ UNCHANGED records
        /\ quarantine' = [quarantine EXCEPT ![r] = None]
    BY <1>6 DEF Store!EraseFile, Taken, Store!book
  <2>2. \A x \in Delete : x # d /\ Taken(x) => deletes[x].record # r
    BY <2>1 DEF OneDelete
  <2> QED
    BY <2>1, <2>2, DeleteStops, <1>0, <1>1 DEF DeleteSound, Taken, Store!Registered
<1>7. CASE Store!EraseFails(d)
  <2> DEFINE r == deletes[d].record
  <2>1. /\ deletes[d].at = "removed" /\ Taken(d) /\ Store!Moves(d, "restored")
        /\ UNCHANGED records /\ quarantine' = [quarantine EXCEPT ![r] = None]
        /\ r \in Store!Record /\ records[r] = None
    BY <1>7 DEF Store!EraseFails, Store!MoveBack, Taken, DeleteSound, Store!Registered,
         Store!book
  <2> QED
    BY <2>1, DeleteMoves, <1>0, <1>2
<1>8. CASE Store!RestoreRecord(d)
  <2> DEFINE r == deletes[d].record
  <2>1. /\ deletes[d].at = "restored" /\ Taken(d) /\ Store!Stops(d) /\ UNCHANGED quarantine
        /\ records' = records \/ records' = [records EXCEPT ![r] = deletes[d].current]
    BY <1>8 DEF Store!RestoreRecord, Taken
  <2>2. \A x \in Delete : x # d /\ Taken(x) => deletes[x].record # r
    BY <2>1 DEF OneDelete
  <2> QED
    BY <2>1, <2>2, DeleteStops, <1>0, <1>1 DEF DeleteSound, Taken, Store!Registered
<1>9. CASE Store!DeleteDies(d)
  <2>1. Store!Stops(d) /\ UNCHANGED <<quarantine, records>>
    BY <1>9 DEF Store!DeleteDies, Store!book
  <2> QED
    BY <2>1, DeleteStops, <1>0, <1>1 DEF DeleteSound, Store!Registered
<1> QED
  BY <1>3, <1>4, <1>5, <1>6, <1>7, <1>8, <1>9

\* Nobody else touches a quarantine, and a registration takes a record that no
\* deletion holds.
LEMMA StoreNext == StoreInv /\ TrustInv /\ [Store!Next]_store => StoreInv'
<1> SUFFICES ASSUME StoreInv, TrustInv, [Store!Next]_store PROVE StoreInv'
  OBVIOUS
<1> USE DEF Store!book
<1>1. ASSUME UNCHANGED <<deletes, quarantine, records>> PROVE StoreInv'
  BY <1>1 DEF StoreInv, DeleteType, OneDelete, DeleteSound, Taken, Store!Registered
<1>2. ASSUME NEW d \in Download, Store!Register(d) PROVE StoreInv'
  <2>1. UNCHANGED <<deletes, quarantine>>
    BY <1>2 DEF Store!Register
  <2>2. CASE \E r \in Store!Record :
               Store!FreshRecord(r) /\ records' = [records EXCEPT ![r] = downloads[d].report]
    <3>1. PICK r \in Store!Record :
            Store!FreshRecord(r) /\ records' = [records EXCEPT ![r] = downloads[d].report]
      BY <2>2
    <3>2. \A x \in Delete : deletes[x].record # r
      BY <3>1 DEF Store!FreshRecord, Store!Free
    <3> QED
      BY <2>1, <3>1, <3>2
         DEF StoreInv, DeleteType, OneDelete, DeleteSound, Taken, Store!Registered
  <2>3. CASE UNCHANGED records
    BY <2>1, <2>3, <1>1
  <2> QED
    BY <1>2, <2>2, <2>3 DEF Store!Register
<1>3. ASSUME NEW d \in Download,
             \/ \E sha \in Store!Weights : Store!BeginDownload(d, sha)
             \/ Store!WriteChunk(d) \/ Store!ValidatePartial(d)
             \/ Store!LinkTarget(d) \/ Store!ValidateTarget(d) \/ Store!DropPartial(d)
             \/ Store!DownloadDies(d)
             \/ \E resumed \in BOOLEAN : Store!OpenPartial(d, resumed)
      PROVE  StoreInv'
  BY <1>1, <1>3 DEF Store!BeginDownload, Store!WriteChunk, Store!ValidatePartial,
     Store!LinkTarget, Store!ValidateTarget, Store!DropPartial, Store!DownloadDies,
     Store!OpenPartial
<1>4. ASSUME \/ \E r \in Store!Record : Store!BeginVerify(r) \/ Store!Use(r)
             \/ Store!EndUse \/ Store!Tamper \/ UNCHANGED store
      PROVE  StoreInv'
  BY <1>1, <1>4 DEF Store!BeginVerify, Store!Use, Store!EndUse, Store!Tamper, store
\* A late verification writes a record that is there, so it brings none back.
<1>5. ASSUME Store!FinishVerify PROVE StoreInv'
  <2>1. /\ UNCHANGED <<deletes, quarantine>> /\ DOMAIN records' = DOMAIN records
        /\ Store!Registered' \subseteq Store!Registered
    BY <1>5 DEF Store!FinishVerify, Store!Registered, StoreInv, DeleteType
  <2> QED
    BY <2>1 DEF StoreInv, DeleteType, OneDelete, DeleteSound, Taken
<1> QED
  BY <1>2, <1>3, <1>4, <1>5, DeletesNext DEF Store!Next

\* What is written into a record is what its id stands for.
LEMMA TrustDeletes ==
  ASSUME StoreInv, TrustInv, NEW d \in Delete,
         \/ Store!QuarantineFile(d) \/ Store!RemoveRecord(d) \/ Store!EraseFile(d)
         \/ Store!EraseFails(d) \/ Store!RestoreRecord(d) \/ Store!DeleteDies(d)
         \/ \E r \in Store!Record : Store!AskDelete(d, r)
  PROVE  TrustInv'
<1> DEFINE r == deletes[d].record
<1> USE DEF Store!book
<1>1. DeleteType /\ DeleteSound(d) /\ RestoreSound(d)
  BY DEF StoreInv, TrustInv
<1>2. UNCHANGED <<downloads, root, verifying>>
  BY DEF Store!QuarantineFile, Store!RemoveRecord, Store!EraseFile, Store!EraseFails,
     Store!RestoreRecord, Store!DeleteDies, Store!AskDelete
<1>3. /\ records' \in [Store!Record -> Checksum]
      /\ \A q \in Store!Record : records'[q] \in {records[q], None, root[q]}
  <2>1. CASE Store!RemoveRecord(d)
    BY <2>1 DEF Store!RemoveRecord, TrustInv, Checksum
  <2>2. CASE Store!RestoreRecord(d)
    <3>1. r \in Store!Record /\ deletes[d].current = root[r]
      BY <2>2, <1>1 DEF Store!RestoreRecord, DeleteSound, RestoreSound, Taken
    <3>2. records' = records \/ records' = [records EXCEPT ![r] = root[r]]
      BY <2>2, <3>1 DEF Store!RestoreRecord
    <3> QED
      BY <3>1, <3>2 DEF TrustInv
  <2>3. CASE UNCHANGED records
    BY <2>3 DEF TrustInv
  <2> QED
    BY <2>1, <2>2, <2>3
       DEF Store!QuarantineFile, Store!EraseFile, Store!EraseFails, Store!DeleteDies,
         Store!AskDelete
<1>4. Store!TrustRootKept'
  BY <1>2, <1>3 DEF TrustInv, Store!TrustRootKept, Store!Registered
<1>5. ASSUME NEW x \in Delete PROVE RestoreSound(x)'
  <2>1. CASE Store!QuarantineFile(d) /\ x = d /\ deletes'[d].at = "moved"
    <3>1. deletes[d].at = "asked" /\ r \in Store!Record
      BY <2>1, <1>1 DEF Store!QuarantineFile, DeleteSound
    <3>2. /\ deletes' = [deletes EXCEPT ![d].at = "moved", ![d].current = records[r]]
          /\ r \in Store!Registered
      <4>1. ~ Store!Stops(d)
        BY <2>1, <1>1 DEF Store!Stops, Store!NoDelete, DeleteType
      <4> QED
        BY <2>1, <4>1 DEF Store!QuarantineFile, Store!Find
    <3>3. deletes'[d].record = r /\ deletes'[d].current = records[r]
      BY <3>2, <1>1 DEF DeleteType, DeleteRecord
    <3>4. records[r] = root[r]
      BY <3>2 DEF TrustInv, Store!TrustRootKept
    <3> QED
      BY <2>1, <3>3, <3>4, <1>2 DEF RestoreSound
  <2>2. CASE ~ (Store!QuarantineFile(d) /\ x = d /\ deletes'[d].at = "moved")
    <3>1. \/ deletes'[x] = deletes[x]
          \/ deletes'[x].at \in {"idle", "asked"}
          \/ /\ Taken(x) /\ deletes'[x].record = deletes[x].record
             /\ deletes'[x].current = deletes[x].current
      <4>1. CASE x # d
        BY <4>1, <1>1 DEF Store!QuarantineFile, Store!RemoveRecord, Store!EraseFile,
           Store!EraseFails, Store!RestoreRecord, Store!DeleteDies, Store!AskDelete,
           Store!Stops, Store!Moves, DeleteType
      <4>2. CASE x = d /\ Store!QuarantineFile(d)
        <5>1. Store!Stops(d)
          <6>1. CASE deletes' = [deletes EXCEPT ![d].at = "moved", ![d].current = records[r]]
            <7>1. deletes'[d].at = "moved"
              BY <6>1, <1>1 DEF DeleteType, DeleteRecord
            <7> QED
              BY <2>2, <4>2, <7>1
          <6> QED
            BY <4>2, <6>1 DEF Store!QuarantineFile
        <5> QED
          BY <5>1, <4>2, <1>1, DeleteStops
      <4>3. CASE x = d /\ (Store!RemoveRecord(d) \/ Store!EraseFails(d))
        <5>1. Taken(d) /\ (Store!Stops(d) \/ Store!Moves(d, "removed") \/ Store!Moves(d, "restored"))
          BY <4>3 DEF Store!RemoveRecord, Store!EraseFails, Taken
        <5>2. ASSUME NEW step \in {"removed", "restored"}, Store!Moves(d, step)
              PROVE  deletes'[d].record = deletes[d].record /\ deletes'[d].current = deletes[d].current
          BY <5>2, <1>1 DEF Store!Moves, DeleteType, DeleteRecord
        <5> QED
          BY <5>1, <5>2, <4>3, <1>1, DeleteStops
      <4>4. CASE x = d /\ (Store!EraseFile(d) \/ Store!RestoreRecord(d) \/ Store!DeleteDies(d))
        <5>1. Store!Stops(d)
          BY <4>4 DEF Store!EraseFile, Store!RestoreRecord, Store!DeleteDies
        <5> QED
          BY <5>1, <4>4, <1>1, DeleteStops
      <4>5. ASSUME x = d, NEW q \in Store!Record, Store!AskDelete(d, q)
            PROVE  deletes'[x].at = "asked"
        BY <4>5, <1>1 DEF Store!AskDelete, DeleteType, Store!NoDelete
      <4> QED
        BY <4>1, <4>2, <4>3, <4>4, <4>5
    <3>2. RestoreSound(x)
      BY DEF TrustInv
    <3> QED
      BY <3>1, <3>2, <1>2 DEF RestoreSound, Taken
  <2> QED
    BY <2>1, <2>2
<1> QED
  BY <1>2, <1>3, <1>4, <1>5 DEF TrustInv, VerifySound, LoadSound

\* A download's own checksum is what it reports; it registers an id that nobody
\* holds, so that what others will write stays what it was.
LEMMA TrustDownloads ==
  ASSUME StoreInv, TrustInv, FilesInv, NEW d \in Download,
         \/ \E sha \in Store!Weights : Store!BeginDownload(d, sha)
         \/ Store!WriteChunk(d) \/ Store!ValidatePartial(d)
         \/ Store!LinkTarget(d) \/ Store!ValidateTarget(d) \/ Store!DropPartial(d)
         \/ Store!Register(d) \/ Store!DownloadDies(d)
         \/ \E resumed \in BOOLEAN : Store!OpenPartial(d, resumed)
  PROVE  TrustInv'
<1> USE DEF Store!book
<1>1. downloads \in [Download -> DownloadRecord] /\ LoadSound(d)
  BY DEF FilesInv, TrustInv
<1>2. UNCHANGED deletes /\ UNCHANGED verifying
  BY DEF Store!BeginDownload, Store!WriteChunk, Store!ValidatePartial, Store!LinkTarget,
     Store!ValidateTarget, Store!DropPartial, Store!Register, Store!DownloadDies,
     Store!OpenPartial
<1>3. ASSUME NEW x \in Download PROVE LoadSound(x)'
  <2>1. CASE x # d
    <3>1. downloads'[x] = downloads[x]
      BY <2>1, <1>1 DEF Store!BeginDownload, Store!WriteChunk, Store!ValidatePartial,
         Store!LinkTarget, Store!ValidateTarget, Store!DropPartial, Store!Register,
         Store!DownloadDies, Store!OpenPartial, Store!Loads, Store!Ends
    <3> QED
      BY <3>1 DEF TrustInv, LoadSound
  <2>2. CASE x = d /\ Store!Ends(d)
    BY <2>2, <1>1 DEF Store!Ends, Store!NoDownload, LoadSound
  <2>3. ASSUME x = d, NEW step \in {"valid", "linked"}, downloads[d].at # "idle", Store!Loads(d, step)
        PROVE  LoadSound(x)'
    <3>1. downloads'[d].at = step /\ downloads'[d].trusted = downloads[d].trusted
      BY <2>3, <1>1 DEF Store!Loads, DownloadRecord
    <3> QED
      BY <3>1, <2>3, <1>1 DEF LoadSound
  <2>4. ASSUME x = d, downloads[d].at = "checked", Store!Loads(d, "ready")
        PROVE  LoadSound(x)'
    <3>1. /\ downloads'[d].at = "ready" /\ downloads'[d].trusted = downloads[d].trusted
          /\ downloads'[d].report = downloads[d].report
      BY <2>4, <1>1 DEF Store!Loads, DownloadRecord
    <3> QED
      BY <3>1, <2>4, <1>1 DEF LoadSound
  <2>5. ASSUME x = d, NEW sha \in Store!Weights, Store!BeginDownload(d, sha)
        PROVE  LoadSound(x)'
    <3>1. downloads'[d].at = "request" /\ downloads'[d].trusted = sha
      BY <2>5, <1>1 DEF Store!BeginDownload, Store!NoDownload
    <3> QED
      BY <3>1, <2>5 DEF LoadSound
  <2>6. CASE x = d /\ Store!WriteChunk(d)
    <3>1. downloads[d].at = "stream" /\ downloads'[d].at = "stream"
          /\ downloads'[d].trusted = downloads[d].trusted
      BY <2>6, <1>1 DEF Store!WriteChunk, DownloadRecord
    <3> QED
      BY <3>1, <2>6, <1>1 DEF LoadSound
  <2>7. ASSUME x = d, NEW resumed \in BOOLEAN, Store!OpenPartial(d, resumed)
        PROVE  LoadSound(x)'
    <3>1. downloads[d].at = "request" /\ downloads'[d].at = "stream"
          /\ downloads'[d].trusted = downloads[d].trusted
      BY <2>7, <1>1 DEF Store!OpenPartial, DownloadRecord
    <3> QED
      BY <3>1, <2>7, <1>1 DEF LoadSound
  <2>8. CASE x = d /\ Store!ValidateTarget(d)
    <3>1. CASE Store!Valid(target, downloads[d].trusted)
      <4>1. /\ downloads' = [downloads EXCEPT ![d].at = "checked", ![d].report = Store!Content(target)]
            /\ downloads[d].at = "linked" /\ Store!Content(target) = downloads[d].trusted
        BY <2>8, <3>1 DEF Store!ValidateTarget, Store!Valid
      <4>2. /\ downloads'[d].at = "checked" /\ downloads'[d].trusted = downloads[d].trusted
            /\ downloads'[d].report = downloads[d].trusted
        BY <4>1, <1>1 DEF DownloadRecord
      <4> QED
        BY <4>1, <4>2, <2>8, <1>1 DEF LoadSound
    <3>2. CASE ~ Store!Valid(target, downloads[d].trusted)
      BY <2>8, <3>2, <2>2 DEF Store!ValidateTarget
    <3> QED
      BY <3>1, <3>2
  <2>9. x = d /\ Store!ValidatePartial(d) => Store!Ends(d) \/ (downloads[d].at # "idle" /\ Store!Loads(d, "valid"))
    BY DEF Store!ValidatePartial
  <2>10. x = d /\ Store!LinkTarget(d) => Store!Ends(d) \/ (downloads[d].at # "idle" /\ Store!Loads(d, "linked"))
    BY DEF Store!LinkTarget
  <2>11. x = d /\ Store!DropPartial(d) => Store!Ends(d) \/ (downloads[d].at = "checked" /\ Store!Loads(d, "ready"))
    BY DEF Store!DropPartial
  <2>12. Store!Register(d) \/ Store!DownloadDies(d) => Store!Ends(d)
    BY DEF Store!Register, Store!DownloadDies
  <2> QED
    BY <2>1, <2>2, <2>3, <2>4, <2>5, <2>6, <2>7, <2>8, <2>9, <2>10, <2>11, <2>12
<1>4. CASE UNCHANGED <<records, root>>
  BY <1>2, <1>3, <1>4 DEF TrustInv, Store!TrustRootKept, Store!Registered, VerifySound,
     RestoreSound, Taken
<1>5. CASE Store!Register(d) /\ ~ UNCHANGED <<records, root>>
  <2>1. PICK r \in Store!Record :
          /\ Store!Free(r)
          /\ records' = [records EXCEPT ![r] = downloads[d].report]
          /\ root' = [root EXCEPT ![r] = downloads[d].trusted]
    BY <1>5 DEF Store!Register, Store!FreshRecord
  <2>2. downloads[d].report = downloads[d].trusted /\ downloads[d].trusted \in Checksum
    BY <1>1, <1>5 DEF Store!Register, LoadSound, Checksum
  <2>3. /\ records' \in [Store!Record -> Checksum] /\ root' \in [Store!Record -> Checksum]
        /\ records'[r] = root'[r]
        /\ \A q \in Store!Record : q # r => records'[q] = records[q] /\ root'[q] = root[q]
    BY <2>1, <2>2 DEF TrustInv
  <2>4. Store!TrustRootKept'
    BY <2>3 DEF TrustInv, Store!TrustRootKept, Store!Registered
  <2>5. VerifySound'
    BY <1>2, <2>1, <2>3 DEF TrustInv, VerifySound, Store!Free
  <2>6. ASSUME NEW x \in Delete PROVE RestoreSound(x)'
    <3>1. deletes[x].record # r /\ RestoreSound(x) /\ (Taken(x) => deletes[x].record \in Store!Record)
      BY <2>1 DEF Store!Free, TrustInv, StoreInv, DeleteSound, Taken
    <3> QED
      BY <1>2, <2>3, <3>1 DEF RestoreSound, Taken
  <2> QED
    BY <1>3, <2>3, <2>4, <2>5, <2>6 DEF TrustInv
<1> QED
  BY <1>4, <1>5 DEF Store!BeginDownload, Store!WriteChunk, Store!ValidatePartial,
     Store!LinkTarget, Store!ValidateTarget, Store!DropPartial, Store!DownloadDies,
     Store!OpenPartial

LEMMA TrustNext == StoreInv /\ TrustInv /\ FilesInv /\ [Store!Next]_store => TrustInv'
<1> SUFFICES ASSUME StoreInv, TrustInv, FilesInv, [Store!Next]_store PROVE TrustInv'
  OBVIOUS
<1> USE DEF Store!book
<1>1. ASSUME NEW r \in Store!Record, Store!BeginVerify(r) PROVE TrustInv'
  <2>1. /\ verifying' = [record |-> r, report |-> Store!Content(target)]
        /\ r \in Store!Registered /\ Store!Content(target) = records[r]
        /\ UNCHANGED <<downloads, deletes, records, root>>
    BY <1>1 DEF Store!BeginVerify, Store!Find, Store!Valid
  <2>2. verifying'.record = r /\ verifying'.report = root[r]
    BY <2>1 DEF TrustInv, Store!TrustRootKept
  <2> QED
    BY <2>1, <2>2 DEF TrustInv, VerifySound, Store!TrustRootKept, Store!Registered,
       LoadSound, RestoreSound, Taken
<1>2. CASE Store!FinishVerify
  <2>1. /\ verifying # None /\ verifying' = None
        /\ records' = records \/ records' = [records EXCEPT ![verifying.record] = verifying.report]
        /\ UNCHANGED <<downloads, deletes, root>>
    BY <1>2 DEF Store!FinishVerify
  <2>2. verifying.record \in Store!Record /\ verifying.report = root[verifying.record]
    BY <2>1 DEF TrustInv, VerifySound
  <2>3. /\ records' \in [Store!Record -> Checksum]
        /\ \A q \in Store!Record : records'[q] \in {records[q], root[q]}
    BY <2>1, <2>2 DEF TrustInv
  <2> QED
    BY <2>1, <2>3 DEF TrustInv, VerifySound, Store!TrustRootKept, Store!Registered,
       LoadSound, RestoreSound, Taken
<1>3. ASSUME \/ \E r \in Store!Record : Store!Use(r)
             \/ Store!EndUse \/ Store!Tamper \/ UNCHANGED store
      PROVE  TrustInv'
  <2>1. UNCHANGED <<downloads, deletes, records, root, verifying>>
    BY <1>3 DEF Store!Use, Store!EndUse, Store!Tamper, store
  <2> QED
    BY <2>1 DEF TrustInv, VerifySound, Store!TrustRootKept, Store!Registered, LoadSound,
       RestoreSound, Taken
<1> QED
  BY <1>1, <1>2, <1>3, TrustDeletes, TrustDownloads DEF Store!Next

LEMMA ChunkWritten ==
  ASSUME NEW c \in Seq(0 .. 3), NEW start \in Nat, NEW chunk \in 0 .. 3
  PROVE  Store!WrittenAt(c, start, chunk) \in Seq(0 .. 3)
<1> DEFINE n == IF Len(c) > start THEN Len(c) ELSE start + 1
           v(k) == IF k = start + 1 THEN chunk ELSE IF k <= Len(c) THEN c[k] ELSE 0
<1>1. n \in Nat /\ \A k \in 1 .. n : v(k) \in 0 .. 3
  OBVIOUS
<1>2. [k \in 1 .. n |-> v(k)] \in Seq(0 .. 3)
  <2> HIDE DEF n, v
  <2> QED
    BY <1>1, IsASeq
<1> QED
  BY <1>2 DEF Store!WrittenAt

\* A file is written, and nothing else happens to the files.
LEMMA FileWritten ==
  ASSUME Store!TypeOK, NEW i \in Store!Inode, NEW c \in Seq(0 .. 3),
         inode' = [inode EXCEPT ![i] = c]
  PROVE  /\ inode' \in [Store!Inode -> {None} \cup Seq(0 .. 3)]
         /\ Written(i)' /\ \A j \in Store!Inode : Written(j) => Written(j)'
  BY DEF Store!TypeOK, Written, Store!Inode

\* A download takes a step, without opening a file.
LEMMA DownloadSteps ==
  ASSUME FilesInv, NEW d \in Download, inode' = inode,
         \/ \E step \in {"valid", "linked", "ready"} : Store!Loads(d, step)
         \/ downloads' = [downloads EXCEPT ![d].at = "checked", ![d].report = downloads[d].trusted]
         \/ Store!Ends(d)
  PROVE  /\ downloads' \in [Download -> DownloadRecord]
         /\ Receiving'
<1>1. Store!NoDownload \in DownloadRecord /\ Store!NoDownload.at = "idle"
  BY DEF Store!NoDownload, DownloadRecord, Checksum
<1>2. CASE Store!Ends(d)
  <2>1. downloads' = [downloads EXCEPT ![d] = Store!NoDownload]
    BY <1>2 DEF Store!Ends
  <2> QED
    BY <1>1, <2>1 DEF FilesInv, Receiving, Written
<1>3. ASSUME NEW step \in {"valid", "linked", "ready"}, Store!Loads(d, step)
      PROVE  downloads' \in [Download -> DownloadRecord] /\ Receiving'
  <2>1. downloads' = [downloads EXCEPT ![d].at = step] /\ downloads[d] \in DownloadRecord
    BY <1>3 DEF Store!Loads, FilesInv
  <2>2. downloads' \in [Download -> DownloadRecord]
    BY <2>1 DEF FilesInv, DownloadRecord
  <2>3. downloads'[d].at = step /\ \A e \in Download : e # d => downloads'[e] = downloads[e]
    BY <2>1 DEF FilesInv, DownloadRecord
  <2> QED
    BY <2>2, <2>3 DEF FilesInv, Receiving, Written
<1>4. CASE downloads' = [downloads EXCEPT ![d].at = "checked", ![d].report = downloads[d].trusted]
  <2> DEFINE w == [downloads[d] EXCEPT !.at = "checked", !.report = downloads[d].trusted]
  <2>3. downloads \in [Download -> DownloadRecord] /\ downloads[d] \in DownloadRecord
    BY DEF FilesInv
  <2>4. w \in DownloadRecord /\ w.at = "checked"
    BY <2>3 DEF DownloadRecord
  <2>5. downloads' = [downloads EXCEPT ![d] = w]
    BY <1>4, <2>3
  <2> HIDE DEF w
  <2>1. /\ downloads' \in [Download -> DownloadRecord] /\ downloads'[d].at = "checked"
        /\ \A e \in Download : e # d => downloads'[e] = downloads[e]
    BY <2>3, <2>4, <2>5
  <2> QED
    BY <2>1 DEF FilesInv, Receiving, Written
<1> QED
  BY <1>2, <1>3, <1>4

LEMMA FilesDownload ==
  ASSUME FilesInv, TrustInv, TrustInv', NEW d \in Download,
         \/ \E sha \in Store!Weights : Store!BeginDownload(d, sha)
         \/ Store!WriteChunk(d) \/ Store!ValidatePartial(d)
         \/ Store!LinkTarget(d) \/ Store!ValidateTarget(d) \/ Store!DropPartial(d)
         \/ Store!Register(d) \/ Store!DownloadDies(d)
         \/ \E resumed \in BOOLEAN : Store!OpenPartial(d, resumed)
  PROVE  FilesInv'
<1> USE DEF FilesInv, Receiving, Store!book
<1>0. root' \in [Store!Record -> Store!Weights \cup {None}]
  BY DEF TrustInv, Checksum
<1>1. ASSUME NEW sha \in Store!Weights, Store!BeginDownload(d, sha) PROVE FilesInv'
  <2> DEFINE seen == IF partial = None THEN 0 ELSE Len(inode[partial])
             w == [at |-> "request", file |-> None, offset |-> 0, append |-> FALSE,
                   seen |-> seen, trusted |-> sha, report |-> None]
  <2>1. seen \in Nat
    BY DEF Written
  <2>2. w \in DownloadRecord
    BY <2>1 DEF Store!NoDownload, DownloadRecord, Checksum
  <2>3. w.at = "request"
    BY DEF Store!NoDownload
  <2>4. downloads' = [downloads EXCEPT ![d] = w]
        /\ UNCHANGED <<inode, partial, target, quarantine, root, serving>>
    BY <1>1 DEF Store!BeginDownload
  <2> HIDE DEF seen, w
  <2> QED
    BY <2>2, <2>3, <2>4 DEF Written, Store!TypeOK
<1>2. CASE Store!WriteChunk(d)
  <2> DEFINE f == downloads[d].file
             start == IF downloads[d].append THEN Len(inode[f]) ELSE downloads[d].offset
             sha == downloads[d].trusted
             c == Store!WrittenAt(inode[f], start, sha[downloads[d].offset + 1])
  <2>0. Written(f) /\ downloads[d] \in DownloadRecord /\ sha \in Store!Weights
    BY <1>2 DEF Store!WriteChunk, TrustInv, LoadSound
  <2>1. Written(f) /\ downloads[d] \in DownloadRecord /\ downloads[d].offset \in 0 .. 1
    <3>1. downloads[d].offset < Len(sha) /\ downloads[d].offset \in Nat
      BY <1>2, <2>0 DEF Store!WriteChunk, DownloadRecord
    <3>2. Len(sha) = 2
      BY <2>0 DEF Store!Weights
    <3> HIDE DEF sha
    <3> QED
      BY <2>0, <3>1, <3>2
  <2>2. start \in Nat /\ sha[downloads[d].offset + 1] \in 0 .. 3
    BY <2>0, <2>1 DEF Written, DownloadRecord, Store!Weights
  <2> HIDE DEF sha
  <2>3. c \in Seq(0 .. 3)
    BY <2>1, <2>2, ChunkWritten DEF Written
  <2>4. inode' = [inode EXCEPT ![f] = c]
    BY <1>2, <2>1 DEF Store!WriteChunk, Written, Store!TypeOK, sha
  <2>5. /\ downloads' = [downloads EXCEPT ![d].offset = @ + 1]
        /\ UNCHANGED <<partial, target, quarantine, root, serving>>
    BY <1>2 DEF Store!WriteChunk
  <2> HIDE DEF c, start
  <2>6. /\ inode' \in [Store!Inode -> {None} \cup Seq(0 .. 3)]
        /\ \A j \in Store!Inode : Written(j) => Written(j)'
    BY <2>1, <2>3, <2>4, FileWritten DEF Written
  <2>7. /\ downloads' \in [Download -> DownloadRecord]
        /\ \A e \in Download : downloads'[e].at = downloads[e].at /\ downloads'[e].file = downloads[e].file
    BY <2>1, <2>5 DEF DownloadRecord
  <2>8. Store!TypeOK'
    BY <2>5, <2>6 DEF Store!TypeOK, Store!Inode, Store!Record
  <2>9. partial # None => Written(partial)'
    BY <2>5, <2>6 DEF Written
  <2>10. Receiving'
    BY <2>6, <2>7 DEF Written
  <2> QED
    BY <2>5, <2>7, <2>8, <2>9, <2>10
<1>3. ASSUME NEW resumed \in BOOLEAN, Store!OpenPartial(d, resumed) PROVE FilesInv'
  <2>1. PICK i \in Store!Inode :
          /\ partial # None => i = partial
          /\ inode' = [inode EXCEPT ![i] = IF resumed /\ partial # None THEN @ ELSE <<>>]
          /\ partial' = i
          /\ downloads' = [downloads EXCEPT
               ![d] = [at |-> "stream", file |-> i, append |-> resumed, seen |-> @.seen,
                       offset |-> IF resumed THEN @.seen ELSE 0,
                       trusted |-> @.trusted, report |-> None]]
    BY <1>3 DEF Store!OpenPartial
  <2> DEFINE c == IF resumed /\ partial # None THEN inode[i] ELSE <<>>
  <2>2. c \in Seq(0 .. 3)
    BY <2>1, EmptySeq DEF Written
  <2>3. inode' = [inode EXCEPT ![i] = c]
    BY <2>1 DEF Store!TypeOK
  <2> HIDE DEF c
  <2>4. /\ inode' \in [Store!Inode -> {None} \cup Seq(0 .. 3)]
        /\ Written(i)' /\ \A j \in Store!Inode : Written(j) => Written(j)'
    BY <2>2, <2>3, FileWritten
  <2>5. UNCHANGED <<target, quarantine, root, serving>> /\ partial' = i
    BY <1>3, <2>1 DEF Store!OpenPartial
  <2> DEFINE o == downloads[d]
             w == [at |-> "stream", file |-> i, append |-> resumed, seen |-> o.seen,
                   offset |-> IF resumed THEN o.seen ELSE 0, trusted |-> o.trusted, report |-> None]
  <2>9. w \in DownloadRecord /\ w.file = i
    <3>1. o \in DownloadRecord
      OBVIOUS
    <3> HIDE DEF o
    <3>2. o.seen \in Nat /\ o.trusted \in Checksum
      BY <3>1 DEF DownloadRecord
    <3>3. None \in Checksum
      BY DEF Checksum
    <3> QED
      BY <3>2, <3>3 DEF DownloadRecord
  <2>10. downloads' = [downloads EXCEPT ![d] = w]
    BY <2>1
  <2> HIDE DEF w
  <2>6. /\ downloads' \in [Download -> DownloadRecord]
        /\ downloads'[d].file = i /\ \A e \in Download : e # d => downloads'[e] = downloads[e]
    BY <2>9, <2>10
  <2>7. Store!TypeOK'
    BY <2>4, <2>5 DEF Store!TypeOK, Store!Inode, Store!Record
  <2>8. Receiving'
    BY <2>4, <2>6 DEF Written
  <2> QED
    BY <2>4, <2>5, <2>6, <2>7, <2>8 DEF Written
<1>4. CASE \/ Store!ValidatePartial(d) \/ Store!LinkTarget(d) \/ Store!ValidateTarget(d)
           \/ Store!DropPartial(d) \/ Store!Register(d) \/ Store!DownloadDies(d)
  <2>1. /\ UNCHANGED <<inode, quarantine, serving>>
        /\ partial' \in {partial, None} /\ target' \in {target, partial, None}
    BY <1>4 DEF Store!ValidatePartial, Store!LinkTarget, Store!ValidateTarget,
       Store!DropPartial, Store!Register, Store!DownloadDies
  <2>2. \/ \E step \in {"valid", "linked", "ready"} : Store!Loads(d, step)
        \/ downloads' = [downloads EXCEPT ![d].at = "checked", ![d].report = downloads[d].trusted]
        \/ Store!Ends(d)
    BY <1>4 DEF Store!ValidatePartial, Store!LinkTarget, Store!ValidateTarget, Store!Valid,
       Store!DropPartial, Store!Register, Store!DownloadDies
  <2>3. /\ downloads' \in [Download -> DownloadRecord]
        /\ Receiving'
    BY <2>1, <2>2, DownloadSteps
  <2>4. Store!TypeOK' /\ (partial' # None => Written(partial)')
    BY <1>0, <2>1 DEF Store!TypeOK, Written, Store!Inode
  <2> QED
    BY <2>3, <2>4
<1> QED
  BY <1>1, <1>2, <1>3, <1>4

\* Deletions only move the files.
LEMMA FilesDelete ==
  ASSUME FilesInv, StoreInv, NEW d \in Delete,
         \/ Store!QuarantineFile(d) \/ Store!RemoveRecord(d) \/ Store!EraseFile(d)
         \/ Store!EraseFails(d) \/ Store!RestoreRecord(d) \/ Store!DeleteDies(d)
         \/ \E r \in Store!Record : Store!AskDelete(d, r)
  PROVE  FilesInv'
<1>1. /\ UNCHANGED <<inode, downloads, partial, root, serving>>
      /\ \/ UNCHANGED <<target, quarantine>>
         \/ /\ deletes[d].at # "idle"
            /\ LET r == deletes[d].record
               IN \/ quarantine' = [quarantine EXCEPT ![r] = target] /\ target' = None
                  \/ Store!MoveBack(r)
                  \/ quarantine' = [quarantine EXCEPT ![r] = None] /\ target' = target
  BY DEF Store!QuarantineFile, Store!RemoveRecord, Store!EraseFile, Store!EraseFails,
     Store!RestoreRecord, Store!DeleteDies, Store!AskDelete, Store!book
<1>2. deletes[d].at # "idle" => deletes[d].record \in Store!Record
  BY DEF StoreInv, DeleteSound
<1>3. Store!TypeOK'
  BY <1>1, <1>2 DEF FilesInv, Store!TypeOK, Store!MoveBack, Store!Inode, Store!Record
<1> QED
  BY <1>1, <1>3 DEF FilesInv, Receiving, Written

LEMMA FilesNext ==
  StoreInv /\ TrustInv /\ TrustInv' /\ FilesInv /\ [Store!Next]_store => FilesInv'
<1> SUFFICES ASSUME StoreInv, TrustInv, TrustInv', FilesInv, [Store!Next]_store PROVE FilesInv'
  OBVIOUS
<1> USE DEF Store!book
<1>1. CASE Store!Tamper
  <2>1. /\ target \in Store!Inode /\ inode' = [inode EXCEPT ![target] = Store!Tampered]
        /\ UNCHANGED <<downloads, partial, target, quarantine, root, serving>>
    BY <1>1 DEF Store!Tamper, FilesInv, Store!TypeOK
  <2>2. Store!Tampered \in Seq(0 .. 3)
    BY DEF Store!Tampered
  <2>3. /\ inode' \in [Store!Inode -> {None} \cup Seq(0 .. 3)]
        /\ \A j \in Store!Inode : Written(j) => Written(j)'
    BY <2>1, <2>2, FileWritten DEF FilesInv
  <2>4. Store!TypeOK'
    BY <2>1, <2>3 DEF FilesInv, Store!TypeOK
  <2> QED
    BY <2>1, <2>3, <2>4 DEF FilesInv, Receiving, Written
<1>2. CASE \/ \E r \in Store!Record : Store!BeginVerify(r) \/ Store!Use(r)
           \/ Store!FinishVerify \/ Store!EndUse \/ UNCHANGED store
  <2>1. /\ UNCHANGED <<downloads, inode, partial, target, quarantine, root>>
        /\ serving' \in {serving, target, None}
    BY <1>2 DEF Store!BeginVerify, Store!Use, Store!FinishVerify, Store!EndUse, store
  <2> QED
    BY <2>1 DEF FilesInv, Receiving, Store!TypeOK, Written
<1> QED
  BY <1>1, <1>2, FilesDownload, FilesDelete DEF Store!Next

LEMMA StoreTrustInit == Store!Init => StoreInv /\ TrustInv /\ FilesInv
<1> SUFFICES ASSUME Store!Init PROVE TrustInv /\ FilesInv
  BY StoreInit
<1>1. TrustInv
  BY DEF Store!Init, TrustInv, Store!TrustRootKept, Store!Registered, VerifySound, LoadSound,
     RestoreSound, Taken, Store!NoDownload, Store!NoDelete, Checksum
<1>2. Store!NoDownload \in DownloadRecord /\ Store!NoDownload.at = "idle"
  BY DEF Store!NoDownload, DownloadRecord, Checksum
<1>3. FilesInv
  BY <1>2 DEF Store!Init, FilesInv, Receiving, Store!TypeOK
<1> QED
  BY <1>1, <1>3

\* The invariant holds in every state.
LEMMA StoreHolds == Spec => [](StoreInv /\ TrustInv /\ FilesInv)
<1>1. Init => StoreInv /\ TrustInv /\ FilesInv
  BY StoreTrustInit DEF Init
<1>2. /\ StoreInv /\ TrustInv /\ FilesInv /\ [Next]_vars
      => StoreInv' /\ TrustInv' /\ FilesInv'
  BY PartSteps, StoreNext, TrustNext, FilesNext
<1> QED
  BY <1>1, <1>2, PTL DEF Spec

\* Weights are erased after their record has left the registry.
LEMMA ErasedHolds == Spec => Store!ErasedAfterRecord
<1>1. StoreInv /\ [Next]_vars =>
        [\A r \in Store!Record :
           quarantine[r] # None /\ quarantine'[r] = None /\ target' # quarantine[r]
             => r \notin Store!Registered']_(Store!vars)
  <2> SUFFICES ASSUME StoreInv, Store!Next, NEW r \in Store!Record,
                      quarantine[r] # None, quarantine'[r] = None, target' # quarantine[r]
               PROVE  r \notin Store!Registered'
    BY PartSteps DEF store, Store!vars
  <2> USE DEF Store!book
  <2>0. DOMAIN quarantine = Store!Record
    BY DEF StoreInv, DeleteType
  <2>1. ASSUME NEW d \in Download,
             \/ \E sha \in Store!Weights : Store!BeginDownload(d, sha)
             \/ Store!WriteChunk(d) \/ Store!ValidatePartial(d)
             \/ Store!LinkTarget(d) \/ Store!ValidateTarget(d) \/ Store!DropPartial(d)
             \/ Store!DownloadDies(d) \/ Store!Register(d)
             \/ \E resumed \in BOOLEAN : Store!OpenPartial(d, resumed)
        PROVE  FALSE
    BY <2>1 DEF Store!BeginDownload, Store!WriteChunk, Store!ValidatePartial,
       Store!LinkTarget, Store!ValidateTarget, Store!DropPartial, Store!DownloadDies,
       Store!OpenPartial, Store!Register
  <2>2. ASSUME \/ \E s \in Store!Record : Store!BeginVerify(s) \/ Store!Use(s)
               \/ Store!FinishVerify \/ Store!EndUse \/ Store!Tamper
        PROVE  FALSE
    BY <2>2 DEF Store!BeginVerify, Store!Use, Store!FinishVerify, Store!EndUse, Store!Tamper
  <2>3. PICK d \in Delete :
          \/ Store!QuarantineFile(d) \/ Store!RemoveRecord(d) \/ Store!EraseFile(d)
          \/ Store!EraseFails(d) \/ Store!RestoreRecord(d) \/ Store!DeleteDies(d)
          \/ \E s \in Store!Record : Store!AskDelete(d, s)
    BY <2>1, <2>2 DEF Store!Next
  <2>4. DeleteSound(d)
    BY DEF StoreInv
  <2>5. CASE Store!EraseFile(d)
    <3>1. /\ deletes[d].at = "removed" /\ UNCHANGED records
          /\ quarantine' = [quarantine EXCEPT ![deletes[d].record] = None]
      BY <2>5 DEF Store!EraseFile
    <3>2. deletes[d].record = r
      BY <3>1, <2>0
    <3> QED
      BY <3>1, <3>2, <2>4 DEF DeleteSound, Store!Registered
  <2>6. CASE Store!QuarantineFile(d)
    BY <2>6, <2>0 DEF Store!QuarantineFile, Store!Find
  <2>7. CASE Store!RemoveRecord(d) \/ Store!EraseFails(d)
    BY <2>7, <2>0 DEF Store!RemoveRecord, Store!EraseFails, Store!MoveBack
  <2>8. CASE Store!RestoreRecord(d) \/ Store!DeleteDies(d)
             \/ \E s \in Store!Record : Store!AskDelete(d, s)
    BY <2>8 DEF Store!RestoreRecord, Store!DeleteDies, Store!AskDelete
  <2> QED
    BY <2>3, <2>5, <2>6, <2>7, <2>8
<1> QED
  BY <1>1, StoreHolds, PTL DEF Spec, Store!ErasedAfterRecord

-----------------------------------------------------------------------------
(***************************************************************************)
(* validate_model.  The open file never changes without a later time, and  *)
(* the path never returns to a file it has left; so a file whose number    *)
(* and times are at the end what they were at the start was one content    *)
(* all the while.                                                          *)
(***************************************************************************)
ReaderType ==
  /\ at_path = [number |-> at_path.number, content |-> at_path.content,
                written |-> at_path.written, replaced |-> at_path.replaced]
  /\ reader = [at |-> reader.at, file |-> reader.file, seen |-> reader.seen,
               parsed |-> reader.parsed, hashed |-> reader.hashed]
  /\ at_path.number \in Nat /\ at_path.written \in Nat
  /\ reader.file \in Nat /\ reader.seen \in Nat

Unmoved == at_path.number = reader.file /\ at_path.written = reader.seen

ReaderInv ==
  /\ ReaderType
  /\ reader.file <= at_path.number
  /\ at_path.number = reader.file => reader.seen <= at_path.written
  /\ reader.at \in {"parsed", "hashed"} =>
       /\ Model!StructureValid(reader.parsed)
       /\ Unmoved => reader.parsed = at_path.content
  /\ reader.at = "hashed" /\ Unmoved => reader.hashed = at_path.content
  /\ Model!OneContent

LEMMA ReaderNext == ReaderInv /\ [Model!Next]_model => ReaderInv'
<1> SUFFICES ASSUME ReaderInv, [Model!Next]_model PROVE ReaderInv'
  OBVIOUS
<1> USE DEF ReaderInv, ReaderType, Unmoved, Model!OneContent
<1>1. CASE Model!OpenModelFile
  <2>1. /\ at_path' = at_path
        /\ reader'.at = "opened" /\ reader'.file = at_path.number
        /\ reader'.seen = at_path.written
    BY <1>1 DEF Model!OpenModelFile
  <2>2. ReaderType'
    BY <1>1, <2>1 DEF Model!OpenModelFile
  <2> QED
    BY <2>1, <2>2
<1>2. CASE Model!ParseStructure
  BY <1>2 DEF Model!ParseStructure, Model!OpenContent
<1>3. CASE Model!Sha256OpenFile
  BY <1>3 DEF Model!Sha256OpenFile, Model!OpenContent
<1>4. CASE Model!Recheck
  BY <1>4 DEF Model!Recheck
<1>5. ASSUME NEW f, Model!WriteInPlace(f) PROVE ReaderInv'
  <2>1. /\ reader' = reader
        /\ at_path'.number = at_path.number /\ at_path'.written = at_path.written + 1
    BY <1>5 DEF Model!WriteInPlace
  <2>2. at_path' = [number |-> at_path.number, content |-> f,
                    written |-> at_path.written + 1, replaced |-> at_path.replaced]
    <3> DEFINE a == at_path.number  b == at_path.content  w == at_path.written
               z == at_path.replaced
    <3>1. at_path = [number |-> a, content |-> b, written |-> w, replaced |-> z]
      OBVIOUS
    <3>2. at_path' = [at_path EXCEPT !.content = f, !.written = w + 1]
      BY <1>5 DEF Model!WriteInPlace
    <3> HIDE DEF a, b, w, z
    <3>3. at_path' = [number |-> a, content |-> f, written |-> w + 1, replaced |-> z]
      BY <3>1, <3>2
    <3> QED
      BY <3>3 DEF a, b, w, z
  <2>3. ReaderType'
    BY <2>1, <2>2
  <2>4. reader.file = at_path'.number => reader.seen < at_path'.written
    BY <2>1
  <2> QED
    BY <2>1, <2>3, <2>4
<1>6. ASSUME NEW f, Model!ReplaceFile(f) PROVE ReaderInv'
  BY <1>6 DEF Model!ReplaceFile
<1>7. CASE UNCHANGED model
  BY <1>7 DEF model
<1> QED
  BY <1>1, <1>2, <1>3, <1>4, <1>5, <1>6, <1>7 DEF Model!Next

\* A record holds the checksum that its own download was given, whatever a
\* verification that ends late, a deletion that takes itself back or the download of
\* the other model writes meanwhile: `model verify` writes what it read of weights
\* that it found unchanged, into the id they belong to (reverify, register, delete);
\* and what validate_model accepts has the structure it checked and the hash it
\* returns, both of one content, whatever is written to the file or put in its place
\* between its reads.  For any number of commands, files and changes from outside.
THEOREM ModelsAlwaysTrusted == Spec => []TrustedModels
<1>1. Init => ReaderInv
  BY DEF Init, Model!Init, Model!Unread, ReaderInv, ReaderType, Unmoved, Model!OneContent
<1>2. ReaderInv /\ [Next]_vars => ReaderInv'
  BY PartSteps, ReaderNext
<1>3. TrustInv /\ FilesInv /\ ReaderInv => TrustedModels
  BY DEF TrustInv, FilesInv, ReaderInv, TrustedModels
<1> QED
  BY <1>1, <1>2, <1>3, StoreHolds, PTL DEF Spec

-----------------------------------------------------------------------------
(***************************************************************************)
(* Bundles.  What a deploy has reported is whole in the staging directory, *)
(* which holds a shard under both names only between the link and the      *)
(* removal of the partial name, or where a deploy was killed between them. *)
(* Between the rename and the registration nothing takes the bundle away:  *)
(* the only record there may be has its quarantine occupied.  Where two    *)
(* deploys of the bundle have overlapped, only the types remain.           *)
(***************************************************************************)
Contents == SUBSET Bundles!Entry
DeployRecord ==
  [at : {"idle", "gather", "open", "fetch", "link", "placed", "valid"},
   reported : SUBSET Shard, shard : Shard \cup {None}]
RemovalRecord ==
  [at : {"idle", "moved", "removed", "restored"}, record : Bundles!Bundle \cup {None}]

DirectoryType ==
  /\ staging \in Contents \cup {None} /\ bundle \in Contents \cup {None}
  /\ registered \in Bundles!Bundle \cup {None}
  /\ interrupted \subseteq Shard /\ overlapped \in BOOLEAN

BundleType ==
  /\ deploys \in [Deploy -> DeployRecord]
  /\ \A b \in Deploy : deploys[b].at \in {"open", "fetch", "link"} => deploys[b].shard \in Shard
  /\ removal \in RemovalRecord
  /\ trash \in [Bundles!Bundle -> Contents \cup {None}]
  /\ DirectoryType

\* A removal that goes on has its record, and the directory in its quarantine.
RemovalSound ==
  /\ removal.at # "idle" => removal.record \in Bundles!Bundle
  /\ removal.at \in {"moved", "removed"} => trash[removal.record] # None
  /\ removal.at = "removed" => registered # removal.record

Alone == \A b, c \in Deploy : deploys[b].at # "idle" /\ deploys[c].at # "idle" => b = c

\* The shards and nothing else, but for what killed deploys left.
WholeBundle ==
  /\ bundle # None /\ Bundles!Complete \subseteq bundle
  /\ bundle \subseteq Bundles!Complete \cup {Bundles!Part(s) : s \in interrupted}

StagingSound ==
  staging # None =>
    \A s \in Shard :
      Bundles!Part(s) \in staging /\ Bundles!Target(s) \in staging =>
        s \in interrupted \/ \E b \in Deploy : deploys[b].at = "link" /\ deploys[b].shard = s

DeploySound(b) ==
  /\ deploys[b].at \in {"gather", "open", "fetch", "link"} =>
       staging # None /\ \A s \in deploys[b].reported : Bundles!Target(s) \in staging
  /\ deploys[b].at = "open" => Bundles!Target(deploys[b].shard) \notin staging
  /\ deploys[b].at \in {"placed", "valid"} =>
       /\ WholeBundle /\ removal.at # "restored"
       /\ registered # None => trash[registered] # None

\* A record without its directory has it in its quarantine; one that is about to
\* return has it back.
RecordKept ==
  /\ registered # None /\ bundle = None => trash[registered] # None
  /\ removal.at = "restored" => bundle # None

BundleSound == Alone /\ StagingSound /\ RecordKept /\ \A b \in Deploy : DeploySound(b)

BundleInv == BundleType /\ RemovalSound /\ (~ overlapped => BundleSound)

LEMMA BundleInit == Bundles!Init => BundleInv
<1> SUFFICES ASSUME Bundles!Init PROVE BundleInv
  OBVIOUS
<1>1. Bundles!NoDeploy \in DeployRecord /\ Bundles!NoDeploy.at = "idle"
  BY DEF Bundles!NoDeploy, DeployRecord
<1>2. Bundles!NoRemoval \in RemovalRecord /\ Bundles!NoRemoval.at = "idle"
  BY DEF Bundles!NoRemoval, RemovalRecord
<1>3. BundleType /\ RemovalSound
  BY <1>1, <1>2 DEF Bundles!Init, BundleType, DirectoryType, RemovalSound
<1>4. BundleSound
  BY <1>1, <1>2
     DEF Bundles!Init, BundleSound, Alone, StagingSound, RecordKept, DeploySound
<1> QED
  BY <1>3, <1>4 DEF BundleInv

\* The directories are not the missing one, and the names of files are different.
LEMMA NotMissing ==
  /\ None \notin Contents /\ None \notin Bundles!Bundle /\ Bundles!Complete \in Contents
  /\ \A s \in Shard : Bundles!Part(s) \in Bundles!Entry /\ Bundles!Target(s) \in Bundles!Entry
  /\ \A s, t : Bundles!Part(s) # Bundles!Target(t)
  /\ \A s, t : Bundles!Part(s) = Bundles!Part(t) => s = t
  /\ \A s, t : Bundles!Target(s) = Bundles!Target(t) => s = t
  /\ Bundles!Complete = {Bundles!Target(s) : s \in Shard}
  /\ Bundles!Entry = Bundles!Complete \cup {Bundles!Part(s) : s \in Shard}
<1>1. None \notin Contents /\ None \notin Bundles!Bundle /\ Bundles!Complete \in Contents
  BY BundleAssumption DEF Contents, Bundles!Entry, Bundles!Bundle, Bundles!Complete
<1>2. /\ \A s \in Shard : Bundles!Part(s) \in Bundles!Entry /\ Bundles!Target(s) \in Bundles!Entry
      /\ \A s, t : Bundles!Part(s) # Bundles!Target(t)
  BY DEF Bundles!Part, Bundles!Target, Bundles!Entry
<1>3. /\ \A s, t : Bundles!Part(s) = Bundles!Part(t) => s = t
      /\ \A s, t : Bundles!Target(s) = Bundles!Target(t) => s = t
  BY DEF Bundles!Part, Bundles!Target
<1>4. Bundles!Complete = {Bundles!Target(s) : s \in Shard}
  BY DEF Bundles!Complete, Bundles!Target
<1>5. Bundles!Entry = Bundles!Complete \cup {Bundles!Part(s) : s \in Shard}
  BY DEF Bundles!Complete, Bundles!Part, Bundles!Entry
<1> QED
  BY <1>1, <1>2, <1>3, <1>4, <1>5

Deploying(b) ==
  \/ Bundles!PrepareStaging(b) \/ Bundles!OpenPart(b) \/ Bundles!LinkShard(b)
  \/ Bundles!RemovePart(b) \/ Bundles!FailShard(b) \/ Bundles!RenameStaging(b)
  \/ Bundles!ValidatePlaced(b) \/ Bundles!RegisterBundle(b) \/ Bundles!Rollback(b)
  \/ Bundles!DeployDies(b)
  \/ \E s \in Shard : Bundles!ReportShard(b, s) \/ Bundles!FindShard(b, s)

\* A step of a deploy changes its own row, and never the quarantines.
LEMMA DeployRow ==
  ASSUME BundleType, NEW b \in Deploy, Deploying(b)
  PROVE  /\ \E w \in DeployRecord :
              /\ deploys' = [deploys EXCEPT ![b] = w]
              /\ w.at \in {"open", "fetch", "link"} => w.shard \in Shard
         /\ UNCHANGED <<removal, trash>>
<1> DEFINE row == deploys[b]
<1>1. row \in DeployRecord /\ (row.at \in {"open", "fetch", "link"} => row.shard \in Shard)
  BY DEF BundleType
<1>2. Bundles!NoDeploy \in DeployRecord /\ Bundles!NoDeploy.at = "idle"
  BY DEF Bundles!NoDeploy, DeployRecord
<1>3. UNCHANGED <<removal, trash>>
  BY DEF Deploying, Bundles!PrepareStaging, Bundles!OpenPart, Bundles!LinkShard,
     Bundles!RemovePart, Bundles!FailShard, Bundles!RenameStaging, Bundles!ValidatePlaced,
     Bundles!RegisterBundle, Bundles!Rollback, Bundles!DeployDies, Bundles!ReportShard,
     Bundles!FindShard
<1>4. CASE Bundles!Ends(b)
  BY <1>2, <1>3, <1>4 DEF Bundles!Ends
<1>5. CASE Bundles!PrepareStaging(b)
  <2> DEFINE w == [Bundles!NoDeploy EXCEPT !.at = "gather"]
  <2>1. w \in DeployRecord /\ w.at = "gather"
    BY <1>2 DEF DeployRecord
  <2>2. deploys' = [deploys EXCEPT ![b] = w]
    BY <1>5 DEF Bundles!PrepareStaging, BundleType
  <2> QED
    BY <2>1, <2>2, <1>3
<1>6. ASSUME NEW step \in {"fetch", "link", "placed", "valid"}, Bundles!Goes(b, step),
             step \in {"fetch", "link"} => row.at \in {"open", "fetch"}
      PROVE  \E w \in DeployRecord :
               /\ deploys' = [deploys EXCEPT ![b] = w]
               /\ w.at \in {"open", "fetch", "link"} => w.shard \in Shard
  <2> DEFINE w == [row EXCEPT !.at = step]
  <2>1. w \in DeployRecord /\ w.at = step /\ w.shard = row.shard
    BY <1>1 DEF DeployRecord
  <2>2. deploys' = [deploys EXCEPT ![b] = w]
    BY <1>6 DEF Bundles!Goes, BundleType
  <2> QED
    BY <2>1, <2>2, <1>1, <1>6
<1>7. CASE Bundles!OpenPart(b) \/ Bundles!LinkShard(b) \/ Bundles!ValidatePlaced(b)
  BY <1>3, <1>6, <1>7 DEF Bundles!OpenPart, Bundles!LinkShard, Bundles!ValidatePlaced
<1>8. CASE Bundles!RenameStaging(b)
  BY <1>3, <1>4, <1>6, <1>8 DEF Bundles!RenameStaging
<1>9. CASE Bundles!RemovePart(b)
  <2> DEFINE w == [at |-> "gather", reported |-> row.reported \cup {row.shard}, shard |-> None]
  <2>1. w \in DeployRecord /\ w.at = "gather"
    BY <1>1, <1>9 DEF DeployRecord, Bundles!RemovePart
  <2>2. deploys' = [deploys EXCEPT ![b] = w]
    BY <1>9 DEF Bundles!RemovePart, BundleType
  <2> QED
    BY <2>1, <2>2, <1>3
<1>10. ASSUME NEW s \in Shard, Bundles!ReportShard(b, s)
       PROVE  \E w \in DeployRecord :
                /\ deploys' = [deploys EXCEPT ![b] = w]
                /\ w.at \in {"open", "fetch", "link"} => w.shard \in Shard
  <2> DEFINE w == [row EXCEPT !.reported = row.reported \cup {s}]
  <2>1. w \in DeployRecord /\ w.at = row.at /\ w.shard = row.shard
    BY <1>1 DEF DeployRecord
  <2>2. deploys' = [deploys EXCEPT ![b] = w]
    BY <1>10 DEF Bundles!ReportShard, BundleType
  <2> QED
    BY <2>1, <2>2, <1>1
<1>11. ASSUME NEW s \in Shard, Bundles!FindShard(b, s)
       PROVE  \E w \in DeployRecord :
                /\ deploys' = [deploys EXCEPT ![b] = w]
                /\ w.at \in {"open", "fetch", "link"} => w.shard \in Shard
  <2> DEFINE w == [row EXCEPT !.at = "open", !.shard = s]
  <2>1. w \in DeployRecord /\ w.shard = s
    BY <1>1 DEF DeployRecord
  <2>2. deploys' = [deploys EXCEPT ![b] = w]
    BY <1>11 DEF Bundles!FindShard, BundleType
  <2> QED
    BY <2>1, <2>2
<1> QED
  BY <1>3, <1>4, <1>5, <1>7, <1>8, <1>9, <1>10, <1>11
     DEF Deploying, Bundles!FailShard, Bundles!RegisterBundle, Bundles!Rollback,
         Bundles!DeployDies

LEMMA DeployDirectories ==
  ASSUME BundleType, NEW b \in Deploy, Deploying(b)
  PROVE  DirectoryType'
<1> USE DEF DirectoryType
<1>1. /\ deploys[b].at \in {"open", "fetch", "link"} => deploys[b].shard \in Shard
      /\ staging \in Contents \cup {None} /\ bundle \in Contents \cup {None}
      /\ registered \in Bundles!Bundle \cup {None}
      /\ interrupted \subseteq Shard /\ overlapped \in BOOLEAN
  BY DEF BundleType
<1>2. \A s \in Shard : Bundles!Part(s) \in Bundles!Entry /\ Bundles!Target(s) \in Bundles!Entry
  BY NotMissing
<1>3. {} \in Contents
  BY DEF Contents
<1>4. CASE Bundles!PrepareStaging(b)
  BY <1>1, <1>3, <1>4 DEF Bundles!PrepareStaging
<1>5. CASE Bundles!OpenPart(b) \/ Bundles!LinkShard(b) \/ Bundles!RemovePart(b)
           \/ Bundles!FailShard(b)
  <2>1. /\ staging \in Contents /\ deploys[b].shard \in Shard
        /\ UNCHANGED <<bundle, registered, interrupted, overlapped>>
    BY <1>1, <1>5
       DEF Bundles!OpenPart, Bundles!LinkShard, Bundles!RemovePart, Bundles!FailShard
  <2>2. staging' \in Contents
    BY <1>2, <1>5, <2>1
       DEF Bundles!OpenPart, Bundles!LinkShard, Bundles!RemovePart, Bundles!FailShard, Contents
  <2> QED
    BY <1>1, <2>1, <2>2
<1>6. CASE Bundles!RenameStaging(b) \/ Bundles!Rollback(b)
  BY <1>1, <1>6 DEF Bundles!RenameStaging, Bundles!Rollback
<1>7. CASE Bundles!ValidatePlaced(b) \/ Bundles!RegisterBundle(b) \/ Bundles!DeployDies(b)
  BY <1>1, <1>7 DEF Bundles!ValidatePlaced, Bundles!RegisterBundle, Bundles!DeployDies
<1>8. ASSUME NEW s \in Shard, Bundles!ReportShard(b, s) \/ Bundles!FindShard(b, s)
      PROVE  DirectoryType'
  BY <1>1, <1>3, <1>8 DEF Bundles!ReportShard, Bundles!FindShard
<1> QED
  BY <1>4, <1>5, <1>6, <1>7, <1>8 DEF Deploying

LEMMA DeployTypes ==
  ASSUME BundleType, RemovalSound, NEW b \in Deploy, Deploying(b)
  PROVE  BundleType' /\ RemovalSound'
<1>1. PICK w \in DeployRecord :
        /\ deploys' = [deploys EXCEPT ![b] = w]
        /\ w.at \in {"open", "fetch", "link"} => w.shard \in Shard
  BY DeployRow
<1>2. UNCHANGED <<removal, trash>> /\ DirectoryType'
  BY DeployRow, DeployDirectories
<1>3. BundleType'
  BY <1>1, <1>2 DEF BundleType
<1>4. registered' = registered \/ registered' # removal.record
  BY DEF Deploying, Bundles!PrepareStaging, Bundles!OpenPart, Bundles!LinkShard,
     Bundles!RemovePart, Bundles!FailShard, Bundles!RenameStaging, Bundles!ValidatePlaced,
     Bundles!RegisterBundle, Bundles!Rollback, Bundles!DeployDies, Bundles!ReportShard,
     Bundles!FindShard
<1> QED
  BY <1>2, <1>3, <1>4 DEF RemovalSound

\* While no two deploys have overlapped, the others are idle.
LEMMA DeployAlone ==
  ASSUME BundleInv, NEW b \in Deploy, Deploying(b), ~ overlapped'
  PROVE  /\ BundleSound /\ ~ overlapped
         /\ \A c \in Deploy : c # b => deploys[c].at = "idle" /\ deploys'[c].at = "idle"
<1>1. PICK w \in DeployRecord : deploys' = [deploys EXCEPT ![b] = w]
  BY DeployRow DEF BundleInv
<1>2. ~ overlapped /\ (deploys[b].at # "idle" \/ \A c \in Deploy : deploys[c].at = "idle")
  <2>1. CASE Bundles!PrepareStaging(b)
    BY <2>1 DEF Bundles!PrepareStaging
  <2>2. CASE ~ Bundles!PrepareStaging(b)
    <3>1. UNCHANGED overlapped
      BY <2>2 DEF Deploying, Bundles!OpenPart, Bundles!LinkShard, Bundles!RemovePart,
         Bundles!FailShard, Bundles!RenameStaging, Bundles!ValidatePlaced,
         Bundles!RegisterBundle, Bundles!Rollback, Bundles!DeployDies, Bundles!ReportShard,
         Bundles!FindShard
    <3>2. deploys[b].at # "idle"
      BY <2>2 DEF Deploying, Bundles!OpenPart, Bundles!LinkShard, Bundles!RemovePart,
         Bundles!FailShard, Bundles!RenameStaging, Bundles!ValidatePlaced,
         Bundles!RegisterBundle, Bundles!Rollback, Bundles!DeployDies, Bundles!ReportShard,
         Bundles!FindShard
    <3> QED
      BY <3>1, <3>2
  <2> QED
    BY <2>1, <2>2
<1>3. \A c \in Deploy : c # b => deploys[c].at = "idle"
  BY <1>2 DEF BundleInv, BundleSound, Alone
<1> QED
  BY <1>1, <1>2, <1>3 DEF BundleInv, BundleType

\* It suffices to look at the deploy that has moved.
LEMMA DeployCalm ==
  ASSUME BundleInv, NEW b \in Deploy, Deploying(b), ~ overlapped',
         DeploySound(b)', StagingSound', RecordKept'
  PROVE  BundleSound'
<1>1. \A c \in Deploy : c # b => deploys'[c].at = "idle"
  BY DeployAlone
<1> QED
  BY <1>1 DEF BundleSound, Alone, DeploySound

\* Steps in the staging directory.
LEMMA DeployGathers ==
  ASSUME BundleInv, NEW b \in Deploy, Deploying(b), ~ overlapped',
         \/ Bundles!PrepareStaging(b) \/ Bundles!OpenPart(b) \/ Bundles!LinkShard(b)
         \/ Bundles!RemovePart(b) \/ Bundles!FailShard(b)
         \/ \E s \in Shard : Bundles!ReportShard(b, s) \/ Bundles!FindShard(b, s)
  PROVE  BundleSound'
<1>1. /\ StagingSound /\ RecordKept /\ DeploySound(b)
      /\ \A c \in Deploy : c # b => deploys[c].at = "idle" /\ deploys'[c].at = "idle"
  BY DeployAlone DEF BundleSound
<1>2. /\ UNCHANGED <<removal, trash, bundle, registered, interrupted>>
  BY DEF Bundles!PrepareStaging, Bundles!OpenPart, Bundles!LinkShard, Bundles!RemovePart,
     Bundles!FailShard, Bundles!ReportShard, Bundles!FindShard
<1>3. RecordKept'
  BY <1>1, <1>2 DEF RecordKept
<1>4. deploys \in [Deploy -> DeployRecord] /\ staging \in Contents \cup {None}
  BY DEF BundleInv, BundleType, DirectoryType
<1>a. ASSUME deploys[b].at \in {"open", "fetch", "link"}, staging # None,
             NEW c \in SUBSET {Bundles!Part(deploys[b].shard), Bundles!Target(deploys[b].shard)}
      PROVE  staging \cup c # None /\ staging \ c # None
  <2>1. deploys[b].shard \in Shard /\ staging \in Contents
    BY <1>4, <1>a DEF BundleInv, BundleType
  <2>2. staging \cup c \in Contents /\ staging \ c \in Contents
    BY <2>1, NotMissing DEF Contents
  <2> QED
    BY <2>2, NotMissing
\* A shard lies under both names only where a deploy has just linked it.
<1>5. ASSUME NEW s \in Shard, staging # None,
             Bundles!Part(s) \in staging, Bundles!Target(s) \in staging
      PROVE  s \in interrupted \/ (deploys[b].at = "link" /\ deploys[b].shard = s)
  BY <1>1, <1>5 DEF StagingSound
<1>6. SUFFICES DeploySound(b)' /\ StagingSound'
  BY <1>3, DeployCalm
<1>7. CASE Bundles!PrepareStaging(b)
  <2>1. /\ deploys[b].at = "idle" /\ UNCHANGED interrupted
        /\ deploys' = [deploys EXCEPT ![b] = [Bundles!NoDeploy EXCEPT !.at = "gather"]]
        /\ staging' = IF staging = None THEN {} ELSE staging
    BY <1>7 DEF Bundles!PrepareStaging
  <2>2. deploys'[b].at = "gather" /\ deploys'[b].reported = {}
    BY <1>4, <2>1 DEF Bundles!NoDeploy
  <2>3. staging' # None
    BY <2>1, NotMissing DEF Contents
  <2>4. StagingSound'
    BY <1>5, <2>1 DEF StagingSound
  <2> QED
    BY <2>2, <2>3, <2>4 DEF DeploySound
<1>8. CASE Bundles!OpenPart(b)
  <2>1. /\ deploys[b].at = "open" /\ staging' = staging \cup {Bundles!Part(deploys[b].shard)}
        /\ Bundles!Goes(b, "fetch") /\ staging # None /\ UNCHANGED interrupted
    BY <1>8 DEF Bundles!OpenPart
  <2>2. deploys'[b].at = "fetch" /\ deploys'[b].reported = deploys[b].reported
    BY <1>4, <2>1 DEF DeployRecord, Bundles!Goes
  <2>3. staging' # None
    BY <1>a, <2>1
  <2>4. DeploySound(b)'
    BY <1>1, <2>1, <2>2, <2>3 DEF DeploySound
  <2>5. ASSUME NEW s \in Shard, Bundles!Part(s) \in staging', Bundles!Target(s) \in staging'
        PROVE  s \in interrupted
    <3>1. Bundles!Target(s) \in staging
      BY <2>1, <2>5, NotMissing
    <3>2. s # deploys[b].shard
      BY <1>1, <2>1, <3>1 DEF DeploySound
    <3>3. Bundles!Part(s) \in staging
      BY <2>1, <2>5, <3>2, NotMissing
    <3> QED
      BY <1>5, <2>1, <3>1, <3>3
  <2> QED
    BY <2>1, <2>4, <2>5 DEF StagingSound
<1>9. CASE Bundles!LinkShard(b)
  <2>1. /\ deploys[b].at = "fetch" /\ staging' = staging \cup {Bundles!Target(deploys[b].shard)}
        /\ Bundles!Goes(b, "link") /\ staging # None /\ UNCHANGED interrupted
    BY <1>9 DEF Bundles!LinkShard
  <2>2. /\ deploys'[b].at = "link" /\ deploys'[b].reported = deploys[b].reported
        /\ deploys'[b].shard = deploys[b].shard
    BY <1>4, <2>1 DEF DeployRecord, Bundles!Goes
  <2>3. staging' # None
    BY <1>a, <2>1
  <2>4. DeploySound(b)'
    BY <1>1, <2>1, <2>2, <2>3 DEF DeploySound
  <2>5. ASSUME NEW s \in Shard, Bundles!Part(s) \in staging', Bundles!Target(s) \in staging'
        PROVE  s \in interrupted \/ s = deploys[b].shard
    <3>1. Bundles!Part(s) \in staging
      BY <2>1, <2>5, NotMissing
    <3>2. Bundles!Target(s) \in staging \/ s = deploys[b].shard
      BY <2>1, <2>5, NotMissing
    <3> QED
      BY <1>5, <2>1, <3>1, <3>2
  <2> QED
    BY <2>1, <2>2, <2>4, <2>5 DEF StagingSound
<1>10. CASE Bundles!RemovePart(b)
  <2> DEFINE w == [at |-> "gather", reported |-> deploys[b].reported \cup {deploys[b].shard},
                   shard |-> None]
  <2>1. /\ deploys[b].at = "link" /\ staging' = staging \ {Bundles!Part(deploys[b].shard)}
        /\ staging # None /\ UNCHANGED interrupted
        /\ Bundles!Target(deploys[b].shard) \in staging
        /\ deploys' = [deploys EXCEPT ![b] = w]
    BY <1>4, <1>10 DEF Bundles!RemovePart
  <2>2. /\ deploys'[b].at = "gather"
        /\ deploys'[b].reported = deploys[b].reported \cup {deploys[b].shard}
    BY <1>4, <2>1
  <2>3. staging' # None
    BY <1>a, <2>1
  <2>4. \A s \in deploys'[b].reported : Bundles!Target(s) \in staging'
    BY <1>1, <2>1, <2>2, NotMissing DEF DeploySound
  <2>5. ASSUME NEW s \in Shard, Bundles!Part(s) \in staging', Bundles!Target(s) \in staging'
        PROVE  s \in interrupted
    BY <1>5, <2>1, <2>5
  <2> QED
    BY <2>1, <2>2, <2>3, <2>4, <2>5 DEF StagingSound, DeploySound
<1>11. CASE Bundles!FailShard(b)
  <2>0. /\ deploys[b].at \in {"fetch", "link"} /\ staging # None /\ UNCHANGED interrupted
        /\ Bundles!Ends(b)
    BY <1>11 DEF Bundles!FailShard
  <2>1. /\ staging' \subseteq staging
        /\ deploys[b].at = "link" =>
             \/ Bundles!Part(deploys[b].shard) \notin staging'
             \/ Bundles!Target(deploys[b].shard) \notin staging'
    <3>1. CASE deploys[b].at = "fetch"
      BY <3>1, <1>11 DEF Bundles!FailShard
    <3>2. CASE deploys[b].at = "link"
      <4>1. PICK gone \in (SUBSET {Bundles!Part(deploys[b].shard),
                                   Bundles!Target(deploys[b].shard)}) \ {{}} :
              staging' = staging \ gone
        BY <1>11, <3>2 DEF Bundles!FailShard
      <4>2. \/ Bundles!Part(deploys[b].shard) \in gone
            \/ Bundles!Target(deploys[b].shard) \in gone
        BY <4>1
      <4> QED
        BY <4>1, <4>2
    <3> QED
      BY <2>0, <3>1, <3>2
  <2>2. deploys'[b].at = "idle"
    BY <1>4, <2>0 DEF Bundles!Ends, Bundles!NoDeploy
  <2>3. ASSUME NEW s \in Shard, Bundles!Part(s) \in staging', Bundles!Target(s) \in staging'
        PROVE  s \in interrupted
    BY <1>5, <2>0, <2>1, <2>3
  <2> QED
    BY <2>0, <2>2, <2>3 DEF StagingSound, DeploySound
<1>12. ASSUME NEW s \in Shard, Bundles!ReportShard(b, s)
       PROVE  DeploySound(b)' /\ StagingSound'
  <2>1. /\ deploys[b].at = "gather" /\ UNCHANGED <<staging, interrupted>>
        /\ Bundles!Target(s) \in staging
        /\ deploys' = [deploys EXCEPT ![b].reported = @ \cup {s}]
    BY <1>12 DEF Bundles!ReportShard
  <2>2. /\ deploys'[b].at = "gather" /\ deploys'[b].reported = deploys[b].reported \cup {s}
    BY <1>4, <2>1 DEF DeployRecord
  <2> QED
    BY <1>1, <1>5, <2>1, <2>2 DEF StagingSound, DeploySound
<1>13. ASSUME NEW s \in Shard, Bundles!FindShard(b, s)
       PROVE  DeploySound(b)' /\ StagingSound'
  <2>1. /\ deploys[b].at = "gather" /\ UNCHANGED interrupted
        /\ staging' = IF staging = None THEN {} ELSE staging
        /\ staging # None => Bundles!Target(s) \notin staging
        /\ deploys' = [deploys EXCEPT ![b].at = "open", ![b].shard = s]
    BY <1>13 DEF Bundles!FindShard
  <2>2. /\ deploys'[b].at = "open" /\ deploys'[b].reported = deploys[b].reported
        /\ deploys'[b].shard = s
    BY <1>4, <2>1 DEF DeployRecord
  <2>3. staging # None /\ staging' = staging
    BY <1>1, <2>1 DEF DeploySound
  <2> QED
    BY <1>1, <1>5, <2>1, <2>2, <2>3 DEF StagingSound, DeploySound
<1> QED
  BY <1>7, <1>8, <1>9, <1>10, <1>11, <1>12, <1>13

\* Steps of the bundle's directory, and the end of a deploy.
LEMMA DeployPlaces ==
  ASSUME BundleInv, NEW b \in Deploy, Deploying(b), ~ overlapped',
         \/ Bundles!RenameStaging(b) \/ Bundles!ValidatePlaced(b) \/ Bundles!RegisterBundle(b)
         \/ Bundles!Rollback(b) \/ Bundles!DeployDies(b)
  PROVE  BundleSound'
<1>1. /\ StagingSound /\ RecordKept /\ DeploySound(b)
      /\ \A c \in Deploy : c # b => deploys[c].at = "idle" /\ deploys'[c].at = "idle"
  BY DeployAlone DEF BundleSound
<1>2. /\ deploys \in [Deploy -> DeployRecord] /\ staging \in Contents \cup {None}
      /\ bundle \in Contents \cup {None} /\ UNCHANGED <<removal, trash>>
  BY DeployRow DEF BundleInv, BundleType, DirectoryType
<1>3. ASSUME NEW s \in Shard, staging # None,
             Bundles!Part(s) \in staging, Bundles!Target(s) \in staging
      PROVE  s \in interrupted \/ (deploys[b].at = "link" /\ deploys[b].shard = s)
  BY <1>1, <1>3 DEF StagingSound
<1>4. SUFFICES DeploySound(b)' /\ StagingSound' /\ RecordKept'
  BY DeployCalm
<1>5. ASSUME Bundles!Ends(b)
      PROVE  deploys'[b].at = "idle" /\ DeploySound(b)'
  BY <1>2, <1>5 DEF Bundles!Ends, Bundles!NoDeploy, DeploySound
\* All shards are reported: what else is there was left by a deploy that died.
<1>6. CASE Bundles!RenameStaging(b)
  <2>1. /\ deploys[b].at = "gather" /\ deploys[b].reported = Shard /\ staging # None
        /\ UNCHANGED <<registered, interrupted>>
    BY <1>6 DEF Bundles!RenameStaging
  <2>2. Bundles!Complete \subseteq staging
    BY <1>1, <2>1, NotMissing DEF DeploySound
  <2>3. staging \subseteq Bundles!Complete \cup {Bundles!Part(s) : s \in interrupted}
    <3>1. ASSUME NEW s \in Shard, Bundles!Part(s) \in staging PROVE s \in interrupted
      BY <1>3, <2>1, <2>2, <3>1, NotMissing
    <3>2. staging \subseteq Bundles!Complete \cup {Bundles!Part(s) : s \in Shard}
      BY <1>2, <2>1, NotMissing DEF Contents
    <3> QED
      BY <3>1, <3>2
  <2>4. CASE bundle = None
    <3>1. bundle' = staging /\ staging' = None /\ Bundles!Goes(b, "placed")
      BY <1>6, <2>4 DEF Bundles!RenameStaging
    <3>2. deploys'[b].at = "placed"
      BY <1>2, <3>1 DEF Bundles!Goes, DeployRecord
    <3>3. WholeBundle'
      BY <2>1, <2>2, <2>3, <3>1 DEF WholeBundle
    <3>4. removal.at # "restored" /\ (registered # None => trash[registered] # None)
      BY <1>1, <2>4 DEF RecordKept
    <3>5. DeploySound(b)'
      BY <1>2, <2>1, <3>2, <3>3, <3>4 DEF DeploySound
    <3> QED
      BY <1>2, <2>1, <3>1, <3>4, <3>5 DEF StagingSound, RecordKept
  <2>5. CASE bundle # None
    <3>1. Bundles!Ends(b) /\ UNCHANGED <<staging, bundle>>
      BY <1>6, <2>5 DEF Bundles!RenameStaging
    <3>2. StagingSound'
      BY <1>3, <2>1, <3>1 DEF StagingSound
    <3> QED
      BY <1>1, <1>2, <1>5, <2>1, <3>1, <3>2 DEF RecordKept
  <2> QED
    BY <2>4, <2>5
<1>7. CASE Bundles!ValidatePlaced(b)
  <2>1. /\ deploys[b].at = "placed" /\ Bundles!Goes(b, "valid")
        /\ UNCHANGED <<staging, bundle, registered, interrupted>>
    BY <1>7 DEF Bundles!ValidatePlaced
  <2>2. deploys'[b].at = "valid"
    BY <1>2, <2>1 DEF Bundles!Goes, DeployRecord
  <2>3. DeploySound(b)'
    BY <1>1, <1>2, <2>1, <2>2 DEF DeploySound, WholeBundle
  <2>4. StagingSound'
    BY <1>3, <2>1 DEF StagingSound
  <2> QED
    BY <1>1, <1>2, <2>1, <2>3, <2>4 DEF RecordKept
<1>8. CASE Bundles!RegisterBundle(b)
  <2>1. /\ deploys[b].at = "valid" /\ Bundles!Ends(b)
        /\ UNCHANGED <<staging, bundle, interrupted>>
    BY <1>8 DEF Bundles!RegisterBundle
  <2>2. StagingSound'
    BY <1>3, <2>1 DEF StagingSound
  <2>3. RecordKept'
    BY <1>1, <1>2, <2>1 DEF RecordKept, DeploySound, WholeBundle
  <2> QED
    BY <1>5, <2>1, <2>2, <2>3
<1>9. CASE Bundles!Rollback(b)
  <2>1. /\ deploys[b].at \in {"placed", "valid"} /\ Bundles!Ends(b)
        /\ UNCHANGED <<registered, interrupted>>
        /\ \/ staging' = bundle /\ bundle' = None
           \/ UNCHANGED <<staging, bundle>>
    BY <1>9 DEF Bundles!Rollback
  <2>2. /\ WholeBundle /\ removal.at # "restored"
        /\ registered # None => trash[registered] # None
    BY <1>1, <2>1 DEF DeploySound
  <2>3. \A s \in Shard : Bundles!Part(s) \in bundle => s \in interrupted
    BY <2>2, NotMissing DEF WholeBundle
  <2>4. StagingSound'
    BY <1>3, <2>1, <2>3 DEF StagingSound
  <2> QED
    BY <1>2, <1>5, <2>1, <2>2, <2>4 DEF RecordKept
<1>10. CASE Bundles!DeployDies(b)
  <2>1. /\ Bundles!Ends(b) /\ UNCHANGED <<staging, bundle, registered>>
        /\ interrupted \subseteq interrupted'
        /\ deploys[b].at = "link" => deploys[b].shard \in interrupted'
    BY <1>10 DEF Bundles!DeployDies
  <2>2. StagingSound'
    BY <1>3, <2>1 DEF StagingSound
  <2> QED
    BY <1>1, <1>2, <1>5, <2>1, <2>2 DEF RecordKept
<1> QED
  BY <1>6, <1>7, <1>8, <1>9, <1>10

LEMMA DeploysNext ==
  ASSUME BundleInv, NEW b \in Deploy, Deploying(b)
  PROVE  BundleInv'
<1>1. BundleType' /\ RemovalSound'
  BY DeployTypes DEF BundleInv
<1>2. ~ overlapped' => BundleSound'
  BY DeployGathers, DeployPlaces DEF Deploying
<1> QED
  BY <1>1, <1>2 DEF BundleInv

\* Steps of the removal leave the deploys as they are.
LEMMA RemovalCalm ==
  ASSUME BundleInv,
         UNCHANGED <<deploys, staging, interrupted, overlapped>>,
         BundleType', RemovalSound',
         ~ overlapped =>
           /\ RecordKept'
           /\ (\E b \in Deploy : deploys[b].at \in {"placed", "valid"}) =>
                /\ bundle' = bundle /\ removal'.at # "restored"
                /\ registered' # None => trash'[registered'] # None
  PROVE  BundleInv'
<1>1. ASSUME ~ overlapped PROVE BundleSound'
  <2>1. Alone' /\ StagingSound'
    BY <1>1 DEF BundleInv, BundleSound, Alone, StagingSound
  <2>2. ASSUME NEW b \in Deploy PROVE DeploySound(b)'
    <3>1. DeploySound(b)
      BY <1>1 DEF BundleInv, BundleSound
    <3>2. CASE deploys[b].at \in {"placed", "valid"}
      BY <1>1, <3>1, <3>2 DEF DeploySound, WholeBundle
    <3>3. CASE deploys[b].at \notin {"placed", "valid"}
      BY <3>1, <3>3 DEF DeploySound
    <3> QED
      BY <3>2, <3>3
  <2> QED
    BY <1>1, <2>1, <2>2 DEF BundleSound
<1> QED
  BY <1>1 DEF BundleInv

LEMMA RemovalNext ==
  ASSUME BundleInv,
         \/ Bundles!QuarantineBundle \/ Bundles!RemoveBundleRecord \/ Bundles!BundleRecordStays
         \/ Bundles!EraseBundle \/ Bundles!EraseBundleFails \/ Bundles!RestoreBundleRecord
         \/ Bundles!RemovalDies \/ Bundles!OtherModel \/ UNCHANGED bundles
  PROVE  BundleInv'
<1> USE DEF DirectoryType
<1>a. Bundles!NoRemoval \in RemovalRecord /\ Bundles!NoRemoval.at = "idle"
  BY DEF Bundles!NoRemoval, RemovalRecord
<1>b. /\ BundleType /\ RemovalSound /\ removal.record \in Bundles!Bundle \cup {None}
      /\ removal \in RemovalRecord /\ trash \in [Bundles!Bundle -> Contents \cup {None}]
  BY DEF BundleInv, BundleType, RemovalRecord
\* What a deploy that has placed the bundle relies on.
<1>c. ASSUME ~ overlapped
      PROVE  /\ RecordKept
             /\ (\E b \in Deploy : deploys[b].at \in {"placed", "valid"}) =>
                  /\ bundle # None /\ removal.at # "restored"
                  /\ registered # None => trash[registered] # None
  BY <1>c DEF BundleInv, BundleSound, DeploySound, WholeBundle
<1>1. CASE Bundles!QuarantineBundle
  <2> DEFINE w == [at |-> "moved", record |-> registered]
  <2>1. /\ registered # None /\ trash[registered] = None /\ bundle = Bundles!Complete
        /\ trash' = [trash EXCEPT ![registered] = bundle] /\ bundle' = None /\ removal' = w
        /\ UNCHANGED <<deploys, staging, registered, interrupted, overlapped>>
    BY <1>1 DEF Bundles!QuarantineBundle, Bundles!LayoutValid
  <2>2. w \in RemovalRecord /\ w.at = "moved" /\ w.record = registered
    BY <1>b DEF RemovalRecord, BundleType
  <2> HIDE DEF w
  <2>3. registered \in Bundles!Bundle /\ bundle # None
    BY <1>b, <2>1, NotMissing DEF BundleType
  <2>4. /\ trash' \in [Bundles!Bundle -> Contents \cup {None}] /\ trash'[registered] = bundle
    BY <1>b, <2>1, <2>3, NotMissing
  <2>5. BundleType' /\ RemovalSound'
    BY <1>b, <2>1, <2>2, <2>3, <2>4 DEF BundleType, RemovalSound
  <2> QED
    BY <1>c, <2>1, <2>2, <2>3, <2>4, <2>5, RemovalCalm DEF RecordKept
<1>2. CASE Bundles!RemoveBundleRecord
  <2> DEFINE w == [removal EXCEPT !.at = "removed"]
  <2>1. /\ removal.at = "moved" /\ registered' = None /\ removal' = w
        /\ UNCHANGED <<deploys, staging, bundle, trash, interrupted, overlapped>>
    BY <1>2 DEF Bundles!RemoveBundleRecord
  <2>2. w \in RemovalRecord /\ w.at = "removed" /\ w.record = removal.record
    BY <1>b DEF RemovalRecord
  <2> HIDE DEF w
  <2>3. BundleType' /\ RemovalSound'
    BY <1>b, <2>1, <2>2, NotMissing DEF BundleType, RemovalSound
  <2> QED
    BY <2>1, <2>2, <2>3, RemovalCalm DEF RecordKept
<1>3. CASE Bundles!BundleRecordStays
  <2>1. /\ removal.at = "moved" /\ removal' = Bundles!NoRemoval
        /\ UNCHANGED <<deploys, staging, registered, interrupted, overlapped>>
    BY <1>3 DEF Bundles!BundleRecordStays
  <2>2. removal.record \in Bundles!Bundle /\ trash[removal.record] \in Contents
    BY <1>b, <2>1 DEF RemovalSound
  <2>3. CASE bundle = None
    <3>1. bundle' = trash[removal.record] /\ trash' = [trash EXCEPT ![removal.record] = None]
      BY <1>3, <2>3 DEF Bundles!BundleRecordStays
    <3>2. trash' \in [Bundles!Bundle -> Contents \cup {None}] /\ bundle' # None
      BY <1>b, <2>2, <3>1, NotMissing
    <3>3. BundleType' /\ RemovalSound'
      BY <1>a, <1>b, <2>1, <2>2, <3>1, <3>2 DEF BundleType, RemovalSound
    <3> QED
      BY <1>a, <1>c, <2>1, <2>3, <3>2, <3>3, RemovalCalm DEF RecordKept
  <2>4. CASE bundle # None
    <3>1. UNCHANGED <<bundle, trash>>
      BY <1>3, <2>4 DEF Bundles!BundleRecordStays
    <3>2. BundleType' /\ RemovalSound'
      BY <1>a, <1>b, <2>1, <3>1 DEF BundleType, RemovalSound
    <3> QED
      BY <1>a, <1>c, <2>1, <3>1, <3>2, RemovalCalm DEF RecordKept
  <2> QED
    BY <2>3, <2>4
<1>4. CASE Bundles!EraseBundle
  <2>1. /\ removal.at = "removed" /\ removal' = Bundles!NoRemoval
        /\ trash' = [trash EXCEPT ![removal.record] = None]
        /\ UNCHANGED <<deploys, staging, bundle, registered, interrupted, overlapped>>
    BY <1>4 DEF Bundles!EraseBundle
  <2>2. trash' \in [Bundles!Bundle -> Contents \cup {None}]
    BY <1>b, <2>1
  <2>3. registered # None => trash'[registered] = trash[registered]
    BY <1>b, <2>1 DEF RemovalSound, BundleType
  <2>4. BundleType' /\ RemovalSound'
    BY <1>a, <1>b, <2>1, <2>2 DEF BundleType, RemovalSound
  <2> QED
    BY <1>a, <1>c, <2>1, <2>3, <2>4, RemovalCalm DEF RecordKept
<1>5. CASE Bundles!EraseBundleFails
  <2>1. /\ removal.at = "removed" /\ removal.record \in Bundles!Bundle
        /\ trash[removal.record] \in Contents /\ registered # removal.record
        /\ UNCHANGED <<deploys, staging, registered, interrupted, overlapped>>
    BY <1>b, <1>5 DEF Bundles!EraseBundleFails, RemovalSound
  <2>2. CASE bundle = None
    <3> DEFINE w == [removal EXCEPT !.at = "restored"]
    <3>1. /\ bundle' \in SUBSET trash[removal.record] /\ removal' = w
          /\ trash' = [trash EXCEPT ![removal.record] = None]
      BY <1>5, <2>2 DEF Bundles!EraseBundleFails
    <3>2. w \in RemovalRecord /\ w.at = "restored" /\ w.record = removal.record
      BY <1>b DEF RemovalRecord
    <3> HIDE DEF w
    <3>3. bundle' \in Contents
      BY <2>1, <3>1 DEF Contents
    <3>4. /\ trash' \in [Bundles!Bundle -> Contents \cup {None}]
          /\ registered # None => trash'[registered] = trash[registered]
      BY <1>b, <2>1, <3>1 DEF BundleType
    <3>5. BundleType' /\ RemovalSound'
      BY <1>b, <2>1, <3>1, <3>2, <3>3, <3>4 DEF BundleType, RemovalSound
    <3>6. bundle' # None
      BY <3>3, NotMissing
    <3> QED
      BY <1>c, <2>1, <2>2, <3>5, <3>6, RemovalCalm DEF RecordKept
  <2>3. CASE bundle # None
    <3>1. UNCHANGED <<bundle, trash>> /\ removal' = Bundles!NoRemoval
      BY <1>5, <2>3 DEF Bundles!EraseBundleFails
    <3>2. BundleType' /\ RemovalSound'
      BY <1>a, <1>b, <2>1, <3>1 DEF BundleType, RemovalSound
    <3> QED
      BY <1>a, <1>c, <2>1, <3>1, <3>2, RemovalCalm DEF RecordKept
  <2> QED
    BY <2>2, <2>3
<1>6. CASE Bundles!RestoreBundleRecord
  <2>1. /\ removal.at = "restored" /\ removal' = Bundles!NoRemoval /\ registered' = removal.record
        /\ UNCHANGED <<deploys, staging, bundle, trash, interrupted, overlapped>>
    BY <1>6 DEF Bundles!RestoreBundleRecord
  <2>2. BundleType' /\ RemovalSound'
    BY <1>a, <1>b, <2>1 DEF BundleType, RemovalSound
  <2> QED
    BY <1>a, <1>c, <2>1, <2>2, RemovalCalm DEF RecordKept
<1>7. CASE Bundles!RemovalDies
  <2>1. /\ removal' = Bundles!NoRemoval
        /\ UNCHANGED <<deploys, staging, bundle, trash, registered, interrupted, overlapped>>
    BY <1>7 DEF Bundles!RemovalDies
  <2>2. BundleType' /\ RemovalSound'
    BY <1>a, <1>b, <2>1 DEF BundleType, RemovalSound
  <2> QED
    BY <1>a, <1>c, <2>1, <2>2, RemovalCalm DEF RecordKept
<1>8. CASE Bundles!OtherModel \/ UNCHANGED bundles
  <2>1. UNCHANGED <<deploys, removal, staging, bundle, trash, registered, interrupted, overlapped>>
    BY <1>8 DEF Bundles!OtherModel, bundles
  <2>2. BundleType' /\ RemovalSound'
    BY <1>b, <2>1 DEF BundleType, RemovalSound
  <2> QED
    BY <1>c, <2>1, <2>2, RemovalCalm DEF RecordKept
<1> QED
  BY <1>1, <1>2, <1>3, <1>4, <1>5, <1>6, <1>7, <1>8

\* The invariant holds in every state.
LEMMA BundleHolds == Spec => []BundleInv
<1>1. Init => BundleInv
  BY BundleInit DEF Init
<1>2. BundleInv /\ [Next]_vars => BundleInv'
  BY PartSteps, DeploysNext, RemovalNext DEF Bundles!Next, Deploying
<1> QED
  BY <1>1, <1>2, PTL DEF Spec

\* What a deploy registers is the shards and what killed deploys left.
LEMMA RegisteredHolds == Spec => Bundles!RegisteredWhole
<1> DEFINE Registers ==
      registered = None /\ registered' # None /\ removal.at # "restored" /\ ~ overlapped
        => /\ bundle # None /\ Bundles!Complete \subseteq bundle
           /\ bundle \subseteq Bundles!Complete \cup {Bundles!Part(s) : s \in interrupted}
<1>1. BundleInv /\ [Next]_vars => [Registers]_(Bundles!vars)
  <2> SUFFICES ASSUME BundleInv, Bundles!Next, registered = None, registered' # None,
                      removal.at # "restored", ~ overlapped
               PROVE  WholeBundle
    BY PartSteps DEF bundles, Bundles!vars, WholeBundle
  <2>1. PICK b \in Deploy : Bundles!RegisterBundle(b)
    BY DEF Bundles!Next, Bundles!PrepareStaging, Bundles!OpenPart, Bundles!LinkShard,
       Bundles!RemovePart, Bundles!FailShard, Bundles!RenameStaging, Bundles!ValidatePlaced,
       Bundles!Rollback, Bundles!DeployDies, Bundles!ReportShard, Bundles!FindShard,
       Bundles!OtherModel, Bundles!QuarantineBundle, Bundles!RemoveBundleRecord,
       Bundles!BundleRecordStays, Bundles!EraseBundle, Bundles!EraseBundleFails,
       Bundles!RestoreBundleRecord, Bundles!RemovalDies
  <2> QED
    BY <2>1 DEF BundleInv, BundleSound, DeploySound, Bundles!RegisterBundle
<1> QED
  BY <1>1, BundleHolds, PTL DEF Spec, Bundles!RegisteredWhole

-----------------------------------------------------------------------------
\* An engine's directory is entered in the registry only by the command that
\* made it under its version's lock; weights are erased only after their record
\* has left the registry; and a bundle is registered with its shards whole and
\* nothing else but what a deploy that was killed left, as long as no two deploys
\* of it overlapped, for any number of commands, records and shards (upsert,
\* delete, download_deployment_bundle).
THEOREM RecordsAlwaysMatchFiles == Spec => RecordsMatchFiles
<1>1. EngineInv => Engines!TypeOK
  BY DEF EngineInv, EngineType, Engines!TypeOK, InstallRecord
<1> QED
  BY <1>1, EngineHolds, InstalledAlwaysAsProbed, NeverAdoptedHolds, ErasedHolds, RegisteredHolds,
     PTL DEF RecordsMatchFiles

-----------------------------------------------------------------------------
(***************************************************************************)
(* The local service.  A command holds the handles of the start it is      *)
(* about, and of no start of another command, until its state is written   *)
(* and all its processes were seen to run, or until it is killed.  While   *)
(* the state is written, whatever runs of the start is described by it, or *)
(* the start is counted as lost; a process that has ended never runs again.*)
(* So what a stop has ended stays ended until it removes the state.        *)
(***************************************************************************)
Holding == {"engine", "monitor", "proxy", "written", "healthy", "reaped", "removed"}
Ending ==
  {"stale", "stop_proxy", "stop_engine", "stop_own_monitor", "stop_monitor", "stop_last_proxy",
   "stopped"}
Life == {"none", "running", "gone", "reused"}
Role == Service!Role
Start == Service!Start
CommandRecord == [at : Holding \cup Ending \cup {"idle", "checked"}, start : Start \cup {None}]

ServiceType ==
  /\ process \in [Start -> [Role -> Life]]
  /\ state_file \in Start \cup {None} /\ port_of \in Start \cup {None}
  /\ held \in [Start -> BOOLEAN] /\ foreign_hit = FALSE /\ lost \subseteq Start
  /\ commands \in [Command -> CommandRecord]

Complete(g) == \A r \in Role : process[g][r] # "none"
SomeRuns(g) == \E r \in Role : process[g][r] = "running"
Stays(g) == SomeRuns(g) => state_file = g \/ g \in lost

\* The roles that a command has ended, or found to have ended.
Ended(step) ==
  CASE step \in {"stale", "stopped"} -> Role
    [] step = "stop_engine" -> {"proxy"}
    [] step = "stop_own_monitor" -> {"proxy", "engine"}
    [] step = "stop_monitor" -> {"engine"}
    [] step = "stop_last_proxy" -> {"engine", "monitor"}
    [] OTHER -> {}

CommandSound(c) ==
  LET g == commands[c].start
      step == commands[c].at
  IN /\ step \in Holding => g \in Start /\ held[g] /\ process[g]["engine"] # "none"
     /\ step = "engine" => process[g]["monitor"] = "none" /\ process[g]["proxy"] = "none"
     /\ step = "monitor" => process[g]["monitor"] # "none" /\ process[g]["proxy"] = "none"
     /\ step \in {"proxy", "written", "healthy", "reaped", "removed"} => Complete(g)
     /\ step \in {"written", "healthy"} => Stays(g)
     /\ step \in Ending => g \in Start /\ Complete(g)
     /\ \A r \in Ended(step) : process[g][r] # "running"

OneHolder ==
  \A c, d \in Command :
    c # d /\ commands[c].at \in Holding /\ commands[d].at \in Holding =>
      commands[c].start # commands[d].start

Recorded == state_file # None => Complete(state_file)

ServiceInv ==
  /\ ServiceType /\ OneHolder /\ Recorded /\ Service!NoOrphan
  /\ \A c \in Command : CommandSound(c)

\* The processes of a start only end.
Evolved(h) ==
  \A r \in Role : /\ process'[h][r] = "none" <=> process[h][r] = "none"
                  /\ process'[h][r] = "running" => process[h][r] = "running"
\* The start stays recorded.
Keeps(h) == SomeRuns(h)' /\ state_file = h => state_file' = h \/ h \in lost'

LEMMA RoleKinds == Role = {"engine", "monitor", "proxy"} /\ Start = 1 .. MaxStarts /\ None \notin Start
  BY ServiceAssumption DEF Role, Start, Service!Role, Service!Start

\* What a signal does.
LEMMA SignalledEnds ==
  ASSUME ServiceType, NEW g \in Start, NEW roles, process' = Service!Signalled(process, g, roles)
  PROVE  /\ process' \in [Start -> [Role -> Life]]
         /\ \A h \in Start : Evolved(h)
         /\ \A r \in Role : r \in roles => process'[g][r] # "running"
         /\ \A h \in Start : h # g => process'[h] = process[h]
<1>1. process \in [Start -> [Role -> Life]]
  BY DEF ServiceType
<1>2. process' = [process EXCEPT ![g] = [r \in Role |-> IF r \in roles /\ process[g][r] = "running"
                                                      THEN "gone" ELSE process[g][r]]]
  BY DEF Service!Signalled, Role
<1>3. process'[g] = [r \in Role |-> IF r \in roles /\ process[g][r] = "running"
                                    THEN "gone" ELSE process[g][r]]
  BY <1>1, <1>2
<1>4. process'[g] \in [Role -> Life]
  BY <1>1, <1>3 DEF Life
<1>5. process' \in [Start -> [Role -> Life]] /\ \A h \in Start : h # g => process'[h] = process[h]
  BY <1>1, <1>2, <1>3, <1>4
<1>6. Evolved(g)
  BY <1>3 DEF Evolved
<1>7. \A h \in Start : Evolved(h)
  BY <1>5, <1>6 DEF Evolved
<1> QED
  BY <1>3, <1>5, <1>7

\* A command that another step leaves alone stays sound.
LEMMA OneKept ==
  ASSUME NEW d \in Command, CommandSound(d), commands'[d] = commands[d],
         lost \subseteq lost',
         commands[d].at \in Holding \cup Ending => Evolved(commands[d].start),
         commands[d].at \in Holding =>
           held'[commands[d].start] = held[commands[d].start] /\ Keeps(commands[d].start)
  PROVE  CommandSound(d)'
<1> DEFINE g == commands[d].start
           step == commands[d].at
<1>0. commands'[d].start = g /\ commands'[d].at = step
  OBVIOUS
<1>1. CASE step \notin Holding \cup Ending
  BY <1>0, <1>1 DEF CommandSound, Holding, Ending, Ended
<1>2. CASE step \in Holding
  <2>1. Evolved(g) /\ held'[g] = held[g] /\ Keeps(g)
    BY <1>2
  <2>2. Complete(g) => Complete(g)'
    BY <2>1 DEF Complete, Evolved
  <2>3. Stays(g) => Stays(g)'
    BY <2>1 DEF Stays, Keeps, SomeRuns, Evolved
  <2>4. step \notin Ending /\ Ended(step) = {}
    BY <1>2 DEF Holding, Ending, Ended
  <2> QED
    BY <1>0, <1>2, <2>1, <2>2, <2>3, <2>4, RoleKinds DEF CommandSound, Evolved
<1>3. CASE step \in Ending
  <2>1. Evolved(g) /\ step \notin Holding \cup {"proxy", "written", "healthy", "reaped", "removed"}
    BY <1>3 DEF Holding, Ending
  <2>2. Complete(g) => Complete(g)'
    BY <2>1 DEF Complete, Evolved
  <2>3. Ended(step) \subseteq Role
    BY RoleKinds DEF Ended
  <2> QED
    BY <1>0, <1>3, <2>1, <2>2, <2>3 DEF CommandSound, Evolved, Holding
<1> QED
  BY <1>1, <1>2, <1>3

\* Whose handles a command comes to hold, nobody else holds.
Joins(c) ==
  commands'[c].at \in Holding =>
    \/ commands[c].at \in Holding /\ commands'[c].start = commands[c].start
    \/ \A d \in Command \ {c} : commands[d].at \in Holding => commands[d].start # commands'[c].start

\* What a step of one command has to keep.
LEMMA ServiceKept ==
  ASSUME ServiceInv, NEW c \in Command, ServiceType',
         \A d \in Command \ {c} : commands'[d] = commands[d],
         lost \subseteq lost',
         \A d \in Command \ {c} :
           commands[d].at \in Holding \cup Ending => Evolved(commands[d].start),
         \A d \in Command \ {c} : commands[d].at \in Holding =>
           held'[commands[d].start] = held[commands[d].start] /\ Keeps(commands[d].start),
         CommandSound(c)', Recorded', Service!NoOrphan', Joins(c)
  PROVE  ServiceInv'
<1>1. ASSUME NEW d \in Command, d # c PROVE CommandSound(d)'
  <2>1. CommandSound(d)
    BY DEF ServiceInv
  <2> QED
    BY <1>1, <2>1, OneKept
<1>2. OneHolder'
  BY DEF ServiceInv, OneHolder, Joins
<1> QED
  BY <1>1, <1>2 DEF ServiceInv

\* Where a command goes.
LEMMA Going ==
  ASSUME ServiceType, NEW c \in Command,
         NEW step \in Holding \cup Ending \cup {"idle", "checked"}, Service!Goes(c, step)
  PROVE  /\ commands' \in [Command -> CommandRecord]
         /\ commands'[c].at = step /\ commands'[c].start = commands[c].start
         /\ \A d \in Command \ {c} : commands'[d] = commands[d]
  BY DEF Service!Goes, ServiceType, CommandRecord

LEMMA Restarting ==
  ASSUME ServiceType, NEW c \in Command,
         NEW step \in Holding \cup Ending \cup {"idle", "checked"}, NEW g \in Start \cup {None},
         commands' = [commands EXCEPT ![c] = [at |-> step, start |-> g]]
  PROVE  /\ commands' \in [Command -> CommandRecord]
         /\ commands'[c].at = step /\ commands'[c].start = g
         /\ \A d \in Command \ {c} : commands'[d] = commands[d]
  BY DEF ServiceType, CommandRecord

LEMMA ServiceCheck ==
  ASSUME ServiceInv, NEW c \in Command, Service!CheckState(c) PROVE ServiceInv'
<1>1. ServiceType /\ UNCHANGED <<process, state_file, port_of, held, foreign_hit, lost>>
      /\ Service!StartAllowed
  BY DEF ServiceInv, Service!CheckState
<1> DEFINE step == IF state_file = None THEN "checked" ELSE "stale"
<1>2. /\ commands' \in [Command -> CommandRecord]
      /\ commands'[c].at = step /\ commands'[c].start = state_file
      /\ \A d \in Command \ {c} : commands'[d] = commands[d]
  <2>1. step \in Holding \cup Ending \cup {"idle", "checked"} /\ state_file \in Start \cup {None}
    BY <1>1 DEF Ending, ServiceType
  <2> QED
    BY <1>1, <2>1, Restarting DEF Service!CheckState
<1>3. ServiceType'
  BY <1>1, <1>2 DEF ServiceType
<1>4. CommandSound(c)'
  <2>1. CASE state_file = None
    BY <1>2, <2>1 DEF CommandSound, Holding, Ending, Ended
  <2>2. CASE state_file # None
    <3>1. state_file \in Start /\ Complete(state_file)
      BY <1>1, <2>2 DEF ServiceType, ServiceInv, Recorded
    <3>2. \A r \in Role : process[state_file][r] # "running"
      BY <1>1, <2>2, RoleKinds
         DEF Service!StartAllowed, Service!PidAlive, Service!Verified, Service!Running
    <3>3. commands'[c].at = "stale" /\ Ended("stale") = Role
      BY <1>2, <2>2 DEF Ended
    <3>4. Complete(state_file)'
      BY <1>1, <3>1 DEF Complete
    <3> QED
      BY <1>1, <1>2, <3>1, <3>2, <3>3, <3>4 DEF CommandSound, Holding
  <2> QED
    BY <2>1, <2>2
<1>5. Recorded' /\ Service!NoOrphan'
  BY <1>1 DEF ServiceInv, Recorded, Complete, Service!NoOrphan, Service!Running
<1>6. \A h : Evolved(h) /\ Keeps(h)
  BY <1>1 DEF Evolved, Keeps
<1>7. Joins(c)
  BY <1>2 DEF Joins, Holding
<1> QED
  BY <1>1, <1>2, <1>3, <1>4, <1>5, <1>6, <1>7, ServiceKept

\* A state that is removed or written over describes nothing that runs, or the
\* start is counted as lost.
LEMMA Replacing ==
  ASSUME ServiceInv, NEW c \in Command, Service!Replaces(c),
         \A r \in Role : state_file = commands[c].start => process[state_file][r] # "running",
         UNCHANGED <<process, held>>
  PROVE  /\ lost' \subseteq Start /\ lost \subseteq lost'
         /\ \A h \in Start : Keeps(h) /\ Evolved(h)
         /\ Service!NoOrphan'
<1>1. lost' = lost \cup ({state_file} \ {None, commands[c].start})
  BY DEF Service!Replaces
<1>2. lost' \subseteq Start /\ lost \subseteq lost'
  BY <1>1 DEF ServiceInv, ServiceType
<1>3. ASSUME NEW h \in Start, state_file = h, h \notin lost'
      PROVE  \A r \in Role : process[h][r] # "running"
  BY <1>1, <1>3, RoleKinds
<1>4. \A h \in Start : Keeps(h) /\ Evolved(h)
  BY <1>3, RoleKinds DEF Keeps, Evolved, SomeRuns
<1>5. Service!NoOrphan'
  BY <1>2, <1>3 DEF ServiceInv, Service!NoOrphan, Service!Running, Start, Role
<1> QED
  BY <1>2, <1>4, <1>5

LEMMA ServiceRemoves ==
  ASSUME ServiceInv, NEW c \in Command, Service!RemoveStale(c) \/ Service!FinishStop(c)
  PROVE  ServiceInv'
<1>1. /\ ServiceType /\ CommandSound(c) /\ commands[c].at \in {"stale", "stopped"}
      /\ state_file # None /\ state_file' = None /\ Service!Replaces(c)
      /\ UNCHANGED <<process, port_of, held, foreign_hit>>
  BY DEF ServiceInv, Service!RemoveStale, Service!FinishStop, Service!At
<1>2. /\ commands' \in [Command -> CommandRecord]
      /\ commands'[c].at \in {"idle", "checked"}
      /\ \A d \in Command \ {c} : commands'[d] = commands[d]
  BY <1>1, Restarting DEF Service!RemoveStale, Service!FinishStop, Service!Idle
<1>3. \A r \in Role : process[commands[c].start][r] # "running"
  BY <1>1 DEF CommandSound, Ended
<1>4. /\ lost' \subseteq Start /\ lost \subseteq lost'
      /\ \A h \in Start : Keeps(h) /\ Evolved(h)
      /\ Service!NoOrphan'
  BY <1>1, <1>3, Replacing
<1>5. ServiceType'
  BY <1>1, <1>2, <1>4 DEF ServiceType
<1>6. CommandSound(c)' /\ Joins(c) /\ Recorded'
  BY <1>1, <1>2 DEF CommandSound, Joins, Recorded, Holding, Ending, Ended
<1>7. \A d \in Command : commands[d].at \in Holding \cup Ending => commands[d].start \in Start
  BY DEF ServiceInv, CommandSound
<1> QED
  BY <1>1, <1>2, <1>4, <1>5, <1>6, <1>7, ServiceKept

LEMMA ServiceWrites ==
  ASSUME ServiceInv, NEW c \in Command, Service!WriteState(c) PROVE ServiceInv'
<1> DEFINE g == commands[c].start
<1>1. /\ ServiceType /\ CommandSound(c) /\ commands[c].at = "proxy" /\ Service!Goes(c, "written")
      /\ state_file' = g /\ Service!Replaces(c)
      /\ UNCHANGED <<process, port_of, held, foreign_hit>>
  BY DEF ServiceInv, Service!WriteState, Service!At
<1>2. /\ commands' \in [Command -> CommandRecord]
      /\ commands'[c].at = "written" /\ commands'[c].start = g
      /\ \A d \in Command \ {c} : commands'[d] = commands[d]
  BY <1>1, Going DEF Holding
<1>3. g \in Start /\ held[g] /\ process[g]["engine"] # "none" /\ Complete(g)
  BY <1>1 DEF CommandSound, Holding
<1>4. lost' = lost \cup ({state_file} \ {None, g})
  BY <1>1 DEF Service!Replaces
<1>5. ServiceType'
  BY <1>1, <1>2, <1>3, <1>4 DEF ServiceType
<1>6. \A h \in Start : Keeps(h) /\ Evolved(h)
  BY <1>1, <1>4, RoleKinds DEF Keeps, Evolved
<1>7. CommandSound(c)'
  BY <1>1, <1>2, <1>3 DEF CommandSound, Complete, Stays, Holding, Ending, Ended
<1>8. Recorded'
  BY <1>1, <1>3 DEF Recorded, Complete
<1>9. Service!NoOrphan'
  <2> SUFFICES ASSUME NEW h \in Start, NEW r \in Role, process[h][r] = "running"
               PROVE  held[h] \/ state_file' = h \/ h \in lost'
    BY <1>1 DEF Service!NoOrphan, Service!Running, Start, Role
  <2>1. held[h] \/ state_file = h \/ h \in lost
    BY DEF ServiceInv, Service!NoOrphan, Service!Running, Start, Role
  <2> QED
    BY <1>1, <1>4, <2>1, RoleKinds
<1>10. Joins(c)
  BY <1>1, <1>2 DEF Joins, Holding
<1>11. \A d \in Command : commands[d].at \in Holding \cup Ending => commands[d].start \in Start
  BY DEF ServiceInv, CommandSound
<1> QED
  BY <1>1, <1>2, <1>4, <1>5, <1>6, <1>7, <1>8, <1>9, <1>10, <1>11, ServiceKept

\* Every process that runs is accounted for after it changed none.
LEMMA OrphanKept ==
  ASSUME ServiceInv, lost \subseteq lost', state_file' = state_file,
         \A h \in Start : Evolved(h),
         \A h \in Start : held'[h] \/ ~ held[h] \/ (\A r \in Role : process'[h][r] # "running")
  PROVE  Service!NoOrphan' /\ Recorded'
<1>1. Service!NoOrphan'
  <2> SUFFICES ASSUME NEW h \in Start, NEW r \in Role, process'[h][r] = "running"
               PROVE  held'[h] \/ state_file' = h \/ h \in lost'
    BY DEF Service!NoOrphan, Service!Running, Start, Role
  <2>1. process[h][r] = "running"
    BY DEF Evolved
  <2>2. held[h] \/ state_file = h \/ h \in lost
    BY <2>1 DEF ServiceInv, Service!NoOrphan, Service!Running, Start, Role
  <2> QED
    BY <2>2
<1>2. Recorded'
  BY DEF ServiceInv, ServiceType, Recorded, Complete, Evolved
<1> QED
  BY <1>1, <1>2

LEMMA ServiceSpawnsEngine ==
  ASSUME ServiceInv, NEW c \in Command, Service!SpawnEngine(c) PROVE ServiceInv'
<1>1. PICK g \in Service!Unspawned :
        /\ commands' = [commands EXCEPT ![c] = [at |-> "engine", start |-> g]]
        /\ process' = [process EXCEPT ![g]["engine"] = "running"]
        /\ held' = [held EXCEPT ![g] = TRUE]
  BY DEF Service!SpawnEngine
<1>2. /\ ServiceType /\ commands[c].at = "checked" /\ UNCHANGED <<state_file, port_of, foreign_hit, lost>>
  BY DEF ServiceInv, Service!SpawnEngine, Service!At
<1>3. g \in Start /\ \A r \in Role : process[g][r] = "none"
  BY DEF Service!Unspawned, Start, Role
<1>4. /\ commands' \in [Command -> CommandRecord]
      /\ commands'[c].at = "engine" /\ commands'[c].start = g
      /\ \A d \in Command \ {c} : commands'[d] = commands[d]
  BY <1>1, <1>2, <1>3, Restarting DEF Holding
<1>5. /\ process' \in [Start -> [Role -> Life]] /\ process'[g]["engine"] = "running"
      /\ process'[g]["monitor"] = "none" /\ process'[g]["proxy"] = "none"
      /\ \A h \in Start \ {g} : process'[h] = process[h]
      /\ held' \in [Start -> BOOLEAN] /\ held'[g] /\ \A h \in Start \ {g} : held'[h] = held[h]
  BY <1>1, <1>2, <1>3, RoleKinds DEF ServiceType, Life
<1>6. ServiceType'
  BY <1>2, <1>4, <1>5 DEF ServiceType
<1>7. ASSUME NEW d \in Command, commands[d].at \in Holding \cup Ending
      PROVE  commands[d].start \in Start \ {g}
  BY <1>3, <1>7, RoleKinds DEF ServiceInv, CommandSound, Complete
<1>8. \A h \in Start \ {g} : Evolved(h) /\ Keeps(h)
  BY <1>2, <1>5 DEF Evolved, Keeps
<1>9. CommandSound(c)'
  BY <1>3, <1>4, <1>5 DEF CommandSound, Holding, Ending, Ended
<1>10. state_file # g
  BY <1>3, RoleKinds DEF ServiceInv, Recorded, Complete
<1>11. Recorded'
  BY <1>2, <1>5, <1>10 DEF ServiceInv, ServiceType, Recorded, Complete
<1>12. Service!NoOrphan'
  BY <1>2, <1>5 DEF ServiceInv, Service!NoOrphan, Service!Running, Start, Role
<1>13. Joins(c)
  BY <1>4, <1>7 DEF Joins
<1> QED
  BY <1>2, <1>4, <1>5, <1>6, <1>7, <1>8, <1>9, <1>11, <1>12, <1>13, ServiceKept

LEMMA ServiceSpawns ==
  ASSUME ServiceInv, NEW c \in Command, Service!SpawnMonitor(c) \/ Service!SpawnProxy(c)
  PROVE  ServiceInv'
<1> DEFINE g == commands[c].start
           new == IF commands[c].at = "engine" THEN "monitor" ELSE "proxy"
<1>1. /\ ServiceType /\ CommandSound(c) /\ commands[c].at \in {"engine", "monitor"}
      /\ process' = [process EXCEPT ![g][new] = "running"] /\ Service!Goes(c, new)
      /\ UNCHANGED <<state_file, port_of, held, foreign_hit, lost>>
  BY DEF ServiceInv, Service!SpawnMonitor, Service!SpawnProxy, Service!At
<1>2. g \in Start /\ held[g] /\ process[g]["engine"] # "none" /\ process[g][new] = "none" /\ new \in Role
      /\ (new = "proxy" => process[g]["monitor"] # "none")
  BY <1>1, RoleKinds DEF CommandSound, Holding
<1>3. /\ commands' \in [Command -> CommandRecord]
      /\ commands'[c].at = new /\ commands'[c].start = g
      /\ \A d \in Command \ {c} : commands'[d] = commands[d]
  BY <1>1, Going DEF Holding
<1>4. /\ process' \in [Start -> [Role -> Life]] /\ process'[g][new] = "running"
      /\ \A r \in Role \ {new} : process'[g][r] = process[g][r]
      /\ \A h \in Start \ {g} : process'[h] = process[h]
  BY <1>1, <1>2 DEF ServiceType, Life
<1>5. ServiceType'
  BY <1>1, <1>3, <1>4 DEF ServiceType
<1>6. ASSUME NEW d \in Command \ {c}, commands[d].at \in Holding \cup Ending
      PROVE  commands[d].start \in Start \ {g}
  <2>1. CASE commands[d].at \in Holding
    BY <1>1, <2>1 DEF ServiceInv, OneHolder, CommandSound, Holding
  <2>2. CASE commands[d].at \in Ending
    BY <1>2, <2>2 DEF ServiceInv, CommandSound, Complete
  <2> QED
    BY <1>6, <2>1, <2>2
<1>7. \A h \in Start \ {g} : Evolved(h) /\ Keeps(h)
  BY <1>1, <1>4 DEF Evolved, Keeps
<1>8. CommandSound(c)'
  <2>1. CASE new = "monitor"
    <3>1. process'[g]["proxy"] = "none"
      <4>1. commands[c].at = "engine"
        BY <1>1, <2>1
      <4> QED
        BY <1>1, <1>4, <2>1, <4>1, RoleKinds DEF CommandSound
    <3> QED
      BY <1>1, <1>2, <1>3, <1>4, <2>1, <3>1, RoleKinds DEF CommandSound, Holding, Ending, Ended
  <2>2. CASE new = "proxy"
    <3>1. /\ process'[g]["engine"] = process[g]["engine"]
          /\ process'[g]["monitor"] = process[g]["monitor"]
          /\ process'[g]["proxy"] = "running"
      BY <1>4, <2>2, RoleKinds
    <3>2. process[g]["engine"] # "none" /\ process[g]["monitor"] # "none"
      BY <1>2, <2>2
    <3>3. \A r \in Role : process'[g][r] # "none"
      BY <3>1, <3>2, RoleKinds
    <3> QED
      BY <1>1, <1>2, <1>3, <1>4, <2>2, <3>3, RoleKinds
         DEF CommandSound, Complete, Holding, Ending, Ended
  <2> QED
    BY <2>1, <2>2
<1>9. Recorded'
  BY <1>1, <1>2, <1>4 DEF ServiceInv, ServiceType, Recorded, Complete
<1>10. Service!NoOrphan'
  BY <1>1, <1>2, <1>4 DEF ServiceInv, Service!NoOrphan, Service!Running, Start, Role
<1>11. Joins(c)
  BY <1>1, <1>3 DEF Joins, Holding
<1> QED
  BY <1>1, <1>3, <1>5, <1>6, <1>7, <1>8, <1>9, <1>10, <1>11, ServiceKept

\* The processes of a start end by themselves, or what takes their PID does.
LEMMA ServiceWorld ==
  ASSUME ServiceInv, ServiceType', UNCHANGED <<commands, state_file, held, lost>>,
         \A h \in Start : Evolved(h)
  PROVE  ServiceInv'
<1>1. Service!NoOrphan' /\ Recorded'
  BY OrphanKept
<1>2. ASSUME NEW d \in Command PROVE CommandSound(d)'
  <2>1. CommandSound(d)
    BY DEF ServiceInv
  <2>2. commands[d].at \in Holding \cup Ending => commands[d].start \in Start
    BY <2>1 DEF CommandSound
  <2>3. \A h \in Start : Keeps(h)
    BY DEF Keeps
  <2> QED
    BY <2>1, <2>2, <2>3, OneKept
<1>3. OneHolder'
  BY DEF ServiceInv, OneHolder
<1> QED
  BY <1>1, <1>2, <1>3 DEF ServiceInv

LEMMA ServiceEnds ==
  ASSUME ServiceInv, NEW g \in Start, NEW r \in Role,
         Service!ProxyBinds(g) \/ Service!Exits(g, r) \/ Service!PidReused(g, r)
  PROVE  ServiceInv'
<1>1. UNCHANGED <<commands, state_file, held, foreign_hit, lost>> /\ ServiceType
  BY DEF ServiceInv, Service!ProxyBinds, Service!Exits, Service!PidReused
<1>2. /\ process' \in [Start -> [Role -> Life]] /\ port_of' \in Start \cup {None}
      /\ \A h \in Start : Evolved(h)
  <2>1. CASE Service!ProxyBinds(g)
    <3>1. CASE port_of = None
      BY <1>1, <2>1, <3>1 DEF Service!ProxyBinds, ServiceType, Evolved
    <3>2. CASE port_of # None
      <4>1. /\ process' = [process EXCEPT ![g]["proxy"] = "gone"] /\ port_of' = port_of
            /\ process[g]["proxy"] = "running" /\ "proxy" \in Role
        BY <2>1, <3>2, RoleKinds DEF Service!ProxyBinds, Service!Running
      <4>2. /\ process' \in [Start -> [Role -> Life]]
            /\ \A h \in Start, p \in Role :
                 process'[h][p] = IF h = g /\ p = "proxy" THEN "gone" ELSE process[h][p]
        BY <1>1, <4>1 DEF ServiceType, Life
      <4> QED
        BY <1>1, <4>1, <4>2 DEF ServiceType, Evolved
    <3> QED
      BY <3>1, <3>2
  <2>2. CASE Service!Exits(g, r)
    BY <1>1, <2>2 DEF Service!Exits, Service!PortAfter, Service!Running, ServiceType, Evolved, Life
  <2>3. CASE Service!PidReused(g, r)
    BY <1>1, <2>3 DEF Service!PidReused, ServiceType, Evolved, Life
  <2> QED
    BY <2>1, <2>2, <2>3
<1> QED
  BY <1>1, <1>2, ServiceWorld DEF ServiceType

\* A start goes on, hands its processes over or gives up.
LEMMA ServiceWaits ==
  ASSUME ServiceInv, NEW c \in Command, Service!WaitHealthy(c) PROVE ServiceInv'
<1>1. /\ ServiceType /\ CommandSound(c) /\ commands[c].at = "written" /\ Service!Goes(c, "healthy")
      /\ UNCHANGED <<process, state_file, port_of, held, foreign_hit, lost>>
  BY DEF ServiceInv, Service!WaitHealthy, Service!At
<1>2. /\ commands' \in [Command -> CommandRecord]
      /\ commands'[c].at = "healthy" /\ commands'[c].start = commands[c].start
      /\ \A d \in Command \ {c} : commands'[d] = commands[d]
  BY <1>1, Going DEF Holding
<1>3. \A h : Evolved(h) /\ Keeps(h)
  BY <1>1 DEF Evolved, Keeps
<1>4. ServiceType'
  BY <1>1, <1>2 DEF ServiceType
<1>5. Service!NoOrphan' /\ Recorded'
  BY <1>1, <1>3, OrphanKept
<1>6. CommandSound(c)' /\ Joins(c)
  BY <1>1, <1>2 DEF CommandSound, Complete, Stays, SomeRuns, Joins, Holding, Ending, Ended
<1> QED
  BY <1>1, <1>2, <1>3, <1>4, <1>5, <1>6, ServiceKept

LEMMA ServiceHandsOff ==
  ASSUME ServiceInv, NEW c \in Command, Service!HandOff(c) PROVE ServiceInv'
<1> DEFINE g == commands[c].start
<1>1. /\ ServiceType /\ CommandSound(c) /\ commands[c].at = "healthy" /\ Service!HandoffChildren(g)
      /\ held' = [held EXCEPT ![g] = FALSE]
      /\ commands' = [commands EXCEPT ![c] = [at |-> "idle", start |-> None]]
      /\ UNCHANGED <<process, state_file, port_of, foreign_hit, lost>>
  BY DEF ServiceInv, Service!HandOff, Service!At, Service!Idle
<1>2. /\ commands' \in [Command -> CommandRecord] /\ commands'[c].at = "idle"
      /\ \A d \in Command \ {c} : commands'[d] = commands[d]
  BY <1>1, Restarting
<1>3. g \in Start /\ (state_file = g \/ g \in lost)
  <2>1. SomeRuns(g)
    BY <1>1, RoleKinds DEF SomeRuns, Service!HandoffChildren, Service!Running, Role
  <2> QED
    BY <1>1, <2>1 DEF CommandSound, Holding, Stays
<1>4. held' \in [Start -> BOOLEAN] /\ \A h \in Start \ {g} : held'[h] = held[h]
  BY <1>1, <1>3 DEF ServiceType
<1>5. ServiceType'
  BY <1>1, <1>2, <1>4 DEF ServiceType
<1>6. \A h : Evolved(h) /\ Keeps(h)
  BY <1>1 DEF Evolved, Keeps
<1>7. ASSUME NEW d \in Command \ {c}, commands[d].at \in Holding
      PROVE  commands[d].start \in Start \ {g}
  BY <1>1, <1>7 DEF ServiceInv, OneHolder, CommandSound, Holding
<1>8. Service!NoOrphan' /\ Recorded'
  BY <1>1, <1>3, <1>4
     DEF ServiceInv, Service!NoOrphan, Service!Running, Start, Role, Recorded, Complete
<1>9. CommandSound(c)' /\ Joins(c)
  BY <1>2 DEF CommandSound, Joins, Holding, Ending, Ended
<1> QED
  BY <1>1, <1>2, <1>4, <1>5, <1>6, <1>7, <1>8, <1>9, ServiceKept

LEMMA ServiceCompensates ==
  ASSUME ServiceInv, NEW c \in Command, Service!Compensate(c) PROVE ServiceInv'
<1> DEFINE g == commands[c].start
<1>1. /\ ServiceType /\ CommandSound(c) /\ commands[c].at \in {"proxy", "written", "healthy"}
      /\ process' = Service!Signalled(process, g, {"engine"})
      /\ port_of' = Service!PortAfter(process') /\ Service!Goes(c, "reaped")
      /\ UNCHANGED <<state_file, held, foreign_hit, lost>>
  BY DEF ServiceInv, Service!Compensate
<1>2. /\ commands' \in [Command -> CommandRecord]
      /\ commands'[c].at = "reaped" /\ commands'[c].start = g
      /\ \A d \in Command \ {c} : commands'[d] = commands[d]
  BY <1>1, Going DEF Holding
<1>3. g \in Start /\ held[g] /\ process[g]["engine"] # "none" /\ Complete(g)
  BY <1>1 DEF CommandSound, Holding
<1>4. process' \in [Start -> [Role -> Life]] /\ \A h \in Start : Evolved(h)
  BY <1>1, <1>3, SignalledEnds
<1>5. ServiceType'
  BY <1>1, <1>2, <1>4 DEF ServiceType, Service!PortAfter
<1>6. Service!NoOrphan' /\ Recorded'
  BY <1>1, <1>4, OrphanKept
<1>7. \A h : Keeps(h)
  BY <1>1 DEF Keeps
<1>8. \A r \in Role : process'[g][r] # "none"
  BY <1>3, <1>4 DEF Evolved, Complete
<1>9. CommandSound(c)' /\ Joins(c)
  BY <1>1, <1>2, <1>3, <1>8, RoleKinds DEF CommandSound, Complete, Joins, Holding, Ending, Ended
<1>10. \A d \in Command : commands[d].at \in Holding \cup Ending => commands[d].start \in Start
  BY DEF ServiceInv, CommandSound
<1> QED
  BY <1>1, <1>2, <1>4, <1>5, <1>6, <1>7, <1>9, <1>10, ServiceKept

\* The handles of a start are dropped.
LEMMA ServiceDrops ==
  ASSUME ServiceInv, NEW c \in Command, commands[c].at \in Holding,
         process' = Service!Signalled(process, commands[c].start, Role),
         port_of' = Service!PortAfter(process'),
         held' = [held EXCEPT ![commands[c].start] = FALSE],
         commands' = [commands EXCEPT ![c] = [at |-> "idle", start |-> None]],
         UNCHANGED <<state_file, foreign_hit, lost>>
  PROVE  ServiceInv'
<1> DEFINE g == commands[c].start
<1>1. ServiceType /\ CommandSound(c) /\ g \in Start
  BY DEF ServiceInv, CommandSound
<1>2. /\ commands' \in [Command -> CommandRecord] /\ commands'[c].at = "idle"
      /\ \A d \in Command \ {c} : commands'[d] = commands[d]
  BY <1>1, Restarting
<1>3. /\ process' \in [Start -> [Role -> Life]] /\ \A h \in Start : Evolved(h)
      /\ \A r \in Role : process'[g][r] # "running"
  BY <1>1, SignalledEnds
<1>4. held' \in [Start -> BOOLEAN] /\ \A h \in Start \ {g} : held'[h] = held[h]
  BY <1>1 DEF ServiceType
<1>5. ServiceType'
  BY <1>1, <1>2, <1>3, <1>4 DEF ServiceType, Service!PortAfter
<1>6. ASSUME NEW d \in Command \ {c}, commands[d].at \in Holding
      PROVE  commands[d].start \in Start \ {g}
  BY <1>1, <1>6 DEF ServiceInv, OneHolder, CommandSound
<1>7. \A h \in Start : Keeps(h)
  BY DEF Keeps
<1>8. Service!NoOrphan'
  <2> SUFFICES ASSUME NEW h \in Start, NEW r \in Role, process'[h][r] = "running"
               PROVE  held'[h] \/ state_file' = h \/ h \in lost'
    BY DEF Service!NoOrphan, Service!Running, Start, Role
  <2>1. h # g /\ process[h][r] = "running"
    BY <1>3 DEF Evolved
  <2>2. held[h] \/ state_file = h \/ h \in lost
    BY <2>1 DEF ServiceInv, Service!NoOrphan, Service!Running, Start, Role
  <2> QED
    BY <1>4, <2>1, <2>2
<1>9. Recorded'
  BY <1>1, <1>3 DEF ServiceInv, ServiceType, Recorded, Complete, Evolved
<1>10. CommandSound(c)' /\ Joins(c)
  BY <1>2 DEF CommandSound, Joins, Holding, Ending, Ended
<1>11. \A d \in Command : commands[d].at \in Holding \cup Ending => commands[d].start \in Start
  BY DEF ServiceInv, CommandSound
<1> QED
  BY <1>2, <1>3, <1>4, <1>5, <1>6, <1>7, <1>8, <1>9, <1>10, <1>11, ServiceKept

\* A compensated start takes its own state away, and only its own.
LEMMA ServiceForgets ==
  ASSUME ServiceInv, NEW c \in Command, Service!RemoveOwnState(c) PROVE ServiceInv'
<1> DEFINE g == commands[c].start
<1>1. /\ ServiceType /\ CommandSound(c) /\ commands[c].at = "reaped" /\ Service!Goes(c, "removed")
      /\ state_file' = IF state_file = g THEN None ELSE state_file
      /\ UNCHANGED <<process, port_of, held, foreign_hit, lost>>
  BY DEF ServiceInv, Service!RemoveOwnState, Service!RemoveStateIfMatches, Service!At
<1>2. /\ commands' \in [Command -> CommandRecord]
      /\ commands'[c].at = "removed" /\ commands'[c].start = g
      /\ \A d \in Command \ {c} : commands'[d] = commands[d]
  BY <1>1, Going DEF Holding
<1>3. g \in Start /\ held[g] /\ process[g]["engine"] # "none" /\ Complete(g)
  BY <1>1 DEF CommandSound, Holding
<1>4. ServiceType'
  BY <1>1, <1>2 DEF ServiceType
<1>5. \A h \in Start : Evolved(h) /\ (h # g => Keeps(h))
  BY <1>1 DEF Evolved, Keeps
<1>6. ASSUME NEW d \in Command \ {c}, commands[d].at \in Holding
      PROVE  commands[d].start \in Start \ {g}
  BY <1>1, <1>6 DEF ServiceInv, OneHolder, CommandSound, Holding
<1>7. Service!NoOrphan'
  BY <1>1, <1>3 DEF ServiceInv, Service!NoOrphan, Service!Running, Start, Role
<1>8. Recorded'
  BY <1>1 DEF ServiceInv, Recorded, Complete
<1>9. CommandSound(c)' /\ Joins(c)
  BY <1>1, <1>2, <1>3 DEF CommandSound, Complete, Joins, Holding, Ending, Ended
<1>10. \A d \in Command : commands[d].at \in Holding \cup Ending => commands[d].start \in Start
  BY DEF ServiceInv, CommandSound
<1> QED
  BY <1>1, <1>2, <1>4, <1>5, <1>6, <1>7, <1>8, <1>9, <1>10, ServiceKept

\* A command is killed: what runs of its start is described by its state, or the
\* start is counted as lost.
LEMMA ServiceKilled ==
  ASSUME ServiceInv, NEW c \in Command, Service!StartKilled(c) PROVE ServiceInv'
<1> DEFINE g == commands[c].start
<1>1. /\ ServiceType /\ CommandSound(c) /\ commands[c].at \in Holding
      /\ held' = [held EXCEPT ![g] = FALSE]
      /\ lost' = IF Service!StateWritten(c) THEN lost ELSE lost \cup {g}
      /\ commands' = [commands EXCEPT ![c] = [at |-> "idle", start |-> None]]
      /\ UNCHANGED <<process, state_file, port_of, foreign_hit>>
  BY DEF ServiceInv, Service!StartKilled, Service!Idle, Holding
<1>2. /\ commands' \in [Command -> CommandRecord] /\ commands'[c].at = "idle"
      /\ \A d \in Command \ {c} : commands'[d] = commands[d]
  BY <1>1, Restarting
<1>3. g \in Start
  BY <1>1 DEF CommandSound
<1>4. \/ \A r \in Role : process[g][r] # "running"
      \/ state_file = g \/ g \in lost'
  <2>1. CASE ~ Service!StateWritten(c)
    BY <1>1, <2>1
  <2>2. CASE commands[c].at \in {"written", "healthy"}
    BY <1>1, <2>2 DEF CommandSound, Stays, SomeRuns, Service!StateWritten
  <2>3. CASE commands[c].at = "reaped" /\ state_file = g
    BY <2>3
  <2> QED
    BY <2>1, <2>2, <2>3 DEF Service!StateWritten, Service!At
<1>5. held' \in [Start -> BOOLEAN] /\ \A h \in Start \ {g} : held'[h] = held[h]
  BY <1>1, <1>3 DEF ServiceType
<1>6. lost \subseteq lost' /\ lost' \subseteq Start
  BY <1>1, <1>3 DEF ServiceType
<1>7. ServiceType'
  BY <1>1, <1>2, <1>5, <1>6 DEF ServiceType
<1>8. \A h : Evolved(h) /\ Keeps(h)
  BY <1>1 DEF Evolved, Keeps
<1>9. ASSUME NEW d \in Command \ {c}, commands[d].at \in Holding
      PROVE  commands[d].start \in Start \ {g}
  BY <1>1, <1>9 DEF ServiceInv, OneHolder, CommandSound
<1>10. Service!NoOrphan'
  <2> SUFFICES ASSUME NEW h \in Start, NEW r \in Role, process[h][r] = "running"
               PROVE  held'[h] \/ state_file = h \/ h \in lost'
    BY <1>1 DEF Service!NoOrphan, Service!Running, Start, Role
  <2>1. held[h] \/ state_file = h \/ h \in lost
    BY DEF ServiceInv, Service!NoOrphan, Service!Running, Start, Role
  <2> QED
    BY <1>4, <1>5, <1>6, <2>1
<1>11. Recorded'
  BY <1>1 DEF ServiceInv, Recorded, Complete
<1>12. CommandSound(c)' /\ Joins(c)
  BY <1>2 DEF CommandSound, Joins, Holding, Ending, Ended
<1> QED
  BY <1>2, <1>5, <1>6, <1>7, <1>8, <1>9, <1>10, <1>11, <1>12, ServiceKept

LEMMA ServiceGivesUp ==
  ASSUME ServiceInv, NEW c \in Command, Service!StartFails(c)
  PROVE  ServiceInv'
<1>1. ServiceType /\ CommandSound(c)
  BY DEF ServiceInv
<1>3. CASE Service!StartFails(c) /\ commands[c].at \notin {"stale", "checked"}
  <2>1. commands[c].at \in Holding
    BY <1>3 DEF Service!StartFails, Holding
  <2>2. /\ process' = Service!Signalled(process, commands[c].start, Role)
        /\ port_of' = Service!PortAfter(process') /\ state_file' = state_file
        /\ held' = [held EXCEPT ![commands[c].start] = FALSE]
        /\ commands' = [commands EXCEPT ![c] = [at |-> "idle", start |-> None]]
        /\ UNCHANGED <<foreign_hit, lost>>
    BY <1>3 DEF Service!StartFails, Service!DropGuards, Service!Idle, Role
  <2> QED
    BY <2>1, <2>2, ServiceDrops
<1>4. CASE Service!StartFails(c) /\ commands[c].at \in {"stale", "checked"}
  <2>1. /\ commands' = [commands EXCEPT ![c] = [at |-> "idle", start |-> None]]
        /\ UNCHANGED <<process, port_of, held, state_file, foreign_hit, lost>>
    BY <1>4 DEF Service!StartFails, Service!Idle
  <2>2. /\ commands' \in [Command -> CommandRecord] /\ commands'[c].at = "idle"
        /\ \A d \in Command \ {c} : commands'[d] = commands[d]
    BY <1>1, <2>1, Restarting
  <2>3. \A h : Evolved(h) /\ Keeps(h)
    BY <2>1 DEF Evolved, Keeps
  <2>4. Service!NoOrphan' /\ Recorded'
    BY <2>1, <2>3, OrphanKept
  <2>5. ServiceType'
    BY <1>1, <2>1, <2>2 DEF ServiceType
  <2>6. CommandSound(c)' /\ Joins(c)
    BY <2>2 DEF CommandSound, Joins, Holding, Ending, Ended
  <2> QED
    BY <2>1, <2>2, <2>3, <2>4, <2>5, <2>6, ServiceKept
<1> QED
  BY <1>3, <1>4

\* A stop begins with what the state file says and has ended a process before
\* it goes on.
LEMMA ServiceBeginsStop ==
  ASSUME ServiceInv, NEW c \in Command, Service!BeginStop(c) PROVE ServiceInv'
<1> DEFINE step == IF Service!Running(state_file, "engine") THEN "stop_proxy" ELSE "stop_monitor"
<1>1. /\ ServiceType /\ state_file # None
      /\ commands' = [commands EXCEPT ![c] = [at |-> step, start |-> state_file]]
      /\ UNCHANGED <<process, state_file, port_of, held, foreign_hit, lost>>
  BY DEF ServiceInv, Service!BeginStop
<1>2. /\ commands' \in [Command -> CommandRecord]
      /\ commands'[c].at = step /\ commands'[c].start = state_file
      /\ \A d \in Command \ {c} : commands'[d] = commands[d]
  <2>1. step \in Holding \cup Ending \cup {"idle", "checked"} /\ state_file \in Start \cup {None}
    BY <1>1 DEF Ending, ServiceType
  <2> HIDE DEF step
  <2> QED
    BY <1>1, <2>1, Restarting
<1>3. \A h : Evolved(h) /\ Keeps(h)
  BY <1>1 DEF Evolved, Keeps
<1>4. Service!NoOrphan' /\ Recorded'
  BY <1>1, <1>3, OrphanKept
<1>5. ServiceType'
  BY <1>1, <1>2 DEF ServiceType
<1>6. state_file \in Start /\ \A r \in Role : process[state_file][r] # "none"
  BY <1>1 DEF ServiceType, ServiceInv, Recorded, Complete
<1>7. CommandSound(c)'
  <2>1. CASE Service!Running(state_file, "engine")
    BY <1>1, <1>2, <1>6, <2>1 DEF CommandSound, Complete, Holding, Ending, Ended
  <2>2. CASE ~ Service!Running(state_file, "engine")
    <3>1. process'[state_file]["engine"] # "running"
      BY <1>1, <2>2 DEF Service!Running
    <3> QED
      BY <1>1, <1>2, <1>6, <2>2, <3>1 DEF CommandSound, Complete, Holding, Ending, Ended
  <2> QED
    BY <2>1, <2>2
<1>8. Joins(c)
  BY <1>2 DEF Joins, Holding
<1> QED
  BY <1>1, <1>2, <1>3, <1>4, <1>5, <1>7, <1>8, ServiceKept

\* One process of a service that is being stopped has ended.
LEMMA ServiceStopsOne ==
  ASSUME ServiceInv, NEW c \in Command, commands[c].at \in Ending,
         NEW role \in Role, NEW step \in Ending, Service!Goes(c, step),
         Ended(step) \subseteq Ended(commands[c].at) \cup {role},
         \/ Service!Terminate(c, role)
         \/ process[commands[c].start][role] # "running" /\ UNCHANGED <<process, foreign_hit>>,
         port_of' \in Start \cup {None}, UNCHANGED <<state_file, held, lost>>
  PROVE  ServiceInv'
<1> DEFINE g == commands[c].start
<1>1. ServiceType /\ CommandSound(c) /\ g \in Start /\ Complete(g)
  BY DEF ServiceInv, CommandSound
<1>2. /\ commands' \in [Command -> CommandRecord]
      /\ commands'[c].at = step /\ commands'[c].start = g
      /\ \A d \in Command \ {c} : commands'[d] = commands[d]
  BY <1>1, Going
<1>3. /\ process' \in [Start -> [Role -> Life]] /\ \A h \in Start : Evolved(h)
      /\ process'[g][role] # "running" /\ foreign_hit' = foreign_hit
  <2>1. CASE Service!Terminate(c, role)
    <3>1. process' = Service!Signalled(process, g, {role}) /\ foreign_hit' = foreign_hit
      BY <2>1 DEF Service!Terminate
    <3> QED
      BY <1>1, <3>1, SignalledEnds
  <2>2. CASE process[g][role] # "running" /\ UNCHANGED <<process, foreign_hit>>
    BY <1>1, <2>2 DEF ServiceType, Evolved
  <2> QED
    BY <2>1, <2>2
<1>4. ServiceType'
  BY <1>1, <1>2, <1>3 DEF ServiceType
<1>5. \A h : Keeps(h)
  BY DEF Keeps
<1>6. Service!NoOrphan' /\ Recorded'
  BY <1>3, OrphanKept
<1>7. CommandSound(c)'
  <2>1. \A r \in Role : process'[g][r] # "none"
    BY <1>1, <1>3 DEF Evolved, Complete
  <2>2. \A r \in Ended(commands[c].at) : process[g][r] # "running"
    BY <1>1 DEF CommandSound
  <2>3. Ended(commands[c].at) \subseteq Role
    BY RoleKinds DEF Ended
  <2>4. \A r \in Ended(step) : process'[g][r] # "running"
    BY <1>1, <1>3, <2>2, <2>3 DEF Evolved
  <2> QED
    BY <1>1, <1>2, <2>1, <2>4 DEF CommandSound, Complete, Holding, Ending
<1>8. Joins(c)
  BY <1>2 DEF Joins, Holding, Ending
<1>9. \A d \in Command : commands[d].at \in Holding \cup Ending => commands[d].start \in Start
  BY DEF ServiceInv, CommandSound
<1> QED
  BY <1>2, <1>3, <1>4, <1>5, <1>6, <1>7, <1>8, <1>9, ServiceKept

LEMMA ServiceStops ==
  ASSUME ServiceInv, NEW c \in Command,
         Service!StopProxy(c) \/ Service!StopEngine(c) \/ Service!StopMonitor(c)
  PROVE  ServiceInv'
<1>0. ServiceType /\ CommandSound(c) /\ (commands[c].at \in Ending => commands[c].start \in Start)
  BY DEF ServiceInv, CommandSound
<1>1. CASE Service!StopProxy(c)
  <2> DEFINE step == IF commands[c].at = "stop_proxy" THEN "stop_engine" ELSE "stopped"
  <2>1. /\ commands[c].at \in {"stop_proxy", "stop_last_proxy"} /\ Service!Goes(c, step)
        /\ UNCHANGED <<state_file, held, lost>>
    BY <1>1 DEF Service!StopProxy, Service!At
  <2>2. /\ step \in Ending /\ commands[c].at \in Ending /\ "proxy" \in Role
        /\ Ended(step) \subseteq Ended(commands[c].at) \cup {"proxy"}
    BY <2>1, RoleKinds DEF Ended, Ending
  <2>3. \/ Service!Terminate(c, "proxy")
        \/ process[commands[c].start]["proxy"] # "running" /\ UNCHANGED <<process, foreign_hit>>
    BY <1>1 DEF Service!StopProxy, Service!PidAlive
  <2>4. port_of' \in Start \cup {None}
    BY <1>0, <1>1 DEF Service!StopProxy, Service!PortAfter, ServiceType
  <2> HIDE DEF step
  <2> QED
    BY <2>1, <2>2, <2>3, <2>4, ServiceStopsOne
<1>2. CASE Service!StopEngine(c)
  <2>1. /\ commands[c].at = "stop_engine" /\ Service!Goes(c, "stop_own_monitor")
        /\ Service!Terminate(c, "engine")
        /\ UNCHANGED <<state_file, held, port_of, lost>>
    BY <1>2 DEF Service!StopEngine, Service!At
  <2>2. /\ "stop_own_monitor" \in Ending /\ commands[c].at \in Ending /\ "engine" \in Role
        /\ Ended("stop_own_monitor") \subseteq Ended(commands[c].at) \cup {"engine"}
    BY <2>1, RoleKinds DEF Ended, Ending
  <2>3. port_of' \in Start \cup {None}
    BY <1>0, <2>1 DEF ServiceType
  <2> QED
    BY <2>1, <2>2, <2>3, ServiceStopsOne
<1>3. CASE Service!StopMonitor(c)
  <2> DEFINE step == IF commands[c].at = "stop_monitor" THEN "stop_last_proxy" ELSE "stopped"
  <2>1. /\ commands[c].at \in {"stop_monitor", "stop_own_monitor"} /\ Service!Goes(c, step)
        /\ UNCHANGED <<state_file, held, port_of, lost>>
    BY <1>3 DEF Service!StopMonitor, Service!At
  <2>2. /\ step \in Ending /\ commands[c].at \in Ending /\ "monitor" \in Role
        /\ Ended(step) \subseteq Ended(commands[c].at) \cup {"monitor"}
    BY <2>1, RoleKinds DEF Ended, Ending
  <2>3. \/ Service!Terminate(c, "monitor")
        \/ process[commands[c].start]["monitor"] # "running" /\ UNCHANGED <<process, foreign_hit>>
    BY <1>3 DEF Service!StopMonitor, Service!PidAlive, Service!Verified, Service!Running
  <2>4. port_of' \in Start \cup {None}
    BY <1>0, <2>1 DEF ServiceType
  <2> HIDE DEF step
  <2> QED
    BY <2>1, <2>2, <2>3, <2>4, ServiceStopsOne
<1> QED
  BY <1>1, <1>2, <1>3

LEMMA ServiceStopFails ==
  ASSUME ServiceInv, NEW c \in Command, Service!StopFails(c) PROVE ServiceInv'
<1>1. /\ ServiceType /\ commands' = [commands EXCEPT ![c] = [at |-> "idle", start |-> None]]
      /\ UNCHANGED <<process, port_of, held, state_file, foreign_hit, lost>>
  BY DEF ServiceInv, Service!StopFails, Service!Idle
<1>2. /\ commands' \in [Command -> CommandRecord] /\ commands'[c].at = "idle"
      /\ \A d \in Command \ {c} : commands'[d] = commands[d]
  BY <1>1, Restarting
<1>3. \A h : Evolved(h) /\ Keeps(h)
  BY <1>1 DEF Evolved, Keeps
<1>4. Service!NoOrphan' /\ Recorded'
  BY <1>1, <1>3, OrphanKept
<1>5. ServiceType'
  BY <1>1, <1>2 DEF ServiceType
<1>6. CommandSound(c)' /\ Joins(c)
  BY <1>2 DEF CommandSound, Joins, Holding, Ending, Ended
<1> QED
  BY <1>1, <1>2, <1>3, <1>4, <1>5, <1>6, ServiceKept

LEMMA ServiceNext == ServiceInv /\ [Service!Next]_service => ServiceInv'
<1> SUFFICES ASSUME ServiceInv, [Service!Next]_service PROVE ServiceInv'
  OBVIOUS
<1>1. CASE UNCHANGED service
  <2>1. UNCHANGED <<commands, process, state_file, port_of, held, foreign_hit, lost>>
    BY <1>1 DEF service
  <2>2. ServiceType' /\ \A h : Evolved(h)
    BY <2>1 DEF ServiceInv, ServiceType, Evolved
  <2> QED
    BY <2>1, <2>2, ServiceWorld
<1>2. ASSUME NEW c \in Command,
             \/ Service!CheckState(c) \/ Service!RemoveStale(c) \/ Service!SpawnEngine(c)
             \/ Service!SpawnMonitor(c) \/ Service!SpawnProxy(c) \/ Service!WriteState(c)
             \/ Service!WaitHealthy(c) \/ Service!HandOff(c) \/ Service!Compensate(c)
             \/ Service!RemoveOwnState(c) \/ Service!StartFails(c)
             \/ Service!StartKilled(c) \/ Service!BeginStop(c)
             \/ Service!StopProxy(c) \/ Service!StopEngine(c) \/ Service!StopMonitor(c)
             \/ Service!FinishStop(c) \/ Service!StopFails(c)
      PROVE  ServiceInv'
  BY <1>2, ServiceCheck, ServiceRemoves, ServiceSpawnsEngine, ServiceSpawns, ServiceWrites,
     ServiceWaits, ServiceHandsOff, ServiceCompensates, ServiceForgets, ServiceGivesUp,
     ServiceKilled, ServiceBeginsStop, ServiceStops, ServiceStopFails
<1>3. ASSUME NEW g \in Start, NEW r \in Role,
             Service!ProxyBinds(g) \/ Service!Exits(g, r) \/ Service!PidReused(g, r)
      PROVE  ServiceInv'
  BY <1>3, ServiceEnds
<1> QED
  BY <1>1, <1>2, <1>3, RoleKinds DEF Service!Next, Start, Role

\* Whatever fails, crashes, is stopped or is killed, and however many commands meet
\* on the port: what runs of a service has a command that holds it or a state to be
\* stopped by, unless a command for another service replaced that state or the
\* service's own command was killed while it had none (before write_state, or
\* between the removal of the state and the drop of the guards); and no other
\* process is ever signalled (SpawnedChildGuard, compensate_failed_start, stop).
THEOREM ProcessesAlwaysAccounted ==
  Spec => [](Service!TypeOK /\ Service!NoOrphan /\ Service!OnlyOwnProcesses)
<1>1. Init => ServiceInv
  <2> SUFFICES ASSUME Service!Init PROVE ServiceInv
    BY DEF Init
  <2>1. commands \in [Command -> CommandRecord] /\ \A c \in Command : commands[c].at = "idle"
    BY DEF Service!Init, Service!Idle, CommandRecord
  <2>2. /\ process = [g \in Start |-> [r \in Role |-> "none"]] /\ lost = {}
        /\ state_file = None /\ port_of = None /\ held = [g \in Start |-> FALSE] /\ foreign_hit = FALSE
    BY DEF Service!Init, Start, Role
  <2>3. ServiceType
    BY <2>1, <2>2 DEF ServiceType, Life
  <2>4. \A c \in Command : CommandSound(c)
    BY <2>1 DEF CommandSound, Holding, Ending, Ended
  <2>5. OneHolder /\ Recorded /\ Service!NoOrphan
    BY <2>1, <2>2 DEF OneHolder, Recorded, Holding, Service!NoOrphan, Service!Running, Start, Role
  <2> QED
    BY <2>3, <2>4, <2>5 DEF ServiceInv
<1>2. ServiceInv /\ [Next]_vars => ServiceInv'
  BY PartSteps, ServiceNext
<1>3. ServiceInv => Service!TypeOK /\ Service!NoOrphan /\ Service!OnlyOwnProcesses
  BY DEF ServiceInv, ServiceType, Service!TypeOK, Service!OnlyOwnProcesses, Start, Role, Life
<1> QED
  BY <1>1, <1>2, <1>3, PTL DEF Spec

-----------------------------------------------------------------------------
(***************************************************************************)
(* The isolation of an engine, one platform after another.  What a plan    *)
(* states follows from the profile its probes found; the processes of the  *)
(* start then put that profile in force before the engine is executed, or  *)
(* none of them is left.                                                   *)
(***************************************************************************)
Platform == {"linux", "macos", "windows"}
LayersOffered == {"landlock", "seccomp"} \subseteq offers
PlanRecord ==
  [at : {"probe", "seccomp_probe", "apparmor", "ready"},
   profile : {"full", "seccomp", "none", "inherited", "seatbelt", "job"},
   applied : SUBSET (Isolation!FullIsolation \cup {"apparmor", "inherited", "seatbelt", "job"}),
   trust : {"standard", "limited", "experimental", "none"}]
LinuxProfile == {"full", "seccomp", "none"}

\* What the profile of a plan says of a host that has not changed.
ProfileFound ==
  steady =>
    /\ plan.profile = "full" <=> LayersOffered
    /\ plan.profile = "seccomp" => "seccomp" \in offers
    /\ plan.profile = "none" => "seccomp" \notin offers

LinuxPlanned ==
  platform = "linux" /\ plan # Isolation!NoPlan =>
    /\ plan.profile \in LinuxProfile
    /\ steady => Isolation!Namespaces \subseteq offers
    /\ plan.at = "seccomp_probe" /\ steady => ~ LayersOffered
    /\ plan.at \in {"apparmor", "ready"} => ProfileFound
    /\ plan.at = "ready" =>
         /\ plan.applied \ {"apparmor"} = Isolation!AppliedByProfile[plan.profile]
         /\ steady => plan.applied \cap {"apparmor"} = Isolation!AppArmorOf(offers)
         /\ plan.trust = (IF plan.profile = "full" THEN "standard" ELSE "limited")

LinuxStarted ==
  platform = "linux" /\ outer # "none" =>
    /\ plan # Isolation!NoPlan /\ plan.at = "ready"
    /\ outer \in {"supervisor", "landlock", "seccomp", "exec", "running"}
    /\ Isolation!Namespaces \subseteq in_force
    /\ outer \in {"supervisor", "landlock", "seccomp"} => plan.profile # "none"
    /\ outer = "landlock" => plan.profile = "full"
    /\ outer = "seccomp" /\ plan.profile = "full" => "landlock" \in in_force
    /\ outer \in {"exec", "running"} => Isolation!AppliedByProfile[plan.profile] \subseteq in_force

MacosSound ==
  platform = "macos" =>
    /\ plan # Isolation!NoPlan =>
         /\ plan.at = "ready" /\ plan.profile \in {"inherited", "seatbelt"}
         /\ plan.applied = {plan.profile} /\ plan.trust = "limited"
         /\ steady => /\ plan.profile \in offers
                      /\ plan.profile = "seatbelt" => "inherited" \notin offers
    /\ outer # "none" =>
         /\ plan # Isolation!NoPlan
         /\ outer \in {"exec", "running"} /\ in_force = {plan.profile}

WindowsSound ==
  platform = "windows" =>
    /\ plan # Isolation!NoPlan =>
         plan.at = "ready" /\ plan.applied = {"job"} /\ plan.trust = "experimental"
    /\ outer # "none" =>
         /\ plan # Isolation!NoPlan /\ supervising
         /\ outer \in {"job", "assigned", "running"}
         /\ outer = "running" => in_force = {"job"}

IsolationInv ==
  /\ platform \in Platform /\ plan \in {Isolation!NoPlan} \cup PlanRecord
  /\ platform # "windows" => ~ supervising
  /\ LinuxPlanned /\ LinuxStarted /\ MacosSound /\ WindowsSound

LEMMA NoPlanIsNone ==
  /\ Isolation!NoPlan \notin PlanRecord
  /\ Isolation!NoPlan.at = "none"
  BY DEF Isolation!NoPlan, PlanRecord

\* What a start leaves when one of its processes ends.
LEMMA IsolationDies ==
  ASSUME IsolationInv, Isolation!Dies, platform' = platform
  PROVE  IsolationInv'
  BY DEF IsolationInv, Isolation!Dies, LinuxPlanned, LinuxStarted, MacosSound, WindowsSound

\* The plan is made: each probe sees the host as it is.
LEMMA IsolationBuilds ==
  ASSUME IsolationInv, Isolation!BuildLaunchPlan
  PROVE  IsolationInv'
<1> USE DEF Isolation!BuildLaunchPlan, Isolation!Plan, Isolation!Refuse
<1>1. plan' = Isolation!NoPlan \/ plan' \in PlanRecord
  BY DEF PlanRecord, Isolation!FullIsolation, IsolationInv, Platform
<1>2. outer' = "none" /\ outer = "none" /\ supervising' = supervising /\ platform' = platform
  OBVIOUS
<1>3. CASE platform = "linux"
  BY <1>1, <1>2, <1>3 DEF IsolationInv, Platform, LinuxPlanned, LinuxStarted, MacosSound,
     WindowsSound, LinuxProfile
<1>4. CASE platform = "macos"
  BY <1>1, <1>2, <1>4 DEF IsolationInv, Platform, LinuxPlanned, LinuxStarted, MacosSound,
     WindowsSound
<1>5. CASE platform = "windows"
  BY <1>1, <1>2, <1>5 DEF IsolationInv, Platform, LinuxPlanned, LinuxStarted, MacosSound,
     WindowsSound
<1> QED
  BY <1>3, <1>4, <1>5 DEF IsolationInv, Platform

\* The probes of the supervisor's profile.  No plan of another platform waits
\* for one.
LEMMA IsolationProbes ==
  ASSUME IsolationInv, Isolation!FullProbe \/ Isolation!SeccompProbe \/ Isolation!LinuxPlan
  PROVE  IsolationInv'
<1>1. plan # Isolation!NoPlan /\ plan \in PlanRecord /\ plan.at # "ready"
  BY NoPlanIsNone DEF IsolationInv, Isolation!FullProbe, Isolation!SeccompProbe,
     Isolation!LinuxPlan
<1>2. platform = "linux" /\ outer = "none"
  BY <1>1 DEF IsolationInv, Platform, MacosSound, WindowsSound, LinuxStarted
<1>3. platform' = platform /\ outer' = outer /\ supervising' = supervising /\ steady' = steady
      /\ offers' = offers /\ in_force' = in_force
  BY DEF Isolation!FullProbe, Isolation!SeccompProbe, Isolation!LinuxPlan
<1>4. plan' \in PlanRecord /\ plan' # Isolation!NoPlan /\ LinuxPlanned'
  <2>1. CASE Isolation!FullProbe
    <3>1. /\ plan' \in PlanRecord
          /\ plan'.at = (IF LayersOffered THEN "apparmor" ELSE "seccomp_probe")
          /\ plan'.profile = (IF LayersOffered THEN "full" ELSE plan.profile)
      BY <1>1, <2>1 DEF Isolation!FullProbe, PlanRecord, LayersOffered
    <3> QED
      BY <1>1, <1>2, <1>3, <3>1, NoPlanIsNone
      DEF IsolationInv, LinuxPlanned, ProfileFound, LinuxProfile, LayersOffered
  <2>2. CASE Isolation!SeccompProbe
    <3>1. /\ plan' \in PlanRecord
          /\ plan'.at = "apparmor" /\ plan.at = "seccomp_probe"
          /\ plan'.profile = (IF "seccomp" \in offers THEN "seccomp" ELSE "none")
      BY <1>1, <2>2 DEF Isolation!SeccompProbe, PlanRecord
    <3> QED
      BY <1>1, <1>2, <1>3, <3>1, NoPlanIsNone
      DEF IsolationInv, LinuxPlanned, ProfileFound, LinuxProfile, LayersOffered
  <2>3. CASE Isolation!LinuxPlan
    <3>1. plan.at = "apparmor" /\ plan.profile \in LinuxProfile
      BY <1>1, <1>2, <2>3 DEF IsolationInv, LinuxPlanned, Isolation!LinuxPlan
    <3>2. /\ plan'.at = "ready" /\ plan'.profile = plan.profile
          /\ plan'.applied = Isolation!AppliedByProfile[plan.profile] \cup Isolation!AppArmorOf(offers)
          /\ plan'.trust = (IF plan.profile = "full" THEN "standard" ELSE "limited")
      BY <2>3 DEF Isolation!LinuxPlan, Isolation!Plan
    <3>3. /\ plan' \in PlanRecord
          /\ plan'.applied \ {"apparmor"} = Isolation!AppliedByProfile[plan.profile]
          /\ plan'.applied \cap {"apparmor"} = Isolation!AppArmorOf(offers)
      BY <2>3, <3>1, <3>2 DEF Isolation!LinuxPlan, Isolation!Plan, PlanRecord, LinuxProfile,
         Isolation!AppliedByProfile, Isolation!AppArmorOf, Isolation!FullIsolation,
         Isolation!Namespaces
    <3> QED
      BY <1>1, <1>2, <1>3, <3>1, <3>2, <3>3, NoPlanIsNone
      DEF IsolationInv, LinuxPlanned, ProfileFound, LinuxProfile, LayersOffered,
          Isolation!AppArmorOf
  <2> QED
    BY <2>1, <2>2, <2>3
<1> QED
  BY <1>2, <1>3, <1>4 DEF IsolationInv, LinuxStarted, MacosSound, WindowsSound

\* The outer sandbox starts, with the plan's profile.
LEMMA IsolationSpawns ==
  ASSUME IsolationInv, Isolation!SpawnOuter, ~ Isolation!Dies
  PROVE  IsolationInv'
<1>1. plan # Isolation!NoPlan /\ plan' = plan /\ plan.at = "ready" /\ outer = "none"
      /\ platform' = platform /\ offers' = offers /\ steady' = steady
  BY NoPlanIsNone DEF Isolation!SpawnOuter, Isolation!Dies
<1>2. CASE platform = "linux"
  <2>1. /\ outer' = (IF plan.profile = "none" THEN "exec" ELSE "supervisor")
        /\ in_force' = Isolation!Namespaces \cup Isolation!AppArmorOf(offers)
        /\ supervising' = supervising
    BY <1>2 DEF Isolation!SpawnOuter
  <2>2. plan.profile = "none" => Isolation!AppliedByProfile[plan.profile] \subseteq in_force'
    BY <2>1 DEF Isolation!AppliedByProfile
  <2> QED
    BY <1>1, <1>2, <2>1, <2>2 DEF IsolationInv, LinuxPlanned, LinuxStarted, MacosSound,
       WindowsSound, ProfileFound, LayersOffered
<1>3. CASE platform = "macos"
  BY <1>1, <1>3 DEF Isolation!SpawnOuter, IsolationInv, LinuxPlanned, LinuxStarted, MacosSound,
     WindowsSound
<1>4. CASE platform = "windows"
  BY <1>1, <1>4 DEF Isolation!SpawnOuter, IsolationInv, LinuxPlanned, LinuxStarted, MacosSound,
     WindowsSound
<1> QED
  BY <1>2, <1>3, <1>4 DEF IsolationInv, Platform

\* The supervisor inside puts the layers of its profile in force, one by one.
LEMMA IsolationApplies ==
  ASSUME IsolationInv, ~ Isolation!Dies,
         Isolation!SupervisorValidates \/ Isolation!ApplyLandlock \/ Isolation!ApplySeccomp
  PROVE  IsolationInv'
<1>1. platform' = platform /\ offers' = offers /\ steady' = steady /\ plan' = plan
      /\ supervising' = supervising /\ in_force \subseteq in_force'
  BY DEF Isolation!SupervisorValidates, Isolation!ApplyLandlock, Isolation!ApplySeccomp
<1>2. outer \in {"supervisor", "landlock", "seccomp"} /\ outer' # "running" /\ outer' # "none"
  BY DEF Isolation!SupervisorValidates, Isolation!ApplyLandlock, Isolation!ApplySeccomp
<1>3. platform = "linux" /\ plan # Isolation!NoPlan /\ plan.at = "ready"
      /\ plan.profile \in {"full", "seccomp"} /\ Isolation!Namespaces \subseteq in_force
  BY <1>2 DEF IsolationInv, Platform, MacosSound, WindowsSound, LinuxStarted, LinuxPlanned,
     LinuxProfile
<1>4. LinuxPlanned'
  BY <1>1 DEF IsolationInv, LinuxPlanned, ProfileFound, LayersOffered
<1>5. LinuxStarted'
  <2>1. CASE Isolation!SupervisorValidates
    BY <1>1, <1>3, <2>1 DEF Isolation!SupervisorValidates, LinuxStarted
  <2>2. CASE Isolation!ApplyLandlock
    BY <1>1, <1>3, <2>2 DEF Isolation!ApplyLandlock, LinuxStarted
  <2>3. CASE Isolation!ApplySeccomp
    <3>1. /\ outer = "seccomp" /\ outer' = "exec" /\ in_force' = in_force \cup {"seccomp"}
          /\ plan.profile = "full" => "landlock" \in in_force
      BY <1>3, <2>3 DEF Isolation!ApplySeccomp, IsolationInv, LinuxStarted
    <3>2. Isolation!AppliedByProfile[plan.profile] \subseteq in_force'
      BY <1>3, <3>1 DEF Isolation!AppliedByProfile, Isolation!FullIsolation
    <3> QED
      BY <1>1, <1>3, <3>1, <3>2 DEF LinuxStarted
  <2> QED
    BY <2>1, <2>2, <2>3
<1> QED
  BY <1>1, <1>3, <1>4, <1>5 DEF IsolationInv, MacosSound, WindowsSound

\* The engine is executed, or the supervisor of Windows goes on.
LEMMA IsolationRuns ==
  ASSUME IsolationInv, ~ Isolation!Dies,
         \/ \E works \in BOOLEAN : Isolation!ExecEngine(works)
         \/ Isolation!AssignSupervisor \/ Isolation!SpawnChild
  PROVE  IsolationInv'
<1>1. platform' = platform /\ offers' = offers /\ steady' = steady /\ plan' = plan
      /\ supervising' = supervising
  BY DEF Isolation!ExecEngine, Isolation!AssignSupervisor, Isolation!SpawnChild
<1>2. LinuxPlanned'
  BY <1>1 DEF IsolationInv, LinuxPlanned, ProfileFound, LayersOffered
<1>3. CASE \E works \in BOOLEAN : Isolation!ExecEngine(works)
  <2>1. outer = "exec" /\ outer' = "running" /\ in_force' = in_force
    BY <1>3 DEF Isolation!ExecEngine
  <2> QED
    BY <1>1, <1>2, <2>1 DEF IsolationInv, LinuxStarted, MacosSound, WindowsSound
<1>4. CASE Isolation!AssignSupervisor
  <2>1. outer = "job" /\ outer' = "assigned" /\ in_force' = in_force
    BY <1>4 DEF Isolation!AssignSupervisor
  <2> QED
    BY <1>1, <1>2, <2>1 DEF IsolationInv, LinuxStarted, MacosSound, WindowsSound, Platform
<1>5. CASE Isolation!SpawnChild
  <2>1. outer = "assigned" /\ outer' = "running" /\ in_force' = {"job"}
    BY <1>5 DEF Isolation!SpawnChild
  <2> QED
    BY <1>1, <1>2, <2>1 DEF IsolationInv, LinuxStarted, MacosSound, WindowsSound, Platform
<1> QED
  BY <1>3, <1>4, <1>5

\* The host and the file change under the plan, which says no more of them then.
LEMMA IsolationWorld ==
  ASSUME IsolationInv,
         \/ \E o \in Isolation!OffersOf[platform] : Isolation!HostChanges(o)
         \/ Isolation!ExecutableChanges
  PROVE  IsolationInv'
<1>1. /\ UNCHANGED <<platform, plan, outer, in_force, supervising>>
      /\ steady' = FALSE \/ (steady' = steady /\ offers' = offers)
  BY DEF Isolation!HostChanges, Isolation!ExecutableChanges
<1> QED
  BY <1>1 DEF IsolationInv, LinuxPlanned, LinuxStarted, MacosSound, WindowsSound, ProfileFound,
     LayersOffered

LEMMA IsolationNext ==
  ASSUME IsolationInv, [Isolation!Next]_isolation
  PROVE  IsolationInv'
<1>1. CASE Isolation!Dies /\ platform' = platform
  BY <1>1, IsolationDies
<1>2. CASE Isolation!SupervisorKilled
  <2>1. \/ platform = "windows" /\ (outer = "running" => "job" \in in_force)
        \/ outer = "none"
    BY <1>2 DEF Isolation!SupervisorKilled, IsolationInv, Platform, WindowsSound
  <2>2. Isolation!Dies /\ platform' = platform
    BY <1>2, <2>1 DEF Isolation!SupervisorKilled
  <2> QED
    BY <2>2, IsolationDies
<1>3. CASE Isolation!EngineExits
  BY <1>3, IsolationDies DEF Isolation!EngineExits
<1>4. CASE UNCHANGED isolation
  BY <1>4 DEF isolation, IsolationInv, LinuxPlanned, LinuxStarted, MacosSound, WindowsSound,
     ProfileFound, LayersOffered
<1>5. platform' = platform \/ UNCHANGED isolation
  BY DEF Isolation!Next, isolation, Isolation!vars, Isolation!BuildLaunchPlan,
     Isolation!FullProbe, Isolation!SeccompProbe, Isolation!LinuxPlan, Isolation!SpawnOuter,
     Isolation!SupervisorValidates, Isolation!ApplyLandlock, Isolation!ApplySeccomp,
     Isolation!ExecEngine, Isolation!AssignSupervisor, Isolation!SpawnChild,
     Isolation!SupervisorKilled, Isolation!EngineExits, Isolation!HostChanges,
     Isolation!ExecutableChanges
<1> QED
  BY <1>1, <1>2, <1>3, <1>4, <1>5, IsolationBuilds, IsolationProbes, IsolationSpawns,
     IsolationApplies, IsolationRuns, IsolationWorld
  DEF Isolation!Next

\* What the invariant says of an engine that runs.
LEMMA RunsAsStated ==
  ASSUME IsolationInv, outer = "running"
  PROVE  /\ plan.applied \ {"apparmor"} \subseteq in_force
         /\ plan.trust = "standard" => Isolation!FullIsolation \subseteq in_force
         /\ "job" \in plan.applied => supervising
<1>1. CASE platform = "linux"
  <2>1. /\ plan.applied \ {"apparmor"} = Isolation!AppliedByProfile[plan.profile]
        /\ Isolation!AppliedByProfile[plan.profile] \subseteq in_force
        /\ plan.trust = "standard" => plan.profile = "full"
        /\ plan.profile \in LinuxProfile
    BY <1>1 DEF IsolationInv, LinuxPlanned, LinuxStarted
  <2> QED
    BY <2>1 DEF Isolation!AppliedByProfile, LinuxProfile, Isolation!FullIsolation,
       Isolation!Namespaces
<1>2. CASE platform # "linux"
  BY <1>2 DEF IsolationInv, Platform, MacosSound, WindowsSound
<1> QED
  BY <1>1, <1>2

\* What is granted at the Standard level.
LEMMA StandardRights ==
  ASSUME Isolation!FullIsolation \subseteq in_force, NEW kind \in Isolation!PathKind
  PROVE  /\ "write" \in Isolation!Granted(kind) => kind = "read_write"
         /\ "execute" \in Isolation!Granted(kind) => kind \in {"engine", "loader"}
<1>1. "landlock" \in in_force
  BY DEF Isolation!FullIsolation
<1>2. \A right \in Isolation!Granted(kind) : right \in Isolation!LandlockRule(kind)
  BY <1>1 DEF Isolation!Granted
<1>3. /\ "write" \in Isolation!LandlockRule(kind) => kind = "read_write"
      /\ "execute" \in Isolation!LandlockRule(kind) => kind \in {"engine", "loader"}
  BY DEF Isolation!LandlockRule, Isolation!PathKind
<1> QED
  BY <1>2, <1>3

\* The two codes that look at a host say the same of it.
LEMMA SameDetection ==
  ASSUME IsolationInv
  PROVE  Isolation!DetectionAgrees
<1> SUFFICES ASSUME plan.at = "ready", steady, platform # "windows"
    PROVE Isolation!Detect(offers) = [applicable |-> plan.applied, trust |-> plan.trust]
  BY DEF Isolation!DetectionAgrees
<1>1. plan # Isolation!NoPlan
  BY NoPlanIsNone
<1>2. CASE platform = "linux"
  <2>1. /\ plan.profile \in LinuxProfile /\ Isolation!Namespaces \subseteq offers
        /\ plan.profile = "full" <=> LayersOffered
        /\ plan.profile = "seccomp" => "seccomp" \in offers
        /\ plan.profile = "none" => "seccomp" \notin offers
        /\ plan.applied \ {"apparmor"} = Isolation!AppliedByProfile[plan.profile]
        /\ plan.applied \cap {"apparmor"} = Isolation!AppArmorOf(offers)
        /\ plan.trust = (IF plan.profile = "full" THEN "standard" ELSE "limited")
    BY <1>1, <1>2 DEF IsolationInv, LinuxPlanned, ProfileFound
  <2> DEFINE found == IF LayersOffered THEN {"landlock", "seccomp"} ELSE offers \cap {"seccomp"}
             all == Isolation!Namespaces \cup found \cup Isolation!AppArmorOf(offers)
  <2>2. Isolation!Detect(offers) =
          [applicable |-> all,
           trust |-> IF Isolation!FullIsolation \subseteq all THEN "standard" ELSE "limited"]
    <3>1. all # {} /\ Isolation!Namespaces # {}
      BY DEF Isolation!Namespaces
    <3> QED
      BY <1>2, <2>1, <3>1 DEF Isolation!Detect, Isolation!DetectLinux, LayersOffered
  <2>3. Isolation!AppliedByProfile[plan.profile] = Isolation!Namespaces \cup found
    BY <2>1 DEF Isolation!AppliedByProfile, LinuxProfile, LayersOffered, Isolation!FullIsolation
  <2>4. plan.applied = all
    BY <2>1, <2>3
  <2>5. Isolation!FullIsolation \subseteq all <=> plan.profile = "full"
    BY <2>1 DEF Isolation!FullIsolation, LayersOffered, Isolation!AppArmorOf,
       Isolation!Namespaces
  <2> QED
    BY <2>1, <2>2, <2>4, <2>5
<1>3. CASE platform = "macos"
  BY <1>1, <1>3 DEF IsolationInv, MacosSound, Isolation!Detect, Isolation!DetectMacos
<1> QED
  BY <1>2, <1>3 DEF IsolationInv, Platform

\* launch.rs, linux_supervisor.rs, windows_supervisor.rs, capability.rs: an engine
\* that runs is held by every mechanism its plan states, however the host and the
\* file changed between the probes and the start, and what is displayed of a host
\* that does not change is what a plan applies.
THEOREM IsolationAlwaysStated ==
  Spec => [](Isolation!AppliedAsStated /\ Isolation!DetectionAgrees)
<1>1. Init => IsolationInv
  BY DEF Init, Isolation!Init, IsolationInv, Platform, LinuxPlanned, LinuxStarted, MacosSound,
     WindowsSound
<1>2. IsolationInv /\ [Next]_vars => IsolationInv'
  BY PartSteps, IsolationNext
<1>3. IsolationInv => Isolation!AppliedAsStated /\ Isolation!DetectionAgrees
  BY RunsAsStated, StandardRights, SameDetection DEF Isolation!AppliedAsStated
<1> QED
  BY <1>1, <1>2, <1>3, PTL DEF Spec

-----------------------------------------------------------------------------
(***************************************************************************)
(* The terminal.  A line that changes something reaches the plain terminal *)
(* only through the dialog, and while the dialog asks nothing changes the  *)
(* line; a call of the terminal that fails leaves the program, and its     *)
(* guard is active exactly while the screen is the program's.  What a line *)
(* means is left to CommandPath, whatever it is.                           *)
(***************************************************************************)
DashboardField ==
  {"category", "action", "focus", "line", "cursor", "confirmation", "picker", "help"}
IsDashboard(u) ==
  u = [f \in DashboardField |-> u[f]] /\ u.focus \in {"category", "action", "editor"}

AsksOf(u) ==
  u.confirmation # None =>
    u.confirmation = [line |-> u.line, path |-> Screen!CommandPath(u.line)]

AgreedRuns ==
  at = "run" =>
    LET path == Screen!CommandPath(exec)
    IN /\ path # None
       /\ path \in Screen!ConfirmRisk => agreed = [line |-> exec, path |-> path]

ScreenHeld ==
  /\ at \in {"start", "keys", "run", "left"}
  /\ tty \in [raw : BOOLEAN, screen : BOOLEAN]
  /\ at \in {"start", "run"} => ~ tty.raw /\ ~ tty.screen
  /\ at # "keys" => guard = FALSE
  /\ Screen!TerminalRestored

ScreenInv == IsDashboard(ui) /\ AsksOf(ui) /\ AgreedRuns /\ ScreenHeld

\* Another dashboard with the same dialog.
SameDialog(u, v) == IsDashboard(v) /\ v.confirmation = u.confirmation

LEMMA FieldsOf ==
  ASSUME NEW u, IsDashboard(u), NEW x
  PROVE  /\ IsDashboard([u EXCEPT !.category = x])
         /\ IsDashboard([u EXCEPT !.action = x])
         /\ IsDashboard([u EXCEPT !.line = x])
         /\ IsDashboard([u EXCEPT !.cursor = x])
         /\ x \in {"category", "action", "editor"} => IsDashboard([u EXCEPT !.focus = x])
         /\ IsDashboard([u EXCEPT !.picker = x])
         /\ IsDashboard([u EXCEPT !.help = x])
         /\ IsDashboard([u EXCEPT !.confirmation = x])
  BY DEF IsDashboard, DashboardField

LEMMA KeepsDialog ==
  ASSUME NEW u, IsDashboard(u), NEW x
  PROVE  /\ SameDialog(u, [u EXCEPT !.category = x])
         /\ SameDialog(u, [u EXCEPT !.action = x])
         /\ SameDialog(u, [u EXCEPT !.line = x])
         /\ SameDialog(u, [u EXCEPT !.cursor = x])
         /\ x \in {"category", "action", "editor"} => SameDialog(u, [u EXCEPT !.focus = x])
         /\ SameDialog(u, [u EXCEPT !.picker = x])
         /\ SameDialog(u, [u EXCEPT !.help = x])
  BY FieldsOf DEF SameDialog, IsDashboard, DashboardField

LEMMA KeepsDialogTwice ==
  ASSUME NEW u, IsDashboard(u), NEW x, NEW y
  PROVE  /\ SameDialog(u, [u EXCEPT !.line = x, !.cursor = y])
         /\ SameDialog(u, [u EXCEPT !.category = x, !.action = y])
  BY DEF SameDialog, IsDashboard, DashboardField

LEMMA ResetKeeps ==
  ASSUME NEW u, IsDashboard(u)
  PROVE  SameDialog(u, Screen!ResetEditor(u))
  BY KeepsDialogTwice DEF Screen!ResetEditor

LEMMA SelectsKeep ==
  ASSUME NEW u, IsDashboard(u), NEW x
  PROVE  SameDialog(u, Screen!SelectCategory(u, x)) /\ SameDialog(u, Screen!SelectAction(u, x))
<1>1. SameDialog(u, [u EXCEPT !.category = x, !.action = 0])
  BY KeepsDialogTwice
<1>2. SameDialog(u, [u EXCEPT !.action = x])
  BY KeepsDialog
<1> QED
  BY <1>1, <1>2, ResetKeeps DEF SameDialog, Screen!SelectCategory, Screen!SelectAction

LEMMA CommandKeeps ==
  ASSUME NEW u, IsDashboard(u), NEW path, NEW line
  PROVE  /\ SameDialog(u, Screen!SelectCommand(u, path, line))
         /\ Screen!SelectCommand(u, path, line).line = line
<1> DEFINE c == CHOOSE x \in 0 .. 9 :
             /\ Screen!CATEGORIES[x].start <= Screen!IndexOf(path)
             /\ Screen!IndexOf(path) < Screen!CATEGORIES[x].start + Screen!CATEGORIES[x].len
           a == Screen!IndexOf(path) - Screen!CATEGORIES[c].start
           n == Len(line)
<1>1. Screen!SelectCommand(u, path, line) =
        [u EXCEPT !.category = c, !.action = a, !.line = line, !.cursor = n]
  BY Zenon DEF Screen!SelectCommand
<1> HIDE DEF c, a, n
<1> QED
  BY <1>1 DEF SameDialog, IsDashboard, DashboardField

LEMMA EditKeeps ==
  ASSUME NEW u, IsDashboard(u), NEW v \in Screen!EditLine(u)
  PROVE  SameDialog(u, v)
<1>1. SameDialog(u, u)
  BY DEF SameDialog
<1>2. SameDialog(u, Screen!Backspace(u))
  BY <1>1, KeepsDialogTwice DEF Screen!Backspace
<1>3. SameDialog(u, Screen!DeleteNext(u))
  BY <1>1, KeepsDialog DEF Screen!DeleteNext
<1>4. \A text : SameDialog(u, Screen!InsertText(u, text))
  BY KeepsDialogTwice DEF Screen!InsertText
<1>5. SameDialog(u, [u EXCEPT !.line = <<>>, !.cursor = 0])
  BY KeepsDialogTwice
<1>6. \A c : SameDialog(u, [u EXCEPT !.cursor = c])
  BY KeepsDialog
<1>7. \/ \E c : v = [u EXCEPT !.cursor = c]
      \/ v = Screen!Backspace(u) \/ v = Screen!DeleteNext(u)
      \/ v = [u EXCEPT !.line = <<>>, !.cursor = 0]
      \/ \E text : v = Screen!InsertText(u, text)
  BY Zenon DEF Screen!EditLine
<1> QED
  BY <1>2, <1>3, <1>4, <1>5, <1>6, <1>7

-----------------------------------------------------------------------------
Others == UNCHANGED <<tty, guard, at, exec, agreed, refused>>

\* A dashboard that shows the same dialog over the same line, or none.
LEMMA ScreenShows ==
  ASSUME ScreenInv, Others, IsDashboard(ui'),
         \/ ui'.confirmation = None
         \/ ui'.confirmation = ui.confirmation /\ ui'.line = ui.line
  PROVE  ScreenInv'
<1>1. AsksOf(ui')
  BY DEF ScreenInv, AsksOf
<1>2. AgreedRuns' /\ ScreenHeld'
  BY DEF ScreenInv, AgreedRuns, ScreenHeld, Others, Screen!TerminalRestored
<1> QED
  BY <1>1, <1>2 DEF ScreenInv

\* Keys that change the line are read only while nothing asks.
LEMMA ScreenKeys ==
  ASSUME ScreenInv,
         \/ Screen!CloseHelp \/ Screen!AnswerNo \/ Screen!PickerKey \/ Screen!OpenHelp
         \/ Screen!OpenPicker \/ Screen!Move \/ Screen!Digit \/ Screen!Focus \/ Screen!Edit
         \/ Screen!Paste
  PROVE  ScreenInv'
<1>1. Others
  BY DEF Others, Screen!Shows, Screen!CloseHelp, Screen!AnswerNo, Screen!PickerKey,
     Screen!OpenHelp, Screen!OpenPicker, Screen!Move, Screen!Digit, Screen!Focus, Screen!Edit,
     Screen!Paste
<1>2. IsDashboard(ui)
  BY DEF ScreenInv
<1>3. CASE Screen!CloseHelp
  <2>1. ui' = [ui EXCEPT !.help = FALSE]
    BY <1>3 DEF Screen!CloseHelp, Screen!Shows
  <2>2. IsDashboard(ui') /\ ui'.confirmation = ui.confirmation /\ ui'.line = ui.line
    BY <1>2, <2>1, FieldsOf DEF IsDashboard, DashboardField
  <2> QED
    BY <1>1, <2>2, ScreenShows
<1>4. CASE Screen!AnswerNo
  <2>1. ui' = [ui EXCEPT !.confirmation = None]
    BY <1>4 DEF Screen!AnswerNo, Screen!Shows
  <2>2. IsDashboard(ui') /\ ui'.confirmation = None
    BY <1>2, <2>1, FieldsOf DEF IsDashboard, DashboardField
  <2> QED
    BY <1>1, <2>2, ScreenShows
<1>5. CASE \/ Screen!PickerKey \/ Screen!OpenHelp \/ Screen!OpenPicker \/ Screen!Move
           \/ Screen!Digit \/ Screen!Focus \/ Screen!Edit \/ Screen!Paste
  <2>1. ui.confirmation = None
    BY <1>5 DEF Screen!PickerKey, Screen!InPicker, Screen!OpenHelp, Screen!OpenPicker,
       Screen!Move, Screen!Digit, Screen!Focus, Screen!Edit, Screen!Paste, Screen!Browsing,
       Screen!Plain, Screen!PasteAllowed
  <2>2. SameDialog(ui, ui')
    <3>1. CASE Screen!PickerKey
      <4>1. PICK p : ui' = [ui EXCEPT !.picker = p]
        BY <3>1, Zenon DEF Screen!PickerKey, Screen!Shows
      <4> QED
        BY <1>2, <4>1, KeepsDialog
    <3>2. CASE Screen!OpenHelp
      BY <1>2, <3>2, KeepsDialog DEF Screen!OpenHelp, Screen!Shows
    <3>3. CASE Screen!OpenPicker
      BY <1>2, <3>3, KeepsDialog DEF Screen!OpenPicker, Screen!Shows
    <3>4. CASE Screen!Move
      <4>1. PICK u \in Screen!MoveSelection(ui) : ui' = u
        BY <3>4 DEF Screen!Move, Screen!Shows
      <4>2. \/ \E c : u = Screen!SelectCategory(ui, c)
            \/ \E a : u = Screen!SelectAction(ui, a)
        BY <1>2, <3>4, <4>1 DEF Screen!MoveSelection, Screen!Move, Screen!Browsing, IsDashboard
      <4> QED
        BY <1>2, <4>1, <4>2, SelectsKeep
    <3>5. CASE Screen!Digit
      BY <1>2, <3>5, SelectsKeep DEF Screen!Digit, Screen!Shows
    <3>6. CASE Screen!Focus
      <4> DEFINE i == CHOOSE x \in 1 .. 3 : Screen!Panels[x] = ui.focus
      <4>1. i \in 1 .. 3
        BY <1>2 DEF IsDashboard, Screen!Panels
      <4>2. PICK j \in Screen!Around(i - 1, 3) : ui' = [ui EXCEPT !.focus = Screen!Panels[j + 1]]
        BY <3>6, Zenon DEF Screen!Focus, Screen!MoveFocus, Screen!Shows
      <4> HIDE DEF i
      <4>3. j + 1 \in 1 .. 3
        BY <4>1, <4>2 DEF Screen!Around
      <4>4. Screen!Panels[j + 1] \in {"category", "action", "editor"}
        BY <4>3 DEF Screen!Panels
      <4> QED
        BY <1>2, <4>4, <4>2, KeepsDialog
    <3>7. CASE Screen!Edit
      BY <1>2, <3>7, EditKeeps DEF Screen!Edit, Screen!Shows
    <3>8. CASE Screen!Paste
      <4>1. PICK x, y : ui' = [ui EXCEPT !.line = x, !.cursor = y]
        BY <3>8, Zenon DEF Screen!Paste, Screen!Shows, Screen!InsertText
      <4> QED
        BY <1>2, <4>1, KeepsDialogTwice
    <3> QED
      BY <1>5, <3>1, <3>2, <3>3, <3>4, <3>5, <3>6, <3>7, <3>8
  <2> QED
    BY <1>1, <2>1, <2>2, ScreenShows DEF SameDialog
<1> QED
  BY <1>3, <1>4, <1>5

LEMMA NewDashboard == IsDashboard(Screen!Dashboard) /\ Screen!Dashboard.confirmation = None
<1> DEFINE u == [category |-> 0, action |-> 0, focus |-> "category", line |-> <<>>,
                 cursor |-> 0, confirmation |-> None, picker |-> None, help |-> FALSE]
<1>1. IsDashboard(u) /\ u.confirmation = None
  BY DEF IsDashboard, DashboardField
<1>2. Screen!Dashboard = Screen!ResetEditor(u)
  BY DEF Screen!Dashboard
<1> HIDE DEF u
<1> QED
  BY <1>1, <1>2, ResetKeeps DEF SameDialog

\* The terminal becomes the program's, or the program is left.
LEMMA ScreenFull ==
  ASSUME ScreenInv, at \in {"start", "run"}, Screen!GoFull \/ Screen!GoFullFails
  PROVE  ScreenInv'
<1>1. IsDashboard(Screen!Dashboard) /\ Screen!Dashboard.confirmation = None
  BY NewDashboard
<1>2. ui' = ui \/ ui' = Screen!Dashboard
  BY DEF Screen!GoFull, Screen!GoFullFails, Screen!Left
<1>3. IsDashboard(ui') /\ AsksOf(ui')
  BY <1>1, <1>2 DEF ScreenInv, AsksOf
<1>4. AgreedRuns'
  BY DEF AgreedRuns, Screen!GoFull, Screen!GoFullFails, Screen!Left
<1>5. ScreenHeld'
  <2>1. ~ tty.raw /\ ~ tty.screen /\ tty \in [raw : BOOLEAN, screen : BOOLEAN]
    BY DEF ScreenInv, ScreenHeld
  <2>2. CASE Screen!GoFull
    BY <2>2 DEF ScreenHeld, Screen!TerminalRestored, Screen!GoFull
  <2>3. CASE Screen!GoFullFails
    <3>1. at' = "left" /\ guard' = FALSE
      BY <2>3 DEF Screen!GoFullFails, Screen!Left
    <3>2. CASE UNCHANGED <<tty, refused>>
      BY <2>1, <3>1, <3>2 DEF ScreenHeld, Screen!TerminalRestored
    <3>3. CASE ~ UNCHANGED <<tty, refused>>
      <4>1. PICK undone \in BOOLEAN :
              /\ tty' = [tty EXCEPT !.raw = ~undone]
              /\ refused' = IF undone THEN {} ELSE {"raw"}
        BY <2>3, <3>3 DEF Screen!GoFullFails
      <4>2. /\ tty' \in [raw : BOOLEAN, screen : BOOLEAN] /\ ~ tty'.screen
            /\ tty'.raw => "raw" \in refused'
        BY <2>1, <4>1
      <4> QED
        BY <3>1, <4>2 DEF ScreenHeld, Screen!TerminalRestored
    <3> QED
      BY <3>2, <3>3
  <2> QED
    BY <2>2, <2>3
<1> QED
  BY <1>3, <1>4, <1>5 DEF ScreenInv

\* The program is left, with the terminal as its guard could restore it.
LEMMA ScreenLeaves ==
  ASSUME NEW t \in [raw : BOOLEAN, screen : BOOLEAN],
         Screen!Leave(t, guard), guard = TRUE \/ (~ t.raw /\ ~ t.screen)
  PROVE  ScreenInv'
<1>1. at' = "left" /\ guard' = FALSE /\ ui' = Screen!Dashboard
  BY DEF Screen!Leave, Screen!Left
<1>2. PICK d \in Screen!Drop(t, guard) : tty' = d.tty /\ refused' = d.refused
  BY DEF Screen!Leave
<1>3. /\ tty' \in [raw : BOOLEAN, screen : BOOLEAN]
      /\ tty'.raw => "raw" \in refused'
      /\ tty'.screen => "screen" \in refused'
  <2>1. CASE guard = TRUE
    <3>1. PICK raw_fails \in BOOLEAN, screen_fails \in BOOLEAN :
            /\ tty' = [raw |-> t.raw /\ raw_fails, screen |-> t.screen /\ screen_fails]
            /\ refused' = (IF raw_fails THEN {"raw"} ELSE {}) \cup
                          (IF screen_fails THEN {"screen"} ELSE {})
      BY <1>2, <2>1 DEF Screen!Drop
    <3>2. t.raw \in BOOLEAN /\ t.screen \in BOOLEAN
      OBVIOUS
    <3> QED
      BY <3>1, <3>2
  <2>2. CASE guard # TRUE
    <3>1. ~ t.raw /\ ~ t.screen
      BY <2>2
    <3>2. tty' = t \/ \E raw_fails, screen_fails \in BOOLEAN :
            tty' = [raw |-> t.raw /\ raw_fails, screen |-> t.screen /\ screen_fails]
      BY <1>2 DEF Screen!Drop
    <3> QED
      BY <3>1, <3>2
  <2> QED
    BY <2>1, <2>2
<1>4. ScreenHeld'
  BY <1>1, <1>3 DEF ScreenHeld, Screen!TerminalRestored
<1>5. AsksOf(ui') /\ IsDashboard(ui')
  BY <1>1, NewDashboard DEF AsksOf
<1> QED
  BY <1>1, <1>4, <1>5 DEF ScreenInv, AgreedRuns

\* A line that may run leaves the full screen, or the program ends.
LEMMA ScreenRuns ==
  ASSUME ScreenInv, at = "keys", NEW u, NEW line, NEW path, NEW dialog,
         Screen!Run(u, line, path, dialog), path = Screen!CommandPath(line),
         IsDashboard(u), u.confirmation = None,
         path \in Screen!ConfirmRisk /\ path # None => dialog = [line |-> line, path |-> path]
  PROVE  ScreenInv'
<1>1. CASE path = None
  BY <1>1, ScreenShows DEF Screen!Run, Others
<1>2. CASE path # None /\ ui' = u /\ exec' = line /\ agreed' = dialog /\ Screen!GoPlain
  <2>1. AsksOf(ui') /\ IsDashboard(ui')
    BY <1>2 DEF AsksOf
  <2>2. AgreedRuns'
    BY <1>2 DEF AgreedRuns, Screen!GoPlain
  <2>3. ScreenHeld'
    BY <1>2 DEF ScreenHeld, Screen!TerminalRestored, Screen!GoPlain
  <2> QED
    BY <2>1, <2>2, <2>3 DEF ScreenInv
<1>3. CASE Screen!GoPlainFails
  <2>1. guard = TRUE /\ tty \in [raw : BOOLEAN, screen : BOOLEAN]
    BY DEF ScreenInv, ScreenHeld, Screen!TerminalRestored
  <2>2. PICK back \in BOOLEAN : Screen!Leave([tty EXCEPT !.raw = back], guard)
    BY <1>3 DEF Screen!GoPlainFails
  <2>3. [tty EXCEPT !.raw = back] \in [raw : BOOLEAN, screen : BOOLEAN]
    BY <2>1
  <2> QED
    BY <2>1, <2>2, <2>3, ScreenLeaves
<1> QED
  BY <1>1, <1>2, <1>3 DEF Screen!Run

\* A line is refused, or runs, or waits for the dialog that shows it.
LEMMA ScreenPrepares ==
  ASSUME ScreenInv, at = "keys", NEW u, NEW line, Screen!Prepare(u, line),
         IsDashboard(u), u.confirmation = None, u.line = line
  PROVE  ScreenInv'
<1> DEFINE path == Screen!CommandPath(line)
<1>1. CASE path # None /\ path \in Screen!ConfirmRisk
  <2>1. ui' = [u EXCEPT !.confirmation = [line |-> line, path |-> path]] /\ Others
    BY <1>1 DEF Screen!Prepare, Screen!NeedsConfirmation, Others
  <2>2. /\ IsDashboard(ui') /\ ui'.line = line
        /\ ui'.confirmation = [line |-> line, path |-> path]
    BY <2>1, FieldsOf DEF IsDashboard, DashboardField
  <2>3. AsksOf(ui')
    BY <2>2 DEF AsksOf
  <2>4. AgreedRuns' /\ ScreenHeld'
    BY <2>1 DEF ScreenInv, AgreedRuns, ScreenHeld, Others, Screen!TerminalRestored
  <2> QED
    BY <2>2, <2>3, <2>4 DEF ScreenInv
<1>2. CASE path = None \/ path \notin Screen!ConfirmRisk
  <2>1. Screen!Run(u, line, path, None)
    BY <1>2 DEF Screen!Prepare, Screen!NeedsConfirmation
  <2> QED
    BY <1>2, <2>1, ScreenRuns
<1> QED
  BY <1>1, <1>2

LEMMA ScreenLines ==
  ASSUME ScreenInv,
         Screen!PickModel \/ Screen!Recommend \/ Screen!DeployAuto \/ Screen!EnterLine
  PROVE  ScreenInv'
<1>1. IsDashboard(ui) /\ ui.confirmation = None /\ at = "keys"
  BY DEF ScreenInv, Screen!PickModel, Screen!Recommend, Screen!DeployAuto, Screen!EnterLine,
     Screen!InPicker, Screen!Browsing, Screen!Plain, Screen!Reading
<1>2. CASE Screen!PickModel
  <2> DEFINE u == [ui EXCEPT !.picker = None]
             line == Screen!PathLine("model deploy") \o
                     <<" ", Screen!SelectedRepository(ui.picker)>>
  <2>1. IsDashboard(u) /\ u.confirmation = None
    <3>1. SameDialog(ui, u)
      BY <1>1, KeepsDialog
    <3> QED
      BY <1>1, <3>1 DEF SameDialog
  <2>2. Screen!Prepare(Screen!SelectCommand(u, "model deploy", line), line)
    BY <1>2 DEF Screen!PickModel
  <2> HIDE DEF u, line
  <2> QED
    BY <1>1, <2>1, <2>2, CommandKeeps, ScreenPrepares DEF SameDialog
<1>3. CASE Screen!Recommend
  <2> DEFINE line == Screen!PathLine("model recommend") \o <<" ", "--limit">>
  <2>1. Screen!Prepare(Screen!SelectCommand(ui, "model recommend", line), line)
    BY <1>3 DEF Screen!Recommend
  <2> HIDE DEF line
  <2> QED
    BY <1>1, <2>1, CommandKeeps, ScreenPrepares DEF SameDialog
<1>4. CASE Screen!DeployAuto
  <2> DEFINE line == Screen!PathLine("model deploy") \o <<" ", "auto">>
  <2>1. Screen!Prepare(Screen!SelectCommand(ui, "model deploy", line), line)
    BY <1>4 DEF Screen!DeployAuto
  <2> HIDE DEF line
  <2> QED
    BY <1>1, <2>1, CommandKeeps, ScreenPrepares DEF SameDialog
<1>5. CASE Screen!EnterLine
  BY <1>1, <1>5, ScreenPrepares DEF Screen!EnterLine
<1> QED
  BY <1>2, <1>3, <1>4, <1>5

\* The answer yes runs the line that the dialog showed.
LEMMA ScreenAnswers ==
  ASSUME ScreenInv, Screen!AnswerYes
  PROVE  ScreenInv'
<1> DEFINE u == [ui EXCEPT !.confirmation = None]
           dialog == ui.confirmation
<1>1. /\ at = "keys" /\ dialog = [line |-> ui.line, path |-> Screen!CommandPath(ui.line)]
      /\ Screen!Run(u, dialog.line, Screen!CommandPath(dialog.line), dialog)
  BY DEF ScreenInv, AsksOf, Screen!AnswerYes, Screen!Reading
<1>2. IsDashboard(u) /\ u.confirmation = None
  BY FieldsOf DEF ScreenInv, IsDashboard, DashboardField
<1>3. dialog.line = ui.line
  BY <1>1
<1> HIDE DEF u, dialog
<1> QED
  BY <1>1, <1>2, <1>3, ScreenRuns

LEMMA ScreenNext ==
  ASSUME ScreenInv, [Screen!Next]_screen
  PROVE  ScreenInv'
<1>1. CASE Screen!Enter \/ Screen!CommandEnds
  BY <1>1, ScreenFull DEF Screen!Enter, Screen!CommandEnds
<1>2. CASE Screen!Ends
  <2>1. guard = TRUE \/ (~ tty.raw /\ ~ tty.screen)
    BY <1>2 DEF Screen!Ends, ScreenInv, ScreenHeld, Screen!TerminalRestored
  <2>2. tty \in [raw : BOOLEAN, screen : BOOLEAN] /\ Screen!Leave(tty, guard)
    BY <1>2 DEF Screen!Ends, ScreenInv, ScreenHeld
  <2> QED
    BY <2>1, <2>2, ScreenLeaves
<1>3. CASE Screen!Again
  <2>1. /\ at = "left" /\ tty = [raw |-> FALSE, screen |-> FALSE] /\ at' = "start"
        /\ UNCHANGED <<ui, tty, guard, exec, agreed>>
    BY <1>3 DEF Screen!Again
  <2>2. ScreenHeld'
    BY <2>1 DEF ScreenInv, ScreenHeld, Screen!TerminalRestored
  <2> QED
    BY <2>1, <2>2 DEF ScreenInv, AgreedRuns
<1>4. CASE UNCHANGED screen
  BY <1>4 DEF screen, ScreenInv, ScreenHeld, AgreedRuns, Screen!TerminalRestored
<1> QED
  BY <1>1, <1>2, <1>3, <1>4, ScreenKeys, ScreenLines, ScreenAnswers
  DEF Screen!Next, Screen!tui, screen

\* tui.rs, run and TerminalGuard: what runs and changes something is the line of the
\* dialog that was answered with yes, the line the dialog showed, and commands run on
\* a plain terminal, which is also what the program leaves unless the very call that
\* restores it failed.
THEOREM ConfirmedAlwaysRun ==
  Spec => [](Screen!RunsConfirmed /\ Screen!TerminalRestored)
<1>1. Init => ScreenInv
  BY NewDashboard DEF Init, Screen!Init, ScreenInv, AsksOf, AgreedRuns, ScreenHeld,
     Screen!TerminalRestored
<1>2. ScreenInv /\ [Next]_vars => ScreenInv'
  BY PartSteps, ScreenNext
<1>3. ScreenInv => Screen!RunsConfirmed /\ Screen!TerminalRestored
  <2> SUFFICES ASSUME ScreenInv PROVE Screen!RunsConfirmed /\ Screen!TerminalRestored
    OBVIOUS
  <2>1. ui.confirmation # None => ui.confirmation.line = ui.line
    BY DEF ScreenInv, AsksOf
  <2> QED
    BY <2>1 DEF ScreenInv, AgreedRuns, ScreenHeld, Screen!RunsConfirmed
<1> QED
  BY <1>1, <1>2, <1>3, PTL DEF Spec

-----------------------------------------------------------------------------
\* The local service as a whole: its processes, the slot its stop reports on, the
\* isolation of its engine and the terminal that starts it.
THEOREM ServicesAlwaysAccounted == Spec => []ServiceAccounted
<1>1. /\ Service!TypeOK /\ Service!NoOrphan /\ Service!OnlyOwnProcesses
      /\ Proxy!ConfirmedIsClean
      /\ Isolation!AppliedAsStated /\ Isolation!DetectionAgrees
      /\ Screen!RunsConfirmed /\ Screen!TerminalRestored
      => ServiceAccounted
  BY DEF ServiceAccounted
<1> QED
  BY <1>1, ProcessesAlwaysAccounted, StopsAlwaysConfirmed, IsolationAlwaysStated,
     ConfirmedAlwaysRun, PTL
=============================================================================
