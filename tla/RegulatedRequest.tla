-------------------------- MODULE RegulatedRequest --------------------------
(***************************************************************************)
(* A Regulated request from the consumer's proxy to the trusted runtime of *)
(* a node and back.  The consumer verifies the route it is offered with    *)
(* its own verifier, seals the request to the key the hardware evidence    *)
(* binds, and opens only a result sealed by that key for that route.  The  *)
(* node hands the sealed request to the runtime that holds the key; both   *)
(* sides talk to external programs under a deadline.                       *)
(*                                                                         *)
(* Meanwhile the node may attest again, which replaces the key its vault   *)
(* knows, and what the coordinator answers may be out of date or mixed up: *)
(* neither side relies on it.                                              *)
(*                                                                         *)
(* A report stands for an attestation of the instance, and for the key the *)
(* evidence binds.                                                         *)
(*                                                                         *)
(* Source: crates/mindone-cli/src/quota.rs, e2ee.rs, share.rs;             *)
(* crates/mindone-sandbox/src/client_verifier.rs, tee_runtime.rs,          *)
(* bounded_process.rs, external_attester.rs.                               *)
(***************************************************************************)
EXTENDS Naturals, FiniteSets

CONSTANTS
  Sealer,    \* requests of the consumer, each with a session key of its own
  Report,    \* attestations of the instance, in their order: 1 .. n
  Allowed    \* those whose policy, runtime and measurement the consumer allows

VARIABLES
  tee_keys,    \* the keys the runtime holds, one per report it prepared
  key_record,  \* the vault's attestation key: report and key, 0 before the first
  attesting,   \* the key of an attestation in progress, 0 if none
  sealed,      \* sealed[q]: what the consumer knows and where it stands
  work,        \* work[q]: the job at the coordinator
  adapter      \* adapter[q]: the program the node runs for the job

vars == <<tee_keys, key_record, attesting, sealed, work, adapter>>

\* A prepared route: its report, the key and the evidence that came with it.
Route == [report : Report, key : Report, evidence : Report, current : BOOLEAN]
NoRoute == [report |-> 0, key |-> 0, evidence |-> 0, current |-> FALSE]

\* A sealed message opens under the pair of keys and the binding it was sealed
\* with: regulated_aad and derive_key.
Envelope(direction, q, report, key) ==
  [direction |-> direction, route |-> q, report |-> report, tee |-> key, session |-> q]

NoWork == [status |-> "none"]

-----------------------------------------------------------------------------
(***************************************************************************)
(* The node attests                                                        *)
(***************************************************************************)
\* ExternalTeeRuntime::prepare: a handle and a new public key.
TeePrepare ==
  /\ attesting = 0 /\ Cardinality(tee_keys) < Cardinality(Report)
  /\ LET key == Cardinality(tee_keys) + 1 IN
       attesting' = key /\ tee_keys' = tee_keys \cup {key}
  /\ UNCHANGED <<key_record, sealed, work, adapter>>

\* ExternalTeeRuntime::attest: the evidence must name the prepared key.  The
\* coordinator verified it, and the vault keeps the new record.
TeeAttest ==
  /\ attesting # 0
  /\ key_record' = attesting /\ attesting' = 0
  /\ UNCHANGED <<tee_keys, sealed, work, adapter>>

\* A program that fails, is late or answers for another key; or the coordinator
\* refuses.
AttestFails ==
  /\ attesting # 0
  /\ attesting' = 0
  /\ UNCHANGED <<tee_keys, key_record, sealed, work, adapter>>

-----------------------------------------------------------------------------
(***************************************************************************)
(* The consumer                                                            *)
(***************************************************************************)
Fails(q) == sealed' = [sealed EXCEPT ![q] = [at |-> "failed", route |-> NoRoute]]

\* The coordinator's answer to JOBS_REGULATED_PREPARE.
PrepareAnswered(q, route) ==
  /\ sealed[q].at = "new"
  /\ {route.report, route.key, route.evidence} \subseteq tee_keys
  /\ sealed' = [sealed EXCEPT ![q] = [at |-> "offered", route |-> route]]
  /\ UNCHANGED <<tee_keys, key_record, attesting, work, adapter>>

\* ClientEvidenceVerifier::verify and validate_output: the consumer's own
\* allowlists, then its own program on the evidence.
ClientVerifies(route) == route.report \in Allowed /\ route.evidence = route.report

\* Mutant of VerifiedRoute: REPORTDATA is not computed again.
VerifiedUnbound(route) ==
  route.current /\ ClientVerifies(route)

\* verify_prepared_route: identities and times, the evidence's hash, REPORTDATA
\* over the key and the hashes, then the verifier.
VerifiedRoute(route) ==
  /\ route.current
  /\ route.key = route.report
  /\ ClientVerifies(route)

VerifyPreparedRoute(q, answers) ==
  /\ sealed[q].at = "offered"
  /\ IF answers /\ VerifiedRoute(sealed[q].route)
       THEN sealed' = [sealed EXCEPT ![q].at = "verified"]
       ELSE Fails(q)
  /\ UNCHANGED <<tee_keys, key_record, attesting, work, adapter>>

\* encrypt_request with a new session key, and the creation of the job.  The
\* coordinator keeps the route it prepared beside the sealed request.  The
\* answer may be lost.
EncryptAndCreate(q, heard) ==
  LET route == sealed[q].route IN
  /\ sealed[q].at = "verified"
  /\ work' = [work EXCEPT ![q] =
       [status |-> "queued", report |-> route.report, key |-> route.key,
        envelope |-> Envelope("request", q, route.report, route.key)]]
  /\ IF heard THEN sealed' = [sealed EXCEPT ![q].at = "waiting"] ELSE Fails(q)
  /\ UNCHANGED <<tee_keys, key_record, attesting, adapter>>

\* The polled answer is about job j, which should be q's own.
SameRoute(q, j) == j = q /\ work[j].report = sealed[q].route.report

\* decrypt_result: the bindings, then the key.
Opens(q, envelope) ==
  /\ envelope.direction = "result"
  /\ envelope.route = q /\ envelope.report = sealed[q].route.report
  /\ envelope.tee = sealed[q].route.key
  /\ envelope.session = q

\* One poll of the wait loop.
PollRegulated(q, j) ==
  /\ sealed[q].at = "waiting" /\ work[j].status \in {"succeeded", "failed"}
  /\ IF SameRoute(q, j) /\ work[j].status = "succeeded" /\ Opens(q, work[j].envelope)
       THEN sealed' = [sealed EXCEPT ![q].at = "opened"]
       ELSE Fails(q)
  /\ UNCHANGED <<tee_keys, key_record, attesting, work, adapter>>

\* 600 seconds are over or a call failed: the session key is gone.
WaitOver(q) ==
  /\ sealed[q].at = "waiting"
  /\ Fails(q)
  /\ UNCHANGED <<tee_keys, key_record, attesting, work, adapter>>

-----------------------------------------------------------------------------
(***************************************************************************)
(* The node executes                                                       *)
(***************************************************************************)
JobEnds(q, status) == work' = [work EXCEPT ![q].status = status]

\* execute_regulated_with_lease: the vault's record must be the one the job was
\* routed to, and the sealed request must be for it.
RecordMatches(q) ==
  /\ key_record = work[q].report /\ key_record = work[q].key
  /\ work[q].envelope.direction = "request"
  /\ work[q].envelope.route = q /\ work[q].envelope.report = work[q].report

ExecuteRegulated(q) ==
  /\ work[q].status = "queued"
  /\ IF RecordMatches(q)
       THEN /\ JobEnds(q, "leased")
            /\ adapter' = [adapter EXCEPT ![q] = [at |-> "running", handle |-> key_record]]
       ELSE JobEnds(q, "failed") /\ UNCHANGED adapter
  /\ UNCHANGED <<tee_keys, key_record, attesting, sealed>>

\* The runtime opens the request with the key of the handle and seals the
\* result; another program's output may also be for another job.
Output(q, j) ==
  IF work[q].envelope.tee = adapter[q].handle
    THEN {Envelope("result", j, work[j].report, adapter[q].handle)}
    ELSE {}

\* Mutant of OutputBound: only the key is looked at.
OutputOfKey(q, output) == output.tee = work[q].key

\* ExternalTeeRuntime::infer, the checks on the result.
OutputBound(q, output) ==
  /\ output.direction = "result" /\ output.route = q
  /\ output.report = work[q].report /\ output.tee = work[q].key

\* communicate: the output was read to its end and the program has exited.
AdapterAnswers(q, j) ==
  /\ adapter[q].at = "running" /\ work[j].status # "none"
  /\ \E output \in Output(q, j) :
       IF OutputBound(q, output)
         THEN work' = [work EXCEPT ![q].status = "succeeded", ![q].envelope = output]
         ELSE JobEnds(q, "failed")
  /\ adapter' = [adapter EXCEPT ![q].at = "exited"]
  /\ UNCHANGED <<tee_keys, key_record, attesting, sealed>>

\* The deadline, an output above the limit, or a broken pipe: the program is
\* killed.  Or it fails by itself.
AdapterFails(q, killed) ==
  /\ adapter[q].at = "running"
  /\ adapter' = [adapter EXCEPT ![q].at = IF killed THEN "killed" ELSE "exited"]
  /\ JobEnds(q, "failed")
  /\ UNCHANGED <<tee_keys, key_record, attesting, sealed>>

-----------------------------------------------------------------------------
Init ==
  /\ tee_keys = {} /\ key_record = 0 /\ attesting = 0
  /\ sealed = [q \in Sealer |-> [at |-> "new", route |-> NoRoute]]
  /\ work = [q \in Sealer |-> NoWork]
  /\ adapter = [q \in Sealer |-> [at |-> "none", handle |-> 0]]

Next ==
  \/ TeePrepare \/ TeeAttest \/ AttestFails
  \/ \E q \in Sealer :
       \/ \E route \in Route : PrepareAnswered(q, route)
       \/ \E b \in BOOLEAN : VerifyPreparedRoute(q, b) \/ EncryptAndCreate(q, b) \/ AdapterFails(q, b)
       \/ \E j \in Sealer : PollRegulated(q, j) \/ AdapterAnswers(q, j)
       \/ WaitOver(q) \/ ExecuteRegulated(q)

Spec == Init /\ [][Next]_vars

-----------------------------------------------------------------------------
\* Whatever the coordinator offers and however the node attests meanwhile, a
\* request is sealed only to a key that evidence the consumer allows binds, and
\* an opened result was made for this request by the runtime that holds that key.
SealedToVerified ==
  \A q \in Sealer :
    /\ work[q] # NoWork /\ work[q].envelope.direction = "request" =>
         work[q].envelope.tee = work[q].envelope.report /\ work[q].envelope.tee \in Allowed
    /\ sealed[q].at = "opened" =>
         /\ work[q].envelope = Envelope("result", q, sealed[q].route.report, adapter[q].handle)
         /\ adapter[q].handle \in Allowed

\* No program is left running for a job that is over, and none runs for a
\* request the vault's key was not meant for.
AdapterAccounted ==
  \A q \in Sealer :
    /\ adapter[q].at = "running" <=> work[q] # NoWork /\ work[q].status = "leased"
    /\ work[q] # NoWork /\ work[q].status = "succeeded" => work[q].envelope.route = q
=============================================================================
