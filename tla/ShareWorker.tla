----------------------------- MODULE ShareWorker -----------------------------
(***************************************************************************)
(* The contribution worker: its main loop, the slots of the managed        *)
(* llama.cpp process, one task per claimed job, and the submission of the  *)
(* task's result or failure with bounded idempotent retries.               *)
(*                                                                         *)
(* The coordinator appears as far as the worker can tell: a job is         *)
(* claimable, leased live, lapsed or ended, and the reports it has applied *)
(* are known by their idempotency key.  Any request or answer may be lost, *)
(* and a request whose sender has timed out may still arrive.              *)
(*                                                                         *)
(* Source: share.rs (run_worker_loop, process_claimed_job,                 *)
(* execute_with_lease, execute_local_inference, submit_with_retry), node.rs *)
(* and coordinator.rs of the CLI.                                          *)
(***************************************************************************)
EXTENDS Naturals, Sequences, FiniteSets

CONSTANTS
  Job,
  Slot,          \* the managed contribution slots, 1 .. MANAGED_SHARE_MAX_CONCURRENT
  MaxLeases,     \* bound: how often a job is leased out
  MaxTries,      \* SUBMISSION_MAX_ATTEMPTS
  None

VARIABLES
  \* the coordinator
  lease,       \* the state of each job
  attempt,     \* how often it has been leased
  applied,     \* the reports that took effect
  wire,        \* requests given up by their sender that may still arrive
  \* run_worker_loop
  pc,          \* where the loop is
  limit,       \* the policy's max_concurrent the loop read at its top
  avail,       \* available_slots
  active,      \* active_count
  credited,    \* the attempts counted in metrics.successes
  \* the tasks and the engine
  task,        \* the claimed job of each slot
  kv,          \* whose tokens each slot of the engine holds
  \* the operator
  policy,      \* max_concurrent in the policy file
  stop         \* the stop file

serverVars == <<lease, attempt, applied, wire>>
loopVars == <<pc, limit, avail, active, credited>>
operatorVars == <<policy, stop>>
vars == <<serverVars, loopVars, task, kv, operatorVars>>

Report(kind, j, a) == [kind |-> kind, job |-> j, attempt |-> a]

Task ==
  [job : Job, attempt : 1 .. MaxLeases, tries : 0 .. MaxTries,
   phase : {"claimed", "binding", "inferring", "erasing", "submit", "ended"},
   kind : {"result", "failure"}, retryable : BOOLEAN, erase_called : BOOLEAN,
   output : {"none", "partial", "invalid", "valid"}, ok : BOOLEAN]

Busy == {s \in Slot : task[s] # None}
In(s, phases) == task[s] # None /\ task[s].phase \in phases
Began(s) == kv[s] = [job |-> task[s].job, attempt |-> task[s].attempt]

\* A free list in the order the worker fills it.
SlotQueue ==
  CHOOSE q \in [1 .. Cardinality(Slot) -> Slot] : \A i, k \in DOMAIN q : i < k => q[i] < q[k]

-----------------------------------------------------------------------------
(***************************************************************************)
(* run_worker_loop                                                         *)
(***************************************************************************)

\* Mutant of Returned: the slot of a failed job is not handed back.
ReturnedOnSuccess(s) ==
  IF task[s].ok THEN Append(avail, s) ELSE avail

Returned(s) == Append(avail, s)

\* apply_job_task_outcome for a task that has ended.  The loop does so at its
\* top, while it waits for a slot or a job, and while it drains.
ApplyJobTaskOutcome(s) ==
  /\ pc = "top"
  /\ In(s, {"ended"})
  /\ active' = active - 1
  /\ avail' = Returned(s)
  /\ credited' = IF task[s].ok THEN credited \cup {Report("result", task[s].job, task[s].attempt)}
                 ELSE credited
  /\ task' = [task EXCEPT ![s] = None]
  /\ UNCHANGED <<serverVars, pc, limit, kv, operatorVars>>

NothingToJoin == \A s \in Slot : ~In(s, {"ended"})

\* The stop file is there and every task has been joined: the worker
\* unpublishes its instance and returns.  A refused request is tried again.
DrainedExit ==
  /\ pc = "top" /\ stop
  /\ Busy = {}
  /\ pc' = "exited"
  /\ UNCHANGED <<serverVars, limit, avail, active, credited, task, kv, operatorVars>>

\* Policy read, heartbeat posted and accepted: the loop goes on to claim when
\* the policy has room.  Every other outcome sleeps and returns to the top.
HeartbeatAccepted ==
  /\ pc = "top" /\ ~stop
  /\ NothingToJoin
  /\ active < policy
  /\ limit' = policy
  /\ pc' = "claim"
  /\ UNCHANGED <<serverVars, avail, active, credited, task, kv, operatorVars>>

ClaimNothing ==
  /\ pc = "claim"
  /\ pc' = "top"
  /\ UNCHANGED <<serverVars, limit, avail, active, credited, task, kv, operatorVars>>

\* What POST /v1/jobs/claim does to the job.
Lease(j) ==
  /\ lease[j] \in {"queued", "lapsed"}
  /\ attempt[j] < MaxLeases
  /\ lease' = [lease EXCEPT ![j] = "live"]
  /\ attempt' = [attempt EXCEPT ![j] = @ + 1]
  /\ UNCHANGED <<applied, wire>>

NewTask(j, a) ==
  [job |-> j, attempt |-> a, tries |-> 0, phase |-> "claimed", kind |-> "failure",
   retryable |-> TRUE, erase_called |-> FALSE, output |-> "none", ok |-> FALSE]

\* The claimed job gets the first free slot and a task of its own.  Without a
\* slot, or above the policy, the worker fails closed.
ClaimJob(j) ==
  /\ pc = "claim"
  /\ Lease(j)
  /\ IF avail = <<>> \/ active + 1 > limit
     THEN pc' = "exited" /\ UNCHANGED <<avail, active, task>>
     ELSE /\ avail' = Tail(avail)
          /\ active' = active + 1
          /\ task' = [task EXCEPT ![Head(avail)] = NewTask(j, attempt[j] + 1)]
          /\ pc' = "top"
  /\ UNCHANGED <<limit, credited, kv, operatorVars>>

\* The job is leased and the answer is lost.
ClaimAnswerLost(j) ==
  /\ pc = "claim"
  /\ Lease(j)
  /\ pc' = "top"
  /\ UNCHANGED <<limit, avail, active, credited, task, kv, operatorVars>>

\* An unreadable policy, a failed log monitor or a crash: the tasks are
\* aborted where they are.
WorkerAborts ==
  /\ pc # "exited"
  /\ pc' = "exited"
  /\ task' = [s \in Slot |-> None]
  /\ UNCHANGED <<serverVars, limit, avail, active, credited, kv, operatorVars>>

\* A new worker of a new publication beside the same engine process.
StartWorker ==
  /\ pc = "exited"
  /\ pc' = "top"
  /\ avail' = SlotQueue /\ active' = 0
  /\ task' = [s \in Slot |-> None]
  /\ stop' = FALSE
  /\ UNCHANGED <<serverVars, limit, credited, kv, policy>>

Loop ==
  \/ \E s \in Slot : ApplyJobTaskOutcome(s)
  \/ DrainedExit
  \/ HeartbeatAccepted
  \/ ClaimNothing
  \/ \E j \in Job : ClaimJob(j) \/ ClaimAnswerLost(j)

-----------------------------------------------------------------------------
(***************************************************************************)
(* process_claimed_job                                                     *)
(***************************************************************************)

Running(s) == pc # "exited" /\ task[s] # None

\* The task begins to submit a report of the given kind.
Submitting(s, kind, retryable) ==
  [task[s] EXCEPT !.phase = "submit", !.kind = kind, !.retryable = retryable, !.tries = 0,
                  !.output = IF kind = "result" THEN @ ELSE "none"]

TaskStep(s, next) ==
  /\ task' = [task EXCEPT ![s] = next]
  /\ UNCHANGED <<serverVars, loopVars, operatorVars>>

\* validate_standard_claim_identity or the second policy check refuses the job.
RejectClaim(s) ==
  /\ Running(s) /\ In(s, {"claimed"})
  /\ TaskStep(s, Submitting(s, "failure", FALSE))
  /\ UNCHANGED kv

\* execute_with_lease: the model file is hashed again, under the lease.
BeginExecution(s) ==
  /\ Running(s) /\ In(s, {"claimed"})
  /\ active - 1 < policy
  /\ TaskStep(s, [task[s] EXCEPT !.phase = "binding"])
  /\ UNCHANGED kv

\* The payload, the binding or the final policy check refuses the job, or the
\* engine cannot be reached: an execution error is retryable.
BindingFails(s) ==
  /\ Running(s) /\ In(s, {"binding"})
  /\ TaskStep(s, Submitting(s, "failure", TRUE))
  /\ UNCHANGED kv

\* execute_local_inference_after_final_policy passes its gate and the request
\* is sent to the task's own slot.
BeginInference(s) ==
  /\ Running(s) /\ In(s, {"binding"})
  /\ active - 1 < policy
  /\ TaskStep(s, [task[s] EXCEPT !.phase = "inferring"])
  /\ kv' = [kv EXCEPT ![s] = [job |-> task[s].job, attempt |-> task[s].attempt]]

\* The stream ends before it is complete, with a result whose structure the
\* coordinator will refuse, or with a good one.
InferenceEnds(s) ==
  /\ Running(s) /\ In(s, {"inferring"})
  /\ \E output \in {"partial", "invalid", "valid"} :
       TaskStep(s, [task[s] EXCEPT !.phase = "erasing", !.output = output])
  /\ UNCHANGED kv

\* Mutant of Outcome: a failed clean-up after a good answer is forgiven.
OutcomeIgnoringCleanup(s, erased) ==
  IF task[s].output # "partial" THEN "result" ELSE "failure"

\* The match on (inference, cleanup) at the end of execute_local_inference.
Outcome(s, erased) ==
  IF task[s].output # "partial" /\ erased = "some" THEN "result" ELSE "failure"

\* erase_managed_llama_slot: some tokens erased, none confirmed, or an error.
EraseManagedLlamaSlot(s) ==
  /\ Running(s) /\ In(s, {"erasing"})
  /\ \E erased \in {"some", "none", "error"} :
       /\ TaskStep(s, [Submitting(s, Outcome(s, erased), TRUE) EXCEPT !.erase_called = TRUE])
       /\ kv' = IF erased = "some" THEN [kv EXCEPT ![s] = None] ELSE kv

\* wait_for_inference_with_lease: a renewal that fails, because the lease is
\* gone or the request was lost, ends the wait and drops the inference.
RenewalFails(s) ==
  /\ Running(s) /\ In(s, {"binding", "inferring", "erasing"})
  /\ TaskStep(s, Submitting(s, "failure", TRUE))
  /\ UNCHANGED kv

-----------------------------------------------------------------------------
(***************************************************************************)
(* submit_with_retry                                                       *)
(***************************************************************************)

Request(s) ==
  [report |-> Report(task[s].kind, task[s].job, task[s].attempt),
   retryable |-> task[s].retryable, valid |-> task[s].kind = "failure" \/ task[s].output = "valid"]

\* The coordinator's answer: ok for a report it applies or has applied, 400
\* for a result it cannot accept, 409 when the lease is gone.
Answer(r) ==
  CASE r.report \in applied -> "ok"
    [] r.report \notin applied /\ lease[r.report.job] # "live" -> "conflict"
    [] r.report \notin applied /\ lease[r.report.job] = "live" /\ ~r.valid -> "invalid"
    [] OTHER -> "ok"

Handle(r) ==
  LET j == r.report.job
      fresh == r.report \notin applied /\ Answer(r) = "ok" IN
  /\ applied' = IF fresh THEN applied \cup {r.report} ELSE applied
  /\ lease' = IF ~fresh THEN lease
              ELSE [lease EXCEPT ![j] =
                     CASE r.report.kind = "result" -> "settled"
                       [] r.report.kind = "failure" /\ r.retryable /\ attempt[j] < MaxLeases -> "queued"
                       [] OTHER -> "failed"]
  /\ UNCHANGED attempt

\* Mutant of TerminalFailure: any rejected result is reported as a failure.
TerminalFailureAlways(answer) == answer # "ok"

\* result_submission_requires_terminal_failure
TerminalFailure(answer) == answer = "invalid"

\* JobTaskOutcome
Ended(s, ok) == [task[s] EXCEPT !.phase = "ended", !.ok = ok, !.tries = 0]

\* submit_result_or_terminal_failure and submit_failure once an answer is in.
Answered(s, answer) ==
  IF answer = "ok" THEN Ended(s, task[s].kind = "result")
  ELSE IF task[s].kind = "result" /\ TerminalFailure(answer)
       THEN Submitting(s, "failure", FALSE)
       ELSE Ended(s, FALSE)

\* Mutant of Unanswered: a report whose fate is unknown counts as accepted.
UnansweredAccepted(s) ==
  IF task[s].tries + 1 < MaxTries THEN [task[s] EXCEPT !.tries = @ + 1]
  ELSE Ended(s, task[s].kind = "result")

\* Mutant of Unanswered: the tries are not counted.
UnansweredForever(s) == task[s]

\* The transport failed: another try after renewing the lease and a pause, or
\* none is left and the last error is returned.
Unanswered(s) ==
  IF task[s].tries + 1 < MaxTries THEN [task[s] EXCEPT !.tries = @ + 1]
  ELSE IF task[s].kind = "result" /\ TerminalFailure("unconfirmed")
       THEN Submitting(s, "failure", FALSE)
       ELSE Ended(s, FALSE)

PostAnswered(s) ==
  /\ Running(s) /\ In(s, {"submit"})
  /\ Handle(Request(s))
  /\ task' = [task EXCEPT ![s] = Answered(s, Answer(Request(s)))]
  /\ UNCHANGED <<wire, loopVars, kv, operatorVars>>

PostAnswerLost(s) ==
  /\ Running(s) /\ In(s, {"submit"})
  /\ Handle(Request(s))
  /\ task' = [task EXCEPT ![s] = Unanswered(s)]
  /\ UNCHANGED <<wire, loopVars, kv, operatorVars>>

\* The client's timeout passes first; the request may still arrive.
PostTimesOut(s) ==
  /\ Running(s) /\ In(s, {"submit"})
  /\ wire' = wire \cup {Request(s)}
  /\ task' = [task EXCEPT ![s] = Unanswered(s)]
  /\ UNCHANGED <<lease, attempt, applied, loopVars, kv, operatorVars>>

LateArrival(r) ==
  /\ r \in wire
  /\ wire' = wire \ {r}
  /\ Handle(r)
  /\ UNCHANGED <<loopVars, task, kv, operatorVars>>

Post(s) == PostAnswered(s) \/ PostAnswerLost(s) \/ PostTimesOut(s)

-----------------------------------------------------------------------------
\* Time passes at the coordinator: a lease runs out; after the last one the
\* job is reaped.
LeaseLapses(j) ==
  /\ lease[j] = "live"
  /\ lease' = [lease EXCEPT ![j] = IF attempt[j] = MaxLeases THEN "failed" ELSE "lapsed"]
  /\ UNCHANGED <<attempt, applied, wire, loopVars, task, kv, operatorVars>>

\* node policy set.
PolicySet(n) ==
  /\ n # policy
  /\ policy' = n
  /\ UNCHANGED <<serverVars, loopVars, task, kv, stop>>

\* share unpublish writes the stop file.
RequestStop ==
  /\ ~stop /\ pc # "exited"
  /\ stop' = TRUE
  /\ UNCHANGED <<serverVars, loopVars, task, kv, policy>>

Init ==
  /\ lease = [j \in Job |-> "queued"]
  /\ attempt = [j \in Job |-> 0]
  /\ applied = {} /\ wire = {}
  /\ pc = "top" /\ limit = Cardinality(Slot)
  /\ avail = SlotQueue /\ active = 0 /\ credited = {}
  /\ task = [s \in Slot |-> None]
  /\ kv = [s \in Slot |-> None]
  /\ policy = Cardinality(Slot) /\ stop = FALSE

Execute(s) ==
  \/ RejectClaim(s) \/ BeginExecution(s) \/ BindingFails(s) \/ BeginInference(s)
  \/ InferenceEnds(s) \/ EraseManagedLlamaSlot(s) \/ RenewalFails(s)

Next ==
  \/ Loop
  \/ WorkerAborts \/ StartWorker
  \/ \E s \in Slot : Execute(s) \/ Post(s)
  \/ \E r \in wire : LateArrival(r)
  \/ \E j \in Job : LeaseLapses(j)
  \/ \E n \in 1 .. Cardinality(Slot) : PolicySet(n)
  \/ RequestStop

Spec == Init /\ [][Next]_vars

\* The loop and the retries are driven by timers and the executor.
Fairness == WF_vars(Loop) /\ \A s \in Slot : WF_vars(Post(s))

-----------------------------------------------------------------------------
TypeOK ==
  /\ lease \in [Job -> {"queued", "live", "lapsed", "settled", "failed"}]
  /\ attempt \in [Job -> 0 .. MaxLeases]
  /\ pc \in {"top", "claim", "exited"}
  /\ limit \in 1 .. Cardinality(Slot)
  /\ avail \in Seq(Slot)
  /\ active \in 0 .. Cardinality(Slot)
  /\ task \in [Slot -> Task \cup {None}]
  /\ policy \in 1 .. Cardinality(Slot) /\ stop \in BOOLEAN

\* Every slot is either free, once, or owned by one task, and active_count
\* counts the tasks: a claimed job always finds a slot whatever happens to the
\* policy file, and the fail-closed exits after a claim are never taken.
SlotsExact ==
  pc # "exited" =>
    /\ {avail[i] : i \in DOMAIN avail} = Slot \ Busy
    /\ Len(avail) = Cardinality(Slot \ Busy)
    /\ active = Cardinality(Busy)
    /\ (pc = "claim" => avail # <<>> /\ active < limit)

\* A result goes out only when the engine has confirmed that the tokens of its
\* inference left the slot.
ResultOnlyFromErasedSlot ==
  \A s \in Slot : In(s, {"submit", "ended"}) /\ task[s].kind = "result" => ~Began(s)

\* A worker that could not learn whether its result was settled never reports
\* the same attempt as failed: no result of the attempt has been applied, and
\* none that could be is still on the wire.
NoFailureAfterResult ==
  \A s \in Slot : In(s, {"submit"}) /\ task[s].kind = "failure" =>
    LET result == Report("result", task[s].job, task[s].attempt) IN
    result \notin applied /\ \A r \in wire : r.report = result => ~r.valid

\* metrics.successes counts only attempts whose result the coordinator applied.
CreditedIsSettled == credited \subseteq applied

\* What docs/SECURITY.md says of an inference, whether it succeeds or fails:
\* the erase of its slot is called before the slot is given to another job.
EveryInferenceErased ==
  \A s \in Slot : In(s, {"submit", "ended"}) /\ Began(s) => task[s].erase_called

\* A task that has something to report returns its slot, because its tries
\* are bounded, unless the worker goes away.
SubmissionEnds ==
  \A s \in Slot : In(s, {"submit"}) ~> (task[s] = None \/ pc = "exited")
=============================================================================
