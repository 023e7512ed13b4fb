------------------------------ MODULE JobStream ------------------------------
(***************************************************************************)
(* One streaming job from the worker that produces it to the client of the *)
(* public gateway.  The worker uploads its events one at a time, with      *)
(* retries; the coordinator appends them to job_stream_events and settles  *)
(* the job on the worker's result; the gateway polls the log, in three     *)
(* separate reads, and writes what it finds to the client until the job    *)
(* ends or its deadline passes.                                            *)
(*                                                                         *)
(* A request that was sent may arrive late, more than once, or after its   *)
(* sender gave up; its answer may be lost.  A streaming job has a single   *)
(* attempt, so a lease that runs out ends it.                              *)
(*                                                                         *)
(* Source: routes/jobs.rs (append_job_stream_event, job_result,            *)
(* validate_job_result, read_job_stream_authenticated),                    *)
(* routes/openai_gateway.rs, and share.rs of the CLI (the worker).         *)
(***************************************************************************)
EXTENDS Naturals, Sequences, FiniteSets

CONSTANTS
  MaxEvents,   \* MAX_JOB_STREAM_EVENTS
  PageSize,    \* the limit the gateway reads with
  None

VARIABLES
  \* the coordinator's tables
  status,          \* jobs.status
  lease,           \* whether lease_expires_at lies ahead
  rows,            \* job_stream_events
  \* the worker
  worker,          \* what it is doing with the job
  next,            \* the sequence of its next event
  submitting,      \* the event whose acknowledgement it waits for
  posted,          \* every request it ever sent: each may still arrive
  validated,       \* a job_result handler has passed validate_job_result
  \* GatewayStreamState
  reading,         \* the read in progress and what it has seen so far
  next_sequence,
  pending,
  terminal,
  overdue,         \* Instant::now() >= deadline
  \* the client's side of the response
  frames,          \* the ids of the data frames written, in order
  ended,           \* how the response ended, None while it is open
  connected

jobVars == <<status, lease, rows>>
workerVars == <<worker, next, submitting, posted, validated>>
gatewayVars == <<reading, next_sequence, pending, terminal, overdue>>
clientVars == <<frames, ended, connected>>
vars == <<jobVars, workerVars, gatewayVars, clientVars>>

Terminal == {"succeeded", "failed", "cancelled"}
Event == [sequence : 0 .. MaxEvents, kind : {"data", "upstream_done"}]

Data == {r.sequence : r \in {e \in rows : e.kind = "data"}}
UpstreamDone == \E e \in rows : e.kind = "upstream_done"

HoldsLease == status = "leased" /\ lease = "live"

-----------------------------------------------------------------------------
(***************************************************************************)
(* The worker                                                              *)
(***************************************************************************)

\* claim_job hands the job out; wait_for_inference_with_lease begins.
ClaimJob ==
  /\ status = "queued"
  /\ status' = "leased" /\ lease' = "live"
  /\ worker' = "streaming"
  /\ UNCHANGED <<rows, next, submitting, posted, validated, gatewayVars, clientVars>>

\* submit_stream_event: one event at a time.  Producing stops at the bound on
\* the events of an inference, one above what the coordinator accepts.
SubmitStreamEvent(kind) ==
  LET event == [sequence |-> next, kind |-> kind] IN
  /\ worker = "streaming" /\ submitting = None
  /\ event \in Event
  /\ submitting' = event
  /\ posted' = posted \cup {event}
  /\ UNCHANGED <<jobVars, worker, next, validated, gatewayVars, clientVars>>

\* The event comes next in an unfinished log, and a log does not begin with
\* upstream_done.
Appendable(event) ==
  /\ event.sequence = Cardinality(rows)
  /\ Cardinality(rows) < MaxEvents
  /\ ~ UpstreamDone
  /\ event.kind = "upstream_done" => rows # {}

\* validate_stream_event_replay: a stored event under the same sequence and key
\* is the same event.
Replayed(event) == \E row \in rows : row.sequence = event.sequence /\ row.kind = event.kind

\* Mutant of AppendJobStreamEvent: the lease is not checked.
AppendLeaseUnchecked(event, heard) ==
  /\ event \in posted
  /\ Replayed(event) \/ Appendable(event)
  /\ rows' = rows \cup {event}
  /\ IF heard /\ submitting = event
       THEN /\ submitting' = None /\ next' = next + 1
            /\ worker' = IF event.kind = "data" THEN worker ELSE "complete"
       ELSE UNCHANGED <<submitting, next, worker>>
  /\ UNCHANGED <<status, lease, posted, validated, gatewayVars, clientVars>>

\* append_job_stream_event: a replay changes nothing, and either is answered.
\* The worker hears the answer only if it still waits for that event.
AppendJobStreamEvent(event, heard) ==
  /\ event \in posted
  /\ HoldsLease
  /\ Replayed(event) \/ Appendable(event)
  /\ rows' = rows \cup {event}
  /\ IF heard /\ submitting = event
       THEN /\ submitting' = None /\ next' = next + 1
            /\ worker' = IF event.kind = "data" THEN worker ELSE "complete"
       ELSE UNCHANGED <<submitting, next, worker>>
  /\ UNCHANGED <<status, lease, posted, validated, gatewayVars, clientVars>>

\* The inference fails, an upload is refused or stays unconfirmed after every
\* retry, or the coordinator refuses the result: the worker reports a failure.
WorkerGivesUp ==
  /\ worker \in {"streaming", "complete"}
  /\ worker' = "failing" /\ submitting' = None
  /\ UNCHANGED <<jobVars, next, posted, validated, gatewayVars, clientVars>>

\* The log is one unbroken run of data events closed by upstream_done.
Complete ==
  LET n == Cardinality(rows) IN
  /\ n >= 2
  /\ {e.sequence : e \in rows} = 0 .. n - 1
  /\ {e \in rows : e.kind = "upstream_done"}
       = {[sequence |-> n - 1, kind |-> "upstream_done"]}

\* Mutant of ValidateJobResult: the log is not checked.
ValidateAnyLog ==
  /\ worker # "idle"
  /\ validated' = TRUE
  /\ UNCHANGED <<jobVars, worker, next, submitting, posted, gatewayVars, clientVars>>

\* validate_job_result, which job_result runs on its own connection before the
\* settlement transaction begins.  The coordinator does not rely on the worker
\* to send its result only at the end.
ValidateJobResult ==
  /\ worker # "idle" /\ Complete
  /\ validated' = TRUE
  /\ UNCHANGED <<jobVars, worker, next, submitting, posted, gatewayVars, clientVars>>

\* complete_job
CompleteJob ==
  /\ validated /\ HoldsLease
  /\ status' = "succeeded" /\ lease' = "none"
  /\ UNCHANGED <<rows, workerVars, gatewayVars, clientVars>>

\* job_fail: with one attempt every failure is terminal.
JobFail ==
  /\ worker = "failing" /\ HoldsLease
  /\ status' = "failed" /\ lease' = "none"
  /\ UNCHANGED <<rows, workerVars, gatewayVars, clientVars>>

-----------------------------------------------------------------------------
LeaseExpires ==
  /\ HoldsLease
  /\ lease' = "expired"
  /\ UNCHANGED <<status, rows, workerVars, gatewayVars, clientVars>>

\* reap_expired_terminal_leases, run by some claim_job or get_job.
ReapExpiredLease ==
  /\ status = "leased" /\ lease = "expired"
  /\ status' = "failed" /\ lease' = "none"
  /\ UNCHANGED <<rows, workerVars, gatewayVars, clientVars>>

-----------------------------------------------------------------------------
(***************************************************************************)
(* next_gateway_stream_chunk                                               *)
(***************************************************************************)
Open == connected /\ ended = None

\* Nothing is left to write, so the loop goes on to the deadline and the read.
Polling == Open /\ pending = <<>> /\ terminal = None /\ reading = None

WritePending ==
  /\ Open /\ pending # <<>>
  /\ frames' = Append(frames, Head(pending))
  /\ pending' = Tail(pending)
  /\ UNCHANGED <<jobVars, workerVars, reading, next_sequence, terminal, overdue,
                 ended, connected>>

WriteTerminal ==
  /\ Open /\ pending = <<>> /\ terminal # None
  /\ ended' = terminal /\ terminal' = None
  /\ UNCHANGED <<jobVars, workerVars, reading, next_sequence, pending, overdue,
                 frames, connected>>

DeadlinePasses ==
  /\ Open /\ ~ overdue
  /\ overdue' = TRUE
  /\ UNCHANGED <<jobVars, workerVars, reading, next_sequence, pending, terminal,
                 clientVars>>

\* Mutant of GatewayTimesOut: returns early when the job has ended.
TimesOutOnLiveJob ==
  /\ Polling /\ overdue
  /\ status \notin Terminal
  /\ status' = "cancelled" /\ lease' = "none"
  /\ terminal' = "timeout"
  /\ UNCHANGED <<rows, workerVars, reading, next_sequence, pending, overdue,
                 clientVars>>

\* The deadline branch: cancel_timed_out_job leaves a finished job alone and
\* succeeds all the same.
GatewayTimesOut ==
  /\ Polling /\ overdue
  /\ IF status \in Terminal
       THEN UNCHANGED <<status, lease>>
       ELSE status' = "cancelled" /\ lease' = "none"
  /\ terminal' = "timeout"
  /\ UNCHANGED <<rows, workerVars, reading, next_sequence, pending, overdue,
                 clientVars>>

\* cancel_timed_out_job fails: nothing is committed and the message says so.
CancelFails ==
  /\ Polling /\ overdue
  /\ terminal' = "unconfirmed"
  /\ UNCHANGED <<jobVars, workerVars, reading, next_sequence, pending, overdue,
                 clientVars>>

\* read_job_stream_authenticated, first read: the job.
ReadJob ==
  /\ Polling /\ ~ overdue
  /\ reading' = [status |-> status, events |-> None]
  /\ UNCHANGED <<jobVars, workerVars, next_sequence, pending, terminal, overdue,
                 clientVars>>

\* Mutant of Page: no LIMIT.
PageUnlimited(cursor) == {s \in Data : s >= cursor}

\* Mutant of Page: the cursor is exclusive of one too few.
PageBefore(cursor) ==
  {s \in Data : /\ s + 1 >= cursor
                /\ Cardinality({t \in Data : cursor <= t + 1 /\ t < s}) < PageSize}

\* Second read: one page of data events at or above the cursor, in order.
Page(cursor) ==
  {s \in Data : /\ s >= cursor
                /\ Cardinality({t \in Data : cursor <= t /\ t < s}) < PageSize}

InOrder(S) ==
  [k \in 1 .. Cardinality(S) |->
     CHOOSE s \in S : Cardinality({t \in S : t < s}) = k - 1]

ReadRows ==
  /\ Open /\ reading # None /\ reading.events = None
  /\ reading' = [reading EXCEPT !.events =
       IF reading.status = "queued" THEN <<>> ELSE InOrder(Page(next_sequence))]
  /\ UNCHANGED <<jobVars, workerVars, next_sequence, pending, terminal, overdue,
                 clientVars>>

\* Mutant of Concludes: looks at the job status alone.
ConcludesOnStatus(seen, more, done) ==
  CASE seen = "succeeded" -> "done"
    [] seen \in {"failed", "cancelled"} -> "error"
    [] OTHER -> None

\* What the gateway concludes from a read: `seen' the status its first part
\* saw, `more' and `done' what its last part saw.
Concludes(seen, more, done) ==
  CASE seen = "succeeded" /\ ~ done -> "corrupt"
    [] seen = "succeeded" /\ done /\ ~ more -> "done"
    [] seen \in {"failed", "cancelled"} -> "error"
    [] OTHER -> None

\* Third read: has_more and upstream_done; then the response is taken over.  A
\* settled log without upstream_done is an internal error and yields nothing.
ReadState ==
  /\ Open /\ reading # None /\ reading.events # None
  /\ LET page == reading.events
         cursor == IF page = <<>> THEN next_sequence ELSE page[Len(page)] + 1
         claimed == reading.status # "queued"
         more == claimed /\ \E s \in Data : s >= cursor
         verdict == Concludes(reading.status, more, claimed /\ UpstreamDone)
     IN /\ terminal' = verdict
        /\ IF verdict = "corrupt"
             THEN UNCHANGED <<next_sequence, pending>>
             ELSE next_sequence' = cursor /\ pending' = page
  /\ reading' = None
  /\ UNCHANGED <<jobVars, workerVars, overdue, clientVars>>

\* Any of the reads fails: the error is the end of the stream.
ReadFails ==
  /\ Open /\ reading # None
  /\ reading' = None /\ terminal' = "error"
  /\ UNCHANGED <<jobVars, workerVars, next_sequence, pending, overdue, clientVars>>

\* The client goes away and the response body is dropped with its state.
ClientDisconnects ==
  /\ Open
  /\ connected' = FALSE
  /\ UNCHANGED <<jobVars, workerVars, gatewayVars, frames, ended>>

-----------------------------------------------------------------------------
Created ==
  /\ status = "queued" /\ lease = "none" /\ rows = {}
  /\ worker = "idle" /\ next = 0 /\ submitting = None /\ posted = {}
  /\ validated = FALSE
  /\ reading = None /\ next_sequence = 0 /\ pending = <<>> /\ terminal = None
  /\ overdue = FALSE
  /\ frames = <<>> /\ ended = None

\* run_gateway has created the job and returned the stream.
Init == Created /\ connected = TRUE

WorkerNext ==
  \/ ClaimJob
  \/ \E kind \in {"data", "upstream_done"} : SubmitStreamEvent(kind)
  \/ \E event \in posted, heard \in BOOLEAN : AppendJobStreamEvent(event, heard)
  \/ WorkerGivesUp
  \/ ValidateJobResult
  \/ CompleteJob
  \/ JobFail

ReadStep == ReadJob \/ ReadRows \/ ReadState

GatewayNext ==
  \/ WritePending \/ WriteTerminal
  \/ DeadlinePasses \/ GatewayTimesOut \/ CancelFails
  \/ ReadStep \/ ReadFails
  \/ ClientDisconnects

Next == WorkerNext \/ LeaseExpires \/ ReapExpiredLease \/ GatewayNext

Spec == Init /\ [][Next]_vars

\* The gateway's own task runs, time passes and expired leases are reaped.  No
\* node has to claim the job and no worker to go on with it.
Fairness ==
  /\ WF_vars(WritePending) /\ WF_vars(WriteTerminal)
  /\ WF_vars(DeadlinePasses) /\ WF_vars(GatewayTimesOut)
  /\ WF_vars(ReadStep)
  /\ WF_vars(LeaseExpires) /\ WF_vars(ReapExpiredLease)

FairSpec == Spec /\ Fairness

-----------------------------------------------------------------------------
TypeOK ==
  /\ status \in {"queued", "leased"} \cup Terminal
  /\ lease \in {"none", "live", "expired"}
  /\ rows \subseteq Event /\ posted \subseteq Event
  /\ worker \in {"idle", "streaming", "complete", "failing"}
  /\ next \in 0 .. MaxEvents + 1
  /\ submitting \in posted \cup {None}
  /\ validated \in BOOLEAN /\ overdue \in BOOLEAN /\ connected \in BOOLEAN
  /\ next_sequence \in 0 .. MaxEvents
  /\ Len(pending) <= PageSize
  /\ terminal \in {None, "done", "error", "timeout", "unconfirmed", "corrupt"}
  /\ ended \in {None, "done", "error", "timeout", "unconfirmed"}

\* However uploads are repeated, delayed and interleaved with the three reads,
\* the client gets the data events in order from the first, none twice and none
\* left out, and the cursor stands behind what was written or is pending.
FramesInOrder ==
  LET shown == frames \o pending IN
  /\ \A k \in 1 .. Len(shown) : shown[k] = k - 1
  /\ next_sequence = Len(shown)

\* A response that ends in a plain [DONE] carried the whole output of a settled
\* job.
DoneMeansComplete ==
  ended = "done" => /\ status = "succeeded"
                    /\ Len(frames) = Cardinality(Data)

\* A job is settled only on a whole log, although it was validated before the
\* settlement transaction, so a reader never meets the settled log without
\* upstream_done that read_job_stream_authenticated calls an internal error.
SettledLogComplete ==
  /\ status = "succeeded" => Complete
  /\ terminal # "corrupt"

\* The log of a job that has ended never changes: a late upload is refused.
NothingAfterEnd == [][(status \in Terminal) => (rows' = rows)]_vars

\* The client that stays connected sees its stream end, whatever the nodes do.
StreamEnds == connected ~> (ended # None \/ ~ connected)

\* The notice that the job was cancelled and its reservation released is true:
\* the client was not charged for a job that had in fact been settled.
TimeoutNoticeTrue == terminal = "timeout" => status # "succeeded"

\* A job of the gateway does not hold its reservation for ever.
GatewayJobEnds == (status \notin Terminal) ~> (status \in Terminal)
=============================================================================
