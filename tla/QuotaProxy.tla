----------------------------- MODULE QuotaProxy -----------------------------
(***************************************************************************)
(* mindone quota use: the proxy on the consumer's machine that turns       *)
(* OpenAI requests into Standard jobs of the network.  Its requests run    *)
(* concurrently and share one session, kept in memory behind a             *)
(* readers-writer lock: a call that the coordinator refuses takes the      *)
(* write lock, refreshes the session unless somebody else has, and is      *)
(* tried once more.  A streaming request then relays the job's event log   *)
(* page by page, and rides over failed reads for 30 seconds.               *)
(*                                                                         *)
(* Tokens are generations, as in AuthSessions; the jobs and their log are  *)
(* those of JobStream, a read of the log is one step here.                 *)
(*                                                                         *)
(* Source: crates/mindone-cli/src/quota.rs, coordinator.rs, auth.rs.       *)
(***************************************************************************)
EXTENDS Naturals, Sequences, FiniteSets

CONSTANTS
  Request,     \* requests of local clients
  Streaming,   \* those that ask for a stream
  PageSize,    \* limit=8
  MaxEvents,   \* bound on the data events of a job
  MaxTokens    \* bound on the generations of tokens

VARIABLES
  session,     \* state.session: the generation in memory
  write_lock,  \* the requests that hold it for writing: one or none
  server,      \* the session's row: its generation, whether access has lapsed
  broken,      \* history: a refresh was not completed, or another command of
               \* this user rotated the session
  net_job,     \* net_job[q]: the job created for q
  call,        \* call[q]: the authorized call in progress
  sse,         \* sse[q]: ProxyStreamState and the frames written
  reply        \* reply[q]: how q was answered, "open" before

vars == <<session, write_lock, server, broken, net_job, call, sse, reply>>

NoCall == [at |-> "none"]
Calling(what) == [at |-> "reading", what |-> what, token |-> 0, retried |-> FALSE]
FirstPage == [next |-> 0, pending |-> <<>>, terminal |-> "none", frames |-> <<>>, failing |-> FALSE]
Ended == {"succeeded", "failed", "cancelled"}

Answer(q, how) ==
  /\ reply' = [reply EXCEPT ![q] = how]
  /\ call' = [call EXCEPT ![q] = NoCall]

-----------------------------------------------------------------------------
(***************************************************************************)
(* authorized_get and authorized_post                                      *)
(***************************************************************************)
\* session.read() waits for a writer.
ReadToken(q) ==
  /\ call[q].at = "reading" /\ write_lock = {}
  /\ call' = [call EXCEPT ![q].at = "sent", ![q].token = session]
  /\ UNCHANGED <<session, write_lock, server, broken, net_job, sse, reply>>

Accepted(token) == token = server.gen /\ ~ server.lapsed

\* CliError::Authentication, the first and the second time.
Refused(q) ==
  /\ call[q].at = "sent" /\ ~ Accepted(call[q].token)
  /\ IF ~ call[q].retried
       THEN call' = [call EXCEPT ![q].at = "refused"] /\ UNCHANGED <<sse, reply>>
     ELSE IF call[q].what = "read"
       THEN /\ call' = [call EXCEPT ![q] = NoCall]
            /\ sse' = [sse EXCEPT ![q].failing = TRUE] /\ UNCHANGED reply
     ELSE Answer(q, "authentication") /\ UNCHANGED sse
  /\ UNCHANGED <<session, write_lock, server, broken, net_job>>

\* Mutant of RefreshProxySession: the rejected token is not compared.
RefreshAlways(q) ==
  /\ call[q].at = "refused" /\ write_lock = {}
  /\ write_lock' = {q} /\ call' = [call EXCEPT ![q].at = "refreshing"]
  /\ UNCHANGED <<session, server, broken, net_job, sse, reply>>

\* refresh_proxy_session: under the write lock, only the token that was
\* rejected is replaced.
RefreshProxySession(q) ==
  /\ call[q].at = "refused" /\ write_lock = {}
  /\ IF session # call[q].token
       THEN call' = [call EXCEPT ![q].at = "reading", ![q].retried = TRUE] /\ UNCHANGED write_lock
       ELSE write_lock' = {q} /\ call' = [call EXCEPT ![q].at = "refreshing"]
  /\ UNCHANGED <<session, server, broken, net_job, sse, reply>>

\* A call that ends in an error ends a request, or is one failed read of a
\* stream.
CallFails(q) ==
  IF call[q].what = "read"
    THEN /\ call' = [call EXCEPT ![q] = NoCall]
         /\ sse' = [sse EXCEPT ![q].failing = TRUE]
         /\ UNCHANGED reply
    ELSE Answer(q, "error") /\ UNCHANGED sse

\* refresh_credential_bundle with the refresh token in memory.  The answer may
\* be lost after the rotation, or the new session may not be stored.
Rotate(q, stored) ==
  /\ call[q].at = "refreshing" /\ server.gen < MaxTokens
  /\ write_lock' = {}
  /\ IF session = server.gen
       THEN /\ server' = [gen |-> server.gen + 1, lapsed |-> FALSE]
            /\ IF stored
                 THEN /\ session' = server.gen + 1
                      /\ call' = [call EXCEPT ![q].at = "reading", ![q].retried = TRUE]
                      /\ UNCHANGED <<broken, sse, reply>>
                 ELSE broken' = TRUE /\ CallFails(q) /\ UNCHANGED session
       ELSE broken' = TRUE /\ CallFails(q) /\ UNCHANGED <<session, server>>
  /\ UNCHANGED net_job

\* The access token runs out.  It lives much longer than a call with its refresh
\* takes: 30 seconds each.
TokenLapses ==
  /\ ~ server.lapsed
  /\ \A q \in Request : /\ call[q].at \notin {"refused", "refreshing"}
                        /\ call[q].at # "none" => ~ call[q].retried
                        /\ call[q].at = "sent" => call[q].token = server.gen
  /\ server' = [server EXCEPT !.lapsed = TRUE]
  /\ UNCHANGED <<session, write_lock, broken, net_job, call, sse, reply>>

\* Another command of this user refreshes: the vault has the new session, the
\* proxy's memory does not.
OtherCommandRefreshes ==
  /\ server.gen < MaxTokens
  /\ server' = [gen |-> server.gen + 1, lapsed |-> FALSE] /\ broken' = TRUE
  /\ UNCHANGED <<session, write_lock, net_job, call, sse, reply>>

-----------------------------------------------------------------------------
(***************************************************************************)
(* proxy_inference                                                         *)
(***************************************************************************)
\* The default limit is applied and the request validated; a bad one is
\* refused, a good one posted.
ProxyInference(q, valid) ==
  /\ reply[q] = "open" /\ call[q] = NoCall /\ net_job[q].status = "none"
  /\ IF valid THEN call' = [call EXCEPT ![q] = Calling("create")] /\ UNCHANGED reply
              ELSE Answer(q, "invalid")
  /\ UNCHANGED <<session, write_lock, server, broken, net_job, sse>>

\* create_standard_job.  Its key is new, so a lost answer leaves a job behind.
CreateStandardJob(q, heard) ==
  /\ call[q].at = "sent" /\ call[q].what = "create" /\ Accepted(call[q].token)
  /\ net_job' = [net_job EXCEPT ![q] = [status |-> "queued", log |-> 0]]
  /\ IF ~ heard THEN CallFails(q)
     ELSE IF q \in Streaming THEN call' = [call EXCEPT ![q] = NoCall] /\ UNCHANGED <<sse, reply>>
     ELSE call' = [call EXCEPT ![q] = Calling("wait")] /\ UNCHANGED <<sse, reply>>
  /\ UNCHANGED <<session, write_lock, server, broken>>

\* A call that does not reach the coordinator, or whose answer is an error.
CallLost(q) ==
  /\ call[q].at = "sent"
  /\ CallFails(q)
  /\ UNCHANGED <<session, write_lock, server, broken, net_job>>

\* wait_for_standard_job reads the job and sleeps while it is unfinished.
WaitForStandardJob(q) ==
  /\ call[q].at = "sent" /\ call[q].what = "wait" /\ Accepted(call[q].token)
  /\ CASE net_job[q].status = "succeeded" -> Answer(q, "result")
       [] net_job[q].status \in {"failed", "cancelled"} -> Answer(q, "failed")
       [] OTHER -> call' = [call EXCEPT ![q] = Calling("wait")] /\ UNCHANGED reply
  /\ UNCHANGED <<session, write_lock, server, broken, net_job, sse>>

WaitTimesOut(q) ==
  /\ call[q].at = "reading" /\ call[q].what = "wait"
  /\ Answer(q, "timeout")
  /\ UNCHANGED <<session, write_lock, server, broken, net_job, sse>>

-----------------------------------------------------------------------------
(***************************************************************************)
(* next_proxy_sse_chunk                                                    *)
(***************************************************************************)
Relaying(q) ==
  /\ q \in Streaming /\ reply[q] = "open" /\ call[q] = NoCall
  /\ net_job[q].status # "none"

Idle(q) == Relaying(q) /\ sse[q].pending = <<>> /\ sse[q].terminal = "none"

WriteFrame(q) ==
  /\ Relaying(q) /\ sse[q].pending # <<>>
  /\ sse' = [sse EXCEPT ![q].frames = Append(@, Head(sse[q].pending)), ![q].pending = Tail(@)]
  /\ UNCHANGED <<session, write_lock, server, broken, net_job, call, reply>>

WriteEnd(q) ==
  /\ Relaying(q) /\ sse[q].pending = <<>> /\ sse[q].terminal # "none"
  /\ Answer(q, sse[q].terminal)
  /\ UNCHANGED <<session, write_lock, server, broken, net_job, sse>>

StreamDeadline(q) ==
  /\ Idle(q)
  /\ sse' = [sse EXCEPT ![q].terminal = "timeout"]
  /\ UNCHANGED <<session, write_lock, server, broken, net_job, call, reply>>

\* Reads have failed for STREAM_RECOVERY_TIMEOUT.
RecoveryOver(q) ==
  /\ Idle(q) /\ sse[q].failing
  /\ sse' = [sse EXCEPT ![q].terminal = "unreadable"]
  /\ UNCHANGED <<session, write_lock, server, broken, net_job, call, reply>>

ReadStream(q) ==
  /\ Idle(q)
  /\ call' = [call EXCEPT ![q] = Calling("read")]
  /\ UNCHANGED <<session, write_lock, server, broken, net_job, sse, reply>>

\* Mutant of Verdict: has_more is not looked at.
VerdictOnStatus(status, more) ==
  CASE status = "succeeded" -> "done"
    [] status \in {"failed", "cancelled"} -> "failed"
    [] OTHER -> "none"

Verdict(status, more) ==
  CASE status = "succeeded" /\ ~ more -> "done"
    [] status \in {"failed", "cancelled"} -> "failed"
    [] OTHER -> "none"

\* The response takes the cursor on, in one piece.
StreamAnswered(q) ==
  LET from == sse[q].next
      upto == IF net_job[q].log - from > PageSize THEN from + PageSize ELSE net_job[q].log
      page == [k \in 1 .. upto - from |-> from + k - 1]
  IN /\ call[q].at = "sent" /\ call[q].what = "read" /\ Accepted(call[q].token)
     /\ sse' = [sse EXCEPT
          ![q] = [@ EXCEPT !.next = upto, !.pending = page, !.failing = FALSE,
                           !.terminal = Verdict(net_job[q].status, upto < net_job[q].log)]]
     /\ call' = [call EXCEPT ![q] = NoCall]
     /\ UNCHANGED <<session, write_lock, server, broken, net_job, reply>>

-----------------------------------------------------------------------------
\* What becomes of the job: a node appends to the log, and ends it.
JobGoesOn(q) ==
  /\ net_job[q].status \in {"queued", "leased"}
  /\ \/ /\ q \in Streaming /\ net_job[q].log < MaxEvents
        /\ net_job' = [net_job EXCEPT ![q] = [status |-> "leased", log |-> @.log + 1]]
     \/ /\ q \in Streaming => net_job[q].log > 0
        /\ net_job' = [net_job EXCEPT ![q].status = "succeeded"]
     \/ \E s \in {"failed", "cancelled"} : net_job' = [net_job EXCEPT ![q].status = s]
  /\ UNCHANGED <<session, write_lock, server, broken, call, sse, reply>>

Init ==
  /\ session = 0 /\ write_lock = {} /\ server = [gen |-> 0, lapsed |-> FALSE] /\ broken = FALSE
  /\ net_job = [q \in Request |-> [status |-> "none", log |-> 0]]
  /\ call = [q \in Request |-> NoCall]
  /\ sse = [q \in Request |-> FirstPage]
  /\ reply = [q \in Request |-> "open"]

Next ==
  \/ TokenLapses \/ OtherCommandRefreshes
  \/ \E q \in Request :
       \/ ReadToken(q) \/ Refused(q) \/ RefreshProxySession(q)
       \/ \E stored \in BOOLEAN : Rotate(q, stored)
       \/ \E valid \in BOOLEAN : ProxyInference(q, valid)
       \/ \E heard \in BOOLEAN : CreateStandardJob(q, heard)
       \/ CallLost(q) \/ WaitForStandardJob(q) \/ WaitTimesOut(q)
       \/ WriteFrame(q) \/ WriteEnd(q) \/ StreamDeadline(q) \/ RecoveryOver(q)
       \/ ReadStream(q) \/ StreamAnswered(q)
       \/ JobGoesOn(q)

Spec == Init /\ [][Next]_vars

-----------------------------------------------------------------------------
\* However the calls of concurrent requests are refused, refreshed and tried
\* again, no request loses its session through the refresh of another: an
\* authentication error means that a refresh was not completed.
SessionShared ==
  /\ ~ broken => /\ session = server.gen
                 /\ \A q \in Request : reply[q] # "authentication"
  /\ Cardinality(write_lock) <= 1

\* Whatever reads of the log fail and are repeated, the client gets its events
\* in order from the first, none twice and none left out, and a plain [DONE]
\* only after all of a job that succeeded.
RelayedInOrder ==
  \A q \in Streaming :
    LET shown == sse[q].frames \o sse[q].pending IN
    /\ \A k \in 1 .. Len(shown) : shown[k] = k - 1
    /\ reply[q] = "done" => /\ net_job[q].status = "succeeded"
                            /\ Len(shown) = net_job[q].log

\* A result is that of a settled job.
ResultsSettled == \A q \in Request : reply[q] = "result" => net_job[q].status = "succeeded"
=============================================================================
