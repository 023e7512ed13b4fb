---------------------------- MODULE ShareControl ----------------------------
(***************************************************************************)
(* share publish and share unpublish: the state file and the stop file,    *)
(* the worker process known by its PID and start marker, and the instance  *)
(* at the coordinator.  One command runs at a time; it may be killed at    *)
(* any step, the worker may exit at any time, PIDs are reused, and any     *)
(* request or answer may be lost.                                          *)
(*                                                                         *)
(* Source: share.rs (publish, compensate_failed_publish, unpublish,        *)
(* reconcile_local_unpublish_state, wait_for_first_heartbeat and the       *)
(* identity checks, the start of run_worker_loop).                         *)
(***************************************************************************)
EXTENDS Naturals

CONSTANTS
  Pid,         \* the operating system's PIDs
  MaxProc,     \* bound: processes started
  None

VARIABLES
  proc,        \* the process of each PID: its start marker and what it is
  marker,      \* the last start marker given out
  file, stop_file,  \* the state file and the stop file
  server,      \* the instance at the coordinator
  cmd,         \* the step the running command is at
  st,          \* the ShareState the command holds
  child,       \* the process handle of publish
  resume,      \* where stop_verified_worker returns to
  stale,       \* history: at the last check another process had st's PID
  unrecorded   \* history: publish was killed before its child's identity was written

local == <<file, stop_file>>
command == <<cmd, st, child, resume>>
history == <<stale, unrecorded>>
vars == <<proc, marker, local, server, command, history>>

State(pid, m, beat) == [pid |-> pid, marker |-> m, beat |-> beat]
Unstarted == State(0, None, FALSE)

-----------------------------------------------------------------------------
(***************************************************************************)
(* The identity of a worker                                                *)
(***************************************************************************)

RawProcessExists(s) == s.pid # 0 /\ proc[s.pid] # None

\* Mutant of ValidateWorkerIdentity: a recorded marker is enough.
ValidateRecordedOnly(s) == s.marker # None

\* validate_worker_identity: marker, executable and command.
ValidateWorkerIdentity(s) ==
  /\ s.marker # None /\ s.marker = proc[s.pid].marker
  /\ proc[s.pid].kind # "other"

\* worker_process_is_running: "stopped", "running", or refused with an error.
WorkerProcessIsRunning(s) ==
  IF ~RawProcessExists(s) THEN "stopped"
  ELSE IF ValidateWorkerIdentity(s) THEN "running" ELSE "refused"

ClearWorkerIdentity(s) == State(0, None, s.beat)

\* What the last check knew of the PID.
Checked(s) ==
  /\ stale' = (RawProcessExists(s) /\ proc[s.pid].marker # s.marker)
  /\ UNCHANGED unrecorded

-----------------------------------------------------------------------------
(***************************************************************************)
(* publish                                                                 *)
(***************************************************************************)

Goto(step) == cmd' = step /\ UNCHANGED <<st, child, resume>>
Still == UNCHANGED <<proc, marker, local, server, history>>

\* Mutant of Publish: a state file is written over.
PublishAnyway ==
  /\ cmd = "idle"
  /\ stop_file' = FALSE
  /\ cmd' = "publish" /\ st' = Unstarted /\ child' = None
  /\ UNCHANGED <<proc, marker, file, server, resume, history>>

\* A state file refuses the command; else the stop file goes.
Publish ==
  /\ cmd = "idle" /\ file = None
  /\ stop_file' = FALSE
  /\ cmd' = "publish" /\ st' = Unstarted /\ child' = None
  /\ UNCHANGED <<proc, marker, file, server, resume, history>>

\* POST /v1/models/publish; the answer may be lost.
PublishModel ==
  /\ cmd = "publish"
  /\ server' = "published"
  /\ cmd' \in {"write", "idle"}
  /\ UNCHANGED <<proc, marker, local, st, child, resume, history>>

WriteUnstarted ==
  /\ cmd = "write"
  /\ file' = st
  /\ Goto("spawn")
  /\ UNCHANGED <<proc, marker, stop_file, server, history>>

SpawnWorker ==
  /\ cmd = "spawn" /\ marker < MaxProc
  /\ \E p \in Pid :
       /\ proc[p] = None
       /\ proc' = [proc EXCEPT ![p] = [marker |-> marker + 1, kind |-> "starting"]]
       /\ st' = [st EXCEPT !.pid = p]
       /\ child' = [pid |-> p, marker |-> marker + 1]
  /\ marker' = marker + 1
  /\ cmd' = "identify"
  /\ UNCHANGED <<local, server, resume, history>>

ChildAlive == child # None /\ proc[child.pid] # None /\ proc[child.pid].marker = child.marker

\* wait_for_worker_identity, then the state is written over whatever the
\* worker has written since.
WaitForWorkerIdentity ==
  /\ cmd = "identify" /\ ChildAlive
  /\ st' = [st EXCEPT !.marker = child.marker]
  /\ file' = st'
  /\ cmd' = "await"
  /\ UNCHANGED <<proc, marker, stop_file, server, child, resume, history>>

\* wait_for_first_heartbeat sees the heartbeat.
FirstHeartbeat ==
  /\ cmd = "await" /\ file # None
  /\ file.pid = st.pid /\ WorkerProcessIsRunning(file) = "running" /\ file.beat
  /\ Goto("release") /\ Still

\* No heartbeat in time: the worker is stopped by its recorded identity.
HeartbeatTimeout ==
  /\ cmd = "await" /\ file # None
  /\ st' = file
  /\ cmd' = "check" /\ resume' = "compensate"
  /\ UNCHANGED <<proc, marker, local, server, child, history>>

\* release_if_running: the handle is given up and the command succeeds.
ReleaseIfRunning ==
  /\ cmd = "release"
  /\ cmd' = IF ChildAlive THEN "idle" ELSE "compensate"
  /\ UNCHANGED <<st, child, resume>> /\ Still

\* Any step of the activation fails: the file cannot be written, the spawn is
\* refused, the worker ends before its identity or first heartbeat is seen.
ActivationFails ==
  /\ cmd \in {"write", "spawn", "identify", "await"}
  /\ Goto("compensate") /\ Still

-----------------------------------------------------------------------------
(***************************************************************************)
(* compensate_failed_publish                                               *)
(***************************************************************************)

Recovery == IF file # None THEN file ELSE st

\* The child is killed and reaped by its handle; if that fails what is known
\* of its identity is kept.
StopAndReap ==
  /\ cmd = "compensate"
  /\ \/ /\ proc' = IF ChildAlive THEN [proc EXCEPT ![child.pid] = None] ELSE proc
        /\ st' = IF child # None THEN ClearWorkerIdentity(Recovery) ELSE Recovery
        /\ cmd' = "cleanup"
     \/ /\ ChildAlive
        /\ st' = [Recovery EXCEPT !.pid = child.pid, !.marker = child.marker]
        /\ cmd' = "preserve"
        /\ UNCHANGED proc
  /\ file' = st'
  /\ UNCHANGED <<marker, stop_file, server, child, resume, history>>

\* reconcile_local_unpublish_state after the coordinator's answer.
Reconcile(answer, keep) ==
  IF keep THEN UNCHANGED local
  ELSE /\ stop_file' = FALSE
       /\ file' = IF answer = "unpublished" THEN None ELSE ClearWorkerIdentity(st)

\* Mutant of Unpublishes: the answer is taken for granted.
UnpublishesTrusting(answer) ==
  server' \in {"published", "draining", "unpublished"} /\ answer = "unpublished"

\* DELETE /v1/model-instances: unpublished, or draining while jobs run.
Unpublishes(answer) ==
  /\ server' \in (IF server = "unpublished" THEN {"unpublished"} ELSE {"draining", "unpublished"})
  /\ answer = server'

DeleteModelInstance(answer) ==
  /\ cmd \in {"cleanup", "preserve", "delete"}
  /\ Unpublishes(answer)
  /\ Reconcile(answer, cmd = "preserve")
  /\ Goto("idle")
  /\ UNCHANGED <<proc, marker, history>>

\* The request or its answer is lost; compensation removes the stop file.
DeleteUnconfirmed ==
  /\ cmd \in {"cleanup", "preserve", "delete"}
  /\ \/ UNCHANGED server
     \/ \E answer \in {"draining", "unpublished"} : Unpublishes(answer)
  /\ stop_file' = (stop_file /\ cmd = "delete")
  /\ Goto("idle")
  /\ UNCHANGED <<proc, marker, file, history>>

-----------------------------------------------------------------------------
(***************************************************************************)
(* unpublish and stop_verified_worker                                      *)
(***************************************************************************)

Unpublish ==
  /\ cmd = "idle" /\ file # None
  /\ st' = file
  /\ stop_file' = (stop_file \/ WorkerProcessIsRunning(file) = "running")
  /\ cmd' = IF WorkerProcessIsRunning(file) = "refused" THEN "idle" ELSE "drain"
  /\ child' = None
  /\ UNCHANGED <<proc, marker, file, server, resume, history>>

\* wait_for_verified_worker_stop, then, at the timeout, stop_verified_worker.
WaitForDrain ==
  /\ cmd = "drain"
  /\ cmd' = CASE WorkerProcessIsRunning(st) = "stopped" -> "verify"
              [] WorkerProcessIsRunning(st) = "running" -> "check"
              [] OTHER -> "idle"
  /\ resume' = "verify"
  /\ UNCHANGED <<st, child>> /\ Still

\* The check before a signal.
CheckedBeforeSignal(check, signal) ==
  /\ cmd = check
  /\ Checked(st)
  /\ cmd' = CASE WorkerProcessIsRunning(st) = "stopped" -> resume
              [] WorkerProcessIsRunning(st) = "running" -> signal
              [] OTHER -> IF resume = "verify" THEN "idle" ELSE resume
  /\ UNCHANGED <<proc, marker, local, server, st, child, resume>>

\* terminate_process_raw: whoever has the PID gets the signal.  TERM ends a
\* worker or not, KILL does.
Signal(step, next) ==
  /\ cmd = step
  /\ \/ proc' = [proc EXCEPT ![st.pid] = None]
     \/ step = "term" /\ UNCHANGED proc
  /\ Goto(next)
  /\ UNCHANGED <<marker, local, server, history>>

StopVerifiedWorker ==
  \/ CheckedBeforeSignal("check", "term")
  \/ Signal("term", "check_again")
  \/ CheckedBeforeSignal("check_again", "kill")
  \/ Signal("kill", resume)

\* The last check before the remote request.
VerifyStopped ==
  /\ cmd = "verify"
  /\ cmd' = IF WorkerProcessIsRunning(st) = "stopped" THEN "delete" ELSE "idle"
  /\ UNCHANGED <<st, child, resume>> /\ Still

\* The command is killed where it is; its child lives on.
CommandKilled ==
  /\ cmd # "idle"
  /\ cmd' = "idle" /\ child' = None
  /\ unrecorded' = (unrecorded \/ (ChildAlive /\ (file = None \/ file.marker # child.marker)))
  /\ UNCHANGED <<proc, marker, local, server, st, resume, stale>>

-----------------------------------------------------------------------------
(***************************************************************************)
(* The worker and the operating system                                     *)
(***************************************************************************)

\* run_worker_loop reads the state file; without one it returns.
WorkerReads(p) ==
  /\ proc[p] # None /\ proc[p].kind = "starting"
  /\ proc' = [proc EXCEPT ![p] = IF file = None THEN None ELSE [@ EXCEPT !.kind = "read"]]
  /\ UNCHANGED <<marker, local, server, command, history>>

\* and writes its own identity into it.
WorkerWrites(p) ==
  /\ proc[p] # None /\ proc[p].kind = "read"
  /\ proc' = [proc EXCEPT ![p].kind = "worker"]
  /\ file' = State(p, proc[p].marker, FALSE)
  /\ UNCHANGED <<marker, stop_file, server, command, history>>

IsWorker(p) == proc[p] # None /\ proc[p].kind = "worker"

\* A heartbeat is accepted and the worker's state is written again.
WorkerHeartbeat(p) ==
  /\ IsWorker(p) /\ ~stop_file
  /\ file' = State(p, proc[p].marker, TRUE)
  /\ UNCHANGED <<proc, marker, stop_file, server, command, history>>

\* The stop file: the worker asks the coordinator itself and returns.
WorkerDrains(p) ==
  /\ IsWorker(p) /\ stop_file
  /\ \E answer \in {"draining", "unpublished"} : Unpublishes(answer)
  /\ proc' = [proc EXCEPT ![p] = None]
  /\ UNCHANGED <<marker, local, command, history>>

\* A process ends by itself.
ProcessExits(p) ==
  /\ proc[p] # None
  /\ proc' = [proc EXCEPT ![p] = None]
  /\ UNCHANGED <<marker, local, server, command, history>>

\* A free PID is given to another program.
OtherStarts(p) ==
  /\ proc[p] = None /\ marker < MaxProc
  /\ proc' = [proc EXCEPT ![p] = [marker |-> marker + 1, kind |-> "other"]]
  /\ marker' = marker + 1
  /\ UNCHANGED <<local, server, command, history>>

\* The last job of a draining instance ends.
DrainingEnds ==
  /\ server = "draining"
  /\ server' = "unpublished"
  /\ UNCHANGED <<proc, marker, local, command, history>>

Init ==
  /\ proc = [p \in Pid |-> None] /\ marker = 0
  /\ file = None /\ stop_file = FALSE /\ server = "unpublished"
  /\ cmd = "idle" /\ st = Unstarted /\ child = None /\ resume = "verify"
  /\ stale = FALSE /\ unrecorded = FALSE

Command ==
  \/ Publish \/ PublishModel \/ WriteUnstarted \/ SpawnWorker \/ WaitForWorkerIdentity
  \/ FirstHeartbeat \/ HeartbeatTimeout \/ ReleaseIfRunning \/ ActivationFails
  \/ StopAndReap \/ DeleteUnconfirmed
  \/ \E answer \in {"draining", "unpublished"} : DeleteModelInstance(answer)
  \/ Unpublish \/ WaitForDrain \/ StopVerifiedWorker \/ VerifyStopped
  \/ CommandKilled

Worker(p) == WorkerReads(p) \/ WorkerWrites(p) \/ WorkerHeartbeat(p) \/ WorkerDrains(p)

Next ==
  \/ Command
  \/ \E p \in Pid : Worker(p) \/ ProcessExits(p) \/ OtherStarts(p)
  \/ DrainingEnds

Spec == Init /\ [][Next]_vars

-----------------------------------------------------------------------------
TypeOK ==
  /\ proc \in [Pid -> [marker : 1 .. MaxProc, kind : {"starting", "read", "worker", "other"}]
                       \cup {None}]
  /\ stop_file \in BOOLEAN /\ server \in {"published", "draining", "unpublished"}
  /\ file # None => file.pid \in Pid \cup {0}
  /\ st.pid \in Pid \cup {0}

\* A signal reaches another program only if that program took the PID between
\* the check of the identity and the signal that follows it at once, however
\* long ago the worker of the state file has exited.
SignalsOnlyChecked == cmd \in {"term", "kill"} => ~stale

\* The state file, the only handle on a publication, goes away only when the
\* coordinator no longer offers the instance.
FileOutlivesPublication ==
  [][file # None /\ file' = None => server' = "unpublished"]_vars

\* Two workers never run beside each other, although publish, unpublish and the
\* worker all rewrite the state file from copies they read earlier, as long as
\* no publish was killed between spawning its child and recording it.
OneWorker ==
  ~unrecorded => \A p, q \in Pid : IsWorker(p) /\ IsWorker(q) => p = q
=============================================================================
