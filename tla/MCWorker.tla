------------------------------ MODULE MCWorker ------------------------------
(***************************************************************************)
(* The parts of the contributor's worker, checked side by side: focus      *)
(* picks the part that runs, the others stay in their initial states.      *)
(***************************************************************************)
EXTENDS Naturals, Sequences, FiniteSets

CONSTANTS
  Job, Slot, MaxLeases, MaxTries, None,
  Choice, Capacity, MaxRead, MaxTokens, AuthorizedInput, PerChoice,
  Limit, Temp, MaxConcurrent, Unread,
  Pid, MaxProc,
  Generations, MaxLines, MaxLine

VARIABLES
  focus,
  lease, attempt, applied, wire, pc, limit, avail, active, credited, task, kv, policy, stop,
  stream_kind, forwarding, acc, read, saw_done, inference, obeyed, channel, uploading,
  uploaded, broken, outcome, answer,
  temp, vram_low, status, pause_reason, gpu_temp_c, paused, copy, step, draining, owed,
  proc, marker, file, stop_file, server, cmd, st, child, resume, stale, unrecorded,
  log_kind, line, log, gen, rotation, k, size, snapshot, clear, cleared

Share == INSTANCE ShareWorker
Stream == INSTANCE WorkerStream
Thermal == INSTANCE ThermalPause
Control == INSTANCE ShareControl
Logs == INSTANCE LogRotation

\* The slots are numbered from one; what stands for nothing is none of the others.
ASSUME SlotAssumption == Cardinality(Slot) \in Nat \ {0} /\ Slot = 1 .. Cardinality(Slot)
ASSUME ThermalAssumption == Temp \subseteq Nat /\ Limit \in Nat /\ Unread \notin Nat
ASSUME ShareAssumption ==
  /\ MaxLeases \in Nat /\ MaxTries \in Nat
  /\ None \notin Share!Task /\ None \notin [job : Job, attempt : 1 .. MaxLeases]
ASSUME ControlAssumption ==
  /\ Pid \subseteq Nat \ {0} /\ MaxProc \in Nat /\ None \notin 0 .. MaxProc
  /\ None \notin [marker : 1 .. MaxProc, kind : {"starting", "read", "worker", "other"}]
  /\ None \notin [pid : Pid, marker : 1 .. MaxProc]
  /\ None \notin [pid : Pid \cup {0}, marker : (1 .. MaxProc) \cup {None}, beat : BOOLEAN]
ASSUME StreamAssumption ==
  /\ IsFiniteSet(Choice) /\ Choice # {}
  /\ Capacity \in Nat /\ MaxRead \in Nat /\ MaxTokens \in Nat \ {0}
  /\ AuthorizedInput \in Nat /\ PerChoice \in Nat
ASSUME LogAssumption ==
  Generations \in Nat \ {0} /\ MaxLines \in Nat \ {0} /\ MaxLine \in Nat

share ==
  <<lease, attempt, applied, wire, pc, limit, avail, active, credited, task, kv, policy, stop>>
stream ==
  <<stream_kind, forwarding, acc, read, saw_done, inference, obeyed, channel, uploading,
    uploaded, broken, outcome, answer>>
thermal ==
  <<temp, vram_low, status, pause_reason, gpu_temp_c, paused, copy, step, draining, owed>>
control ==
  <<proc, marker, file, stop_file, server, cmd, st, child, resume, stale, unrecorded>>
logs == <<log_kind, line, log, gen, rotation, k, size, snapshot, clear, cleared>>
vars == <<focus, share, stream, thermal, control, logs>>

Init ==
  /\ focus \in {"share", "stream", "thermal", "control", "logs"}
  /\ Share!Init /\ Stream!Init /\ Thermal!Init /\ Control!Init /\ Logs!Init
  /\ focus # "stream" => stream_kind = "chat" /\ forwarding
  /\ focus # "thermal" => temp = CHOOSE t \in Temp : TRUE
  /\ focus # "logs" => log_kind = "engine"

Next ==
  /\ UNCHANGED focus
  /\ \/ focus = "share" /\ Share!Next /\ UNCHANGED <<stream, thermal, control, logs>>
     \/ focus = "stream" /\ Stream!Next /\ UNCHANGED <<share, thermal, control, logs>>
     \/ focus = "thermal" /\ Thermal!Next /\ UNCHANGED <<share, stream, control, logs>>
     \/ focus = "control" /\ Control!Next /\ UNCHANGED <<share, stream, thermal, logs>>
     \/ focus = "logs" /\ Logs!Next /\ UNCHANGED <<share, stream, thermal, control>>

Spec == Init /\ [][Next]_vars /\ Share!Fairness

-----------------------------------------------------------------------------
\* Each slot of the worker is free once or owned by one task.  A result leaves
\* only from an erased slot, no failure is reported while the attempt's result
\* may have been settled, and only what was settled counts as a success.
LeasesReported ==
  focus = "share" =>
    /\ Share!TypeOK /\ Share!SlotsExact /\ Share!ResultOnlyFromErasedSlot
    /\ Share!NoFailureAfterResult /\ Share!CreditedIsSettled

\* A task with something to report gives its slot back.
SubmissionEnds == Share!SubmissionEnds

\* Stream events reach the coordinator in order, the marker last; a result is
\* returned only for a whole answer whose events all arrived; it is one the
\* coordinator accepts, unless the engine reported more tokens than it was asked
\* for or none; and statistics never outnumber the finished choices.
StreamForwarded ==
  focus = "stream" =>
    /\ Stream!TypeOK /\ Stream!UploadsInOrder /\ Stream!ResultIsWhole
    /\ Stream!StatsFollowChoices /\ Stream!ResultAccepted

\* Jobs are claimed only below the temperature limit last reported.
ClaimsBelowLimit == Thermal!ClaimsBelowLimit

\* No signal after a check that saw another process under the PID, never two
\* workers beside each other, and the state file goes away only with the
\* publication.
WorkerControlled ==
  /\ [](focus = "control" => Control!TypeOK /\ Control!SignalsOnlyChecked /\ Control!OneWorker)
  /\ Control!FileOutlivesPublication

\* The rotation never stops the worker, keeps the generations bounded and in
\* order and loses the oldest lines only; clearing leaves nothing of the time
\* before.
LogsKept ==
  /\ [](focus = "logs" => Logs!TypeOK /\ Logs!RotationNeverFails /\ Logs!NewestFirst)
  /\ Logs!LosesOnlyOldest /\ Logs!HistoryCleared
=============================================================================
