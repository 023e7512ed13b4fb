---------------------------- MODULE ThermalPause ----------------------------
(***************************************************************************)
(* The protection of a contributor's GPU.  The worker's loop and each of   *)
(* its tasks read the sensors and post heartbeats; the coordinator decides *)
(* from each heartbeat whether the node is online, paused or draining, and *)
(* the worker keeps a pause flag of its own, of which every task carries   *)
(* the copy it was started with.                                           *)
(*                                                                         *)
(* Temperatures are in tenths of a degree; a heartbeat carries the rounded *)
(* degree.                                                                 *)
(*                                                                         *)
(* Source: nodes_models.rs (node_heartbeat), share.rs                      *)
(* (update_temperature_pause, heartbeat_request, the heartbeats of the loop *)
(* and of ActiveJobLiveness, apply_job_task_outcome), node.rs              *)
(* (evaluate_policy).                                                      *)
(***************************************************************************)
EXTENDS Naturals, FiniteSets

CONSTANTS
  Limit,       \* gpu_temp_limit_c, in degrees
  Temp,        \* the temperatures the sensor shows, in tenths
  Slot,        \* the contribution slots
  MaxConcurrent,  \* max_concurrent of the policy
  Unread       \* no reading

VARIABLES
  temp, vram_low,     \* the hardware
  status, pause_reason, gpu_temp_c,   \* the node at the coordinator and its last reading
  paused,      \* state.paused_for_temperature of the loop
  copy,        \* that of each task, or Unread without a task
  step,        \* "loop", or "claim" after an accepted heartbeat
  draining,    \* the stop file
  owed         \* history: a temperature pause that no reading below the resume point has ended

hardware == <<temp, vram_low>>
node == <<status, pause_reason, gpu_temp_c, owed>>
vars == <<hardware, node, paused, copy, step, draining>>

Active == Cardinality({s \in Slot : copy[s] # Unread})
Rounded(t) == IF t = Unread THEN Unread ELSE (t + 5) \div 10
ResumeAt == Limit - 5

-----------------------------------------------------------------------------
\* update_temperature_pause: the worker's own flag, from the exact reading.
UpdateTemperaturePause(was) ==
  temp = Unread \/ temp > 10 * (IF was THEN ResumeAt ELSE Limit)

\* evaluate_policy of the CLI, for the loop: concurrency, temperature, memory.
EvaluatePolicy ==
  /\ Active < MaxConcurrent
  /\ temp # Unread /\ temp <= 10 * Limit
  /\ ~vram_low

WasTemperaturePaused == status = "paused" /\ pause_reason = "gpu_temperature_limit"

\* Mutant of TemperatureRequiresPause: a reading of exactly the limit passes.
PausesAboveLimit(t) ==
  t = Unread \/ (IF WasTemperaturePaused THEN t > ResumeAt ELSE t > Limit)

TemperatureRequiresPause(t) ==
  t = Unread \/ (IF WasTemperaturePaused THEN t > ResumeAt ELSE t >= Limit)

\* The last condition that holds gives the reason.
PauseReason(t) ==
  IF Active >= MaxConcurrent THEN "max_concurrent"
  ELSE IF vram_low THEN "vram_reserve"
  ELSE IF TemperatureRequiresPause(t) THEN "gpu_temperature_limit"
  ELSE "none"

\* node_heartbeat, for the hardware as it is now.
NodeHeartbeat(drains) ==
  LET t == Rounded(temp) IN
  /\ pause_reason' = PauseReason(t)
  /\ status' = CASE drains -> "draining"
                 [] ~drains /\ pause_reason' # "none" -> "paused"
                 [] OTHER -> "online"
  /\ gpu_temp_c' = t
  /\ owed' = CASE status' = "paused" /\ pause_reason' = "gpu_temperature_limit" -> TRUE
               [] t # Unread /\ t <= ResumeAt -> FALSE
               [] OTHER -> owed

-----------------------------------------------------------------------------
(***************************************************************************)
(* The worker                                                              *)
(***************************************************************************)

\* The loop reads the sensors, posts its heartbeat and goes on to claim when
\* both the coordinator and the local policy accept.
LoopHeartbeat ==
  /\ step = "loop" /\ ~draining
  /\ paused' = UpdateTemperaturePause(paused)
  /\ NodeHeartbeat(FALSE)
  /\ step' = IF status' = "online" /\ EvaluatePolicy /\ ~paused' THEN "claim" ELSE "loop"
  /\ UNCHANGED <<hardware, copy, draining>>

\* The heartbeat is lost on its way: the loop keeps its flag and backs off.
LoopHeartbeatLost ==
  /\ step = "loop" /\ ~draining
  /\ paused' = UpdateTemperaturePause(paused)
  /\ UNCHANGED <<hardware, node, copy, step, draining>>

\* POST /v1/jobs/claim gives a job only to a node that is online.
Claim(s) ==
  /\ step = "claim"
  /\ status = "online"
  /\ copy[s] = Unread
  /\ copy' = [copy EXCEPT ![s] = paused]
  /\ step' = "loop"
  /\ UNCHANGED <<hardware, node, paused, draining>>

ClaimNothing ==
  /\ step = "claim"
  /\ step' = "loop"
  /\ UNCHANGED <<hardware, node, paused, copy, draining>>

\* ActiveJobLiveness.heartbeat_now: a task's heartbeat, from its own copy.
TaskHeartbeat(s) ==
  /\ copy[s] # Unread
  /\ copy' = [copy EXCEPT ![s] = UpdateTemperaturePause(@)]
  /\ NodeHeartbeat(draining)
  /\ UNCHANGED <<hardware, paused, step, draining>>

\* apply_job_task_outcome: the task's copy replaces the loop's state.
TaskEnds(s) ==
  /\ step = "loop" /\ copy[s] # Unread
  /\ paused' = copy[s]
  /\ copy' = [copy EXCEPT ![s] = Unread]
  /\ UNCHANGED <<hardware, node, step, draining>>

\* The environment: the hardware changes, the operator asks for a stop.
Environment ==
  /\ temp' \in Temp \cup {Unread} /\ vram_low' \in BOOLEAN
  /\ UNCHANGED <<node, paused, copy, step, draining>>

RequestStop ==
  /\ ~draining /\ draining' = TRUE
  /\ UNCHANGED <<hardware, node, paused, copy, step>>

Init ==
  /\ temp \in Temp /\ vram_low = FALSE
  /\ status = "offline" /\ pause_reason = "awaiting_first_heartbeat"
  /\ gpu_temp_c = Unread /\ owed = FALSE
  /\ paused = FALSE /\ copy = [s \in Slot |-> Unread]
  /\ step = "loop" /\ draining = FALSE

Next ==
  \/ LoopHeartbeat \/ LoopHeartbeatLost \/ ClaimNothing
  \/ \E s \in Slot : Claim(s) \/ TaskHeartbeat(s) \/ TaskEnds(s)
  \/ Environment \/ RequestStop

Spec == Init /\ [][Next]_vars

-----------------------------------------------------------------------------
TypeOK ==
  /\ temp \in Temp \cup {Unread} /\ vram_low \in BOOLEAN
  /\ status \in {"offline", "online", "paused", "draining"}
  /\ paused \in BOOLEAN /\ copy \in [Slot -> BOOLEAN \cup {Unread}]
  /\ step \in {"loop", "claim"} /\ draining \in BOOLEAN /\ owed \in BOOLEAN

\* Whatever a task's stale copy does to the loop's own flag, a job is claimed
\* only when the reading last reported, by the loop or by any task, was taken
\* and is below the limit.
ClaimsBelowLimit ==
  [][Active' > Active => gpu_temp_c # Unread /\ gpu_temp_c < Limit]_vars

\* What docs/API.md says of the temperature pause: it ends only with a reading
\* five degrees below the limit.
ResumesOnlyCool == status = "online" => ~owed
=============================================================================
