---------------------------- MODULE Worker_proofs ----------------------------
(***************************************************************************)
(* Theorems about the contributor's worker, for every number of jobs and   *)
(* slots, of processes and commands, of generations and lines of a log,    *)
(* and every bound on leases and tries.                                    *)
(*                                                                         *)
(* Each part has an inductive invariant of its own; a part that does not   *)
(* run stays as it is, so the invariants hold whichever part is in focus.  *)
(***************************************************************************)
EXTENDS MCWorker, FiniteSetTheorems, FunctionTheorems, SequenceTheorems, TLAPS

\* A step of the whole is a step of each part or leaves it alone.
LEMMA PartSteps ==
  ASSUME [Next]_vars
  PROVE  /\ [Share!Next]_share /\ [Stream!Next]_stream /\ [Thermal!Next]_thermal
         /\ [Control!Next]_control /\ [Logs!Next]_logs
  BY DEF Next, vars

LEMMA SlotsFinite == IsFiniteSet(Slot)
  BY SlotAssumption, FS_Interval

-----------------------------------------------------------------------------
(***************************************************************************)
(* The thermal pause.  The coordinator calls the node online only on a     *)
(* heartbeat with a reading below the limit, whatever the flags of the     *)
(* loop and of its tasks say, and only a node that is online gets a job.   *)
(***************************************************************************)
ThermalInv ==
  /\ temp \in Temp \cup {Unread}
  /\ copy \in [Slot -> BOOLEAN \cup {Unread}] /\ paused \in BOOLEAN
  /\ status = "online" => gpu_temp_c # Unread /\ gpu_temp_c < Limit

LEMMA ThermalCardinality == ASSUME NEW S PROVE Thermal!Cardinality(S) = Cardinality(S)
  BY DEF Thermal!Cardinality, Cardinality

\* A heartbeat leaves the node online only below the limit.
LEMMA HeartbeatBelowLimit ==
  ASSUME ThermalInv, NEW drains, Thermal!NodeHeartbeat(drains)
  PROVE  status' = "online" => gpu_temp_c' # Unread /\ gpu_temp_c' < Limit
<1> SUFFICES ASSUME status' = "online" PROVE gpu_temp_c' # Unread /\ gpu_temp_c' < Limit
  OBVIOUS
<1> USE ThermalAssumption
<1> DEFINE t == Thermal!Rounded(temp)
<1>1. pause_reason' = "none" /\ gpu_temp_c' = t /\ pause_reason' = Thermal!PauseReason(t)
  BY DEF Thermal!NodeHeartbeat
<1>2. ~ Thermal!TemperatureRequiresPause(t)
  BY <1>1 DEF Thermal!PauseReason
<1>3. t # Unread
  BY <1>2 DEF Thermal!TemperatureRequiresPause
<1>4. temp \in Nat /\ t = (temp + 5) \div 10
  BY <1>3 DEF Thermal!Rounded, ThermalInv
<1>5. t \in Nat
  BY <1>4
<1> HIDE DEF t
<1> QED
  BY <1>1, <1>2, <1>3, <1>5 DEF Thermal!TemperatureRequiresPause, Thermal!ResumeAt

LEMMA ThermalNext == ThermalInv /\ [Thermal!Next]_thermal => ThermalInv'
<1> SUFFICES ASSUME ThermalInv, [Thermal!Next]_thermal PROVE ThermalInv'
  OBVIOUS
<1>1. CASE Thermal!LoopHeartbeat
  BY <1>1, HeartbeatBelowLimit
     DEF ThermalInv, Thermal!LoopHeartbeat, Thermal!hardware, Thermal!UpdateTemperaturePause
<1>2. CASE Thermal!LoopHeartbeatLost
  BY <1>2 DEF ThermalInv, Thermal!LoopHeartbeatLost, Thermal!hardware, Thermal!node,
              Thermal!UpdateTemperaturePause
<1>3. CASE Thermal!ClaimNothing
  BY <1>3 DEF ThermalInv, Thermal!ClaimNothing, Thermal!hardware, Thermal!node
<1>4. ASSUME NEW s \in Slot, Thermal!Claim(s) PROVE ThermalInv'
  BY <1>4 DEF ThermalInv, Thermal!Claim, Thermal!hardware, Thermal!node
<1>5. ASSUME NEW s \in Slot, Thermal!TaskHeartbeat(s) PROVE ThermalInv'
  <2>1. status' = "online" => gpu_temp_c' # Unread /\ gpu_temp_c' < Limit
    <3>1. CASE draining
      BY <1>5, <3>1 DEF Thermal!TaskHeartbeat, Thermal!NodeHeartbeat
    <3>2. CASE ~draining
      BY <1>5, <3>2, HeartbeatBelowLimit DEF Thermal!TaskHeartbeat
    <3> QED
      BY <3>1, <3>2
  <2> QED
    BY <1>5, <2>1 DEF ThermalInv, Thermal!TaskHeartbeat, Thermal!hardware,
                      Thermal!UpdateTemperaturePause
<1>6. ASSUME NEW s \in Slot, Thermal!TaskEnds(s) PROVE ThermalInv'
  BY <1>6 DEF ThermalInv, Thermal!TaskEnds, Thermal!hardware, Thermal!node
<1>7. CASE Thermal!Environment
  BY <1>7 DEF ThermalInv, Thermal!Environment, Thermal!node
<1>8. CASE Thermal!RequestStop
  BY <1>8 DEF ThermalInv, Thermal!RequestStop, Thermal!hardware, Thermal!node
<1>9. CASE UNCHANGED thermal
  BY <1>9 DEF ThermalInv, thermal
<1> QED
  BY <1>1, <1>2, <1>3, <1>4, <1>5, <1>6, <1>7, <1>8, <1>9 DEF Thermal!Next

\* Only a claim adds a task.
LEMMA ClaimStep ==
  ThermalInv /\ [Thermal!Next]_thermal =>
    [Thermal!Active' > Thermal!Active => gpu_temp_c # Unread /\ gpu_temp_c < Limit]_(Thermal!vars)
<1> SUFFICES ASSUME ThermalInv, Thermal!Next, Thermal!Active' > Thermal!Active
             PROVE  gpu_temp_c # Unread /\ gpu_temp_c < Limit
  BY DEF thermal, Thermal!vars, Thermal!hardware, Thermal!node
<1> DEFINE busy == {s \in Slot : copy[s] # Unread}
<1>1. ASSUME busy' \subseteq busy PROVE FALSE
  <2>1. IsFiniteSet(busy)
    BY SlotsFinite, FS_Subset
  <2>2. Cardinality(busy') \in Nat /\ Cardinality(busy) \in Nat /\ Cardinality(busy') <= Cardinality(busy)
    BY <2>1, <1>1, FS_Subset, FS_CardinalityType
  <2>3. Thermal!Active = Cardinality(busy) /\ Thermal!Active' = Cardinality(busy')
    BY ThermalCardinality DEF Thermal!Active
  <2> QED
    BY <2>2, <2>3
<1>2. ASSUME NEW s \in Slot, Thermal!Claim(s) PROVE gpu_temp_c # Unread /\ gpu_temp_c < Limit
  BY <1>2 DEF ThermalInv, Thermal!Claim
<1>3. ASSUME NEW s \in Slot, Thermal!TaskHeartbeat(s) PROVE busy' \subseteq busy
  BY <1>3 DEF ThermalInv, Thermal!TaskHeartbeat
<1>4. ASSUME NEW s \in Slot, Thermal!TaskEnds(s) PROVE busy' \subseteq busy
  BY <1>4 DEF ThermalInv, Thermal!TaskEnds
<1>5. ASSUME UNCHANGED copy PROVE busy' \subseteq busy
  BY <1>5
<1> HIDE DEF busy
<1> QED
  BY <1>1, <1>2, <1>3, <1>4, <1>5 DEF Thermal!Next, Thermal!LoopHeartbeat,
    Thermal!LoopHeartbeatLost, Thermal!ClaimNothing, Thermal!Environment, Thermal!RequestStop

\* Jobs are claimed only below the limit last reported (node_heartbeat and the
\* claim's check of the status), for any number of tasks with stale flags.
THEOREM ClaimsAlwaysBelowLimit == Spec => ClaimsBelowLimit
<1>1. Init => ThermalInv
  BY DEF Init, Thermal!Init, ThermalInv
<1>2. ThermalInv /\ [Next]_vars => ThermalInv'
  BY PartSteps, ThermalNext
<1>3. ThermalInv /\ [Next]_vars =>
        [Thermal!Active' > Thermal!Active => gpu_temp_c # Unread /\ gpu_temp_c < Limit]_(Thermal!vars)
  BY PartSteps, ClaimStep
<1> QED
  BY <1>1, <1>2, <1>3, PTL DEF Spec, ClaimsBelowLimit, Thermal!ClaimsBelowLimit

-----------------------------------------------------------------------------
(***************************************************************************)
(* The loop, its slots and its tasks.  A lease has an attempt number of    *)
(* its own and one task at most, so what is known of the attempt's result  *)
(* is known from the phase of that task: nothing has left before it        *)
(* submits, everything it sends as a result is sent with the same content, *)
(* and it turns to a failure only when that content was refused.           *)
(***************************************************************************)
Reports == [kind : {"result", "failure"}, job : Job, attempt : 1 .. MaxLeases]
Requests == [report : Reports, retryable : BOOLEAN, valid : BOOLEAN]
Tokens == [job : Job, attempt : 1 .. MaxLeases]

ShareType ==
  /\ Share!TypeOK
  /\ applied \subseteq Reports /\ wire \subseteq Requests
  /\ kv \in [Slot -> Tokens \cup {None}]

SlotsSound ==
  pc # "exited" =>
    /\ {avail[i] : i \in DOMAIN avail} = Slot \ Share!Busy
    /\ \A i, m \in DOMAIN avail : avail[i] = avail[m] => i = m
    /\ active = Cardinality(Share!Busy)
    /\ pc = "claim" => active < limit

\* Attempts are numbered as they are leased, and each has one task at most.
AttemptsSound ==
  /\ \A r \in applied : r.attempt <= attempt[r.job]
  /\ \A r \in wire : r.report.attempt <= attempt[r.report.job]
  /\ \A s \in Slot : task[s] # None => task[s].attempt <= attempt[task[s].job]
  /\ \A s, u \in Slot :
       task[s] # None /\ task[u] # None /\ task[s].job = task[u].job
         /\ task[s].attempt = task[u].attempt => s = u

ResultOf(s) == Share!Report("result", task[s].job, task[s].attempt)

\* What the phase of a task says of the result of its attempt.
Early == {"claimed", "binding", "inferring", "erasing"}
ResultSound(s) == task[s] # None =>
  /\ task[s].phase \in Early =>
       /\ task[s].kind = "failure"
       /\ ResultOf(s) \notin applied /\ \A r \in wire : r.report # ResultOf(s)
  /\ task[s].phase = "submit" /\ task[s].kind = "failure" =>
       ResultOf(s) \notin applied /\ \A r \in wire : r.report = ResultOf(s) => ~ r.valid
  /\ task[s].phase = "submit" /\ task[s].kind = "result" =>
       /\ task[s].output # "valid" => ResultOf(s) \notin applied
       /\ \A r \in wire : r.report = ResultOf(s) => (r.valid <=> task[s].output = "valid")
  /\ task[s].phase = "ended" /\ task[s].ok => ResultOf(s) \in applied
ResultsSound == \A s \in Slot : ResultSound(s)

ShareInv ==
  /\ ShareType /\ SlotsSound /\ AttemptsSound /\ ResultsSound
  /\ Share!ResultOnlyFromErasedSlot /\ Share!CreditedIsSettled

LEMMA ShareCardinality == ASSUME NEW S PROVE Share!Cardinality(S) = Cardinality(S)
  BY DEF Share!Cardinality, Cardinality

\* What a task becomes is a task of the same attempt.
LEMMA SubmittingTask ==
  ASSUME NEW s \in Slot, task[s] \in Share!Task, NEW kind \in {"result", "failure"},
         NEW retryable \in BOOLEAN
  PROVE  /\ Share!Submitting(s, kind, retryable) \in Share!Task
         /\ Share!Submitting(s, kind, retryable).phase = "submit"
         /\ Share!Submitting(s, kind, retryable).kind = kind
         /\ Share!Submitting(s, kind, retryable).job = task[s].job
         /\ Share!Submitting(s, kind, retryable).attempt = task[s].attempt
         /\ Share!Submitting(s, kind, retryable).output = IF kind = "result" THEN task[s].output ELSE "none"
<1>1. 0 \in 0 .. MaxTries
  BY ShareAssumption
<1>2. Share!Submitting(s, kind, retryable) =
        [task[s] EXCEPT !.phase = "submit", !.kind = kind, !.retryable = retryable, !.tries = 0,
                        !.output = IF kind = "result" THEN task[s].output ELSE "none"]
  BY DEF Share!Submitting, Share!Task
<1> QED
  BY <1>1, <1>2 DEF Share!Task

LEMMA EndedTask ==
  ASSUME NEW s \in Slot, task[s] \in Share!Task, NEW ok \in BOOLEAN
  PROVE  /\ Share!Ended(s, ok) \in Share!Task
         /\ Share!Ended(s, ok).phase = "ended" /\ Share!Ended(s, ok).ok = ok
         /\ Share!Ended(s, ok).kind = task[s].kind
         /\ Share!Ended(s, ok).job = task[s].job
         /\ Share!Ended(s, ok).attempt = task[s].attempt
<1>1. 0 \in 0 .. MaxTries
  BY ShareAssumption
<1> QED
  BY <1>1 DEF Share!Ended, Share!Task

\* A request asks for what its task has to report.
LEMMA RequestOfTask ==
  ASSUME NEW s \in Slot, task[s] \in Share!Task
  PROVE  /\ Share!Request(s) \in Requests
         /\ Share!Request(s).report = Share!Report(task[s].kind, task[s].job, task[s].attempt)
         /\ Share!Request(s).valid <=> (task[s].kind = "failure" \/ task[s].output = "valid")
  BY DEF Share!Request, Share!Report, Requests, Reports, Share!Task

\* What the coordinator does with a request: it applies a valid one at most, and
\* every report it answers with ok has been applied.
LEMMA Handled ==
  ASSUME ShareType, NEW r \in Requests, Share!Handle(r)
  PROVE  /\ attempt' = attempt
         /\ lease' \in [Job -> {"queued", "live", "lapsed", "settled", "failed"}]
         /\ applied \subseteq applied' /\ applied' \subseteq applied \cup {r.report}
         /\ (r.report \notin applied /\ ~ r.valid => applied' = applied)
         /\ (Share!Answer(r) = "ok" => r.report \in applied')
         /\ (Share!Answer(r) = "invalid" =>
               ~ r.valid /\ r.report \notin applied /\ applied' = applied)
         /\ Share!Answer(r) \in {"ok", "conflict", "invalid"}
<1>1. /\ attempt' = attempt
      /\ applied' = IF r.report \notin applied /\ Share!Answer(r) = "ok"
                    THEN applied \cup {r.report} ELSE applied
  BY DEF Share!Handle
<1>2. /\ Share!Answer(r) \in {"ok", "conflict", "invalid"}
      /\ r.report \notin applied /\ ~ r.valid => Share!Answer(r) # "ok"
      /\ Share!Answer(r) = "invalid" => ~ r.valid /\ r.report \notin applied
  BY DEF Share!Answer
<1>3. lease' \in [Job -> {"queued", "live", "lapsed", "settled", "failed"}]
  <2>1. r.report.job \in Job
    BY DEF Requests, Reports
  <2>2. lease \in [Job -> {"queued", "live", "lapsed", "settled", "failed"}]
    BY DEF ShareType, Share!TypeOK
  <2>3. CASE ~(r.report \notin applied /\ Share!Answer(r) = "ok")
    BY <2>2, <2>3 DEF Share!Handle
  <2>4. CASE r.report \notin applied /\ Share!Answer(r) = "ok"
    <3>1. \E x \in {"queued", "settled", "failed"} : lease' = [lease EXCEPT ![r.report.job] = x]
      BY <2>4 DEF Share!Handle
    <3> QED
      BY <3>1, <2>1, <2>2
  <2> QED
    BY <2>3, <2>4
<1> QED
  BY <1>1, <1>2, <1>3

LEMMA BusyTask ==
  ASSUME ShareType, NEW s \in Slot, task[s] # None PROVE task[s] \in Share!Task
  BY DEF ShareType, Share!TypeOK

\* A task's step up to its submission: nothing leaves the worker, and a result is
\* kept only when the slot was erased.
LEMMA ExecuteStep ==
  ASSUME ShareInv, NEW s \in Slot, Share!Execute(s)
  PROVE  /\ pc # "exited" /\ task[s] # None /\ task[s].phase \in Early
         /\ UNCHANGED <<lease, attempt, applied, wire, pc, limit, avail, active, credited,
                        policy, stop>>
         /\ kv' \in [Slot -> Tokens \cup {None}] /\ \A u \in Slot \ {s} : kv'[u] = kv[u]
         /\ \E t \in Share!Task :
              /\ task' = [task EXCEPT ![s] = t]
              /\ t.job = task[s].job /\ t.attempt = task[s].attempt
              /\ t.phase = "submit" \/ (t.phase \in Early /\ t.kind = "failure")
              /\ t.kind = "result" => kv'[s] = None
<1> USE DEF Share!serverVars, Share!loopVars, Share!operatorVars, Share!TaskStep, Share!Running,
            Share!In, Early
<1>a. kv \in [Slot -> Tokens \cup {None}]
  BY DEF ShareInv, ShareType
<1>b. task[s] # None => task[s] \in Share!Task /\ (task[s].phase \in Early => task[s].kind = "failure")
  BY BusyTask DEF ShareInv, ResultsSound, ResultSound
<1>c. ASSUME NEW retryable \in BOOLEAN, task[s] # None
      PROVE  LET t == Share!Submitting(s, "failure", retryable) IN
             /\ t \in Share!Task /\ t.job = task[s].job /\ t.attempt = task[s].attempt
             /\ t.phase = "submit" /\ t.kind = "failure"
  BY <1>b, <1>c, SubmittingTask
<1>1. CASE Share!RejectClaim(s)
  BY <1>1, <1>a, <1>b, <1>c DEF Share!RejectClaim
<1>2. CASE Share!BindingFails(s)
  BY <1>2, <1>a, <1>b, <1>c DEF Share!BindingFails
<1>3. CASE Share!RenewalFails(s)
  BY <1>3, <1>a, <1>b, <1>c DEF Share!RenewalFails
<1>4. CASE Share!BeginExecution(s)
  <2> DEFINE t == [task[s] EXCEPT !.phase = "binding"]
  <2>1. task[s] \in Share!Task
    BY <1>4, <1>b DEF Share!BeginExecution
  <2>2. /\ t \in Share!Task /\ t.job = task[s].job /\ t.attempt = task[s].attempt
        /\ t.phase = "binding" /\ t.kind = task[s].kind
    BY <2>1 DEF Share!Task
  <2>3. task' = [task EXCEPT ![s] = t]
    BY <1>4 DEF Share!BeginExecution
  <2> HIDE DEF t
  <2> QED
    BY <1>4, <1>a, <1>b, <2>2, <2>3 DEF Share!BeginExecution
<1>5. CASE Share!BeginInference(s)
  <2> DEFINE t == [task[s] EXCEPT !.phase = "inferring"]
  <2>1. task[s] \in Share!Task
    BY <1>5, <1>b DEF Share!BeginInference
  <2>2. /\ t \in Share!Task /\ t.job = task[s].job /\ t.attempt = task[s].attempt
        /\ t.phase = "inferring" /\ t.kind = task[s].kind
    BY <2>1 DEF Share!Task
  <2>3. task' = [task EXCEPT ![s] = t]
    BY <1>5 DEF Share!BeginInference
  <2>4. [job |-> task[s].job, attempt |-> task[s].attempt] \in Tokens
    BY <2>1 DEF Share!Task, Tokens
  <2>5. kv' = [kv EXCEPT ![s] = [job |-> task[s].job, attempt |-> task[s].attempt]]
    BY <1>5 DEF Share!BeginInference
  <2> HIDE DEF t
  <2>6. kv' \in [Slot -> Tokens \cup {None}] /\ \A u \in Slot \ {s} : kv'[u] = kv[u]
    BY <2>4, <2>5, <1>a
  <2> QED
    BY <1>5, <1>b, <2>2, <2>3, <2>6 DEF Share!BeginInference
<1>6. CASE Share!InferenceEnds(s)
  <2>1. PICK o \in {"partial", "invalid", "valid"} :
          Share!TaskStep(s, [task[s] EXCEPT !.phase = "erasing", !.output = o])
    BY <1>6 DEF Share!InferenceEnds
  <2> DEFINE t == [task[s] EXCEPT !.phase = "erasing", !.output = o]
  <2>2. task[s] \in Share!Task
    BY <1>6, <1>b DEF Share!InferenceEnds
  <2>3. /\ t \in Share!Task /\ t.job = task[s].job /\ t.attempt = task[s].attempt
        /\ t.phase = "erasing" /\ t.kind = task[s].kind
    BY <2>2 DEF Share!Task
  <2>4. task' = [task EXCEPT ![s] = t]
    BY <2>1
  <2> HIDE DEF t
  <2> QED
    BY <1>6, <1>a, <1>b, <2>3, <2>4 DEF Share!InferenceEnds
<1>7. CASE Share!EraseManagedLlamaSlot(s)
  <2>1. PICK erased \in {"some", "none", "error"} :
          /\ Share!TaskStep(s, [Share!Submitting(s, Share!Outcome(s, erased), TRUE)
                                 EXCEPT !.erase_called = TRUE])
          /\ kv' = IF erased = "some" THEN [kv EXCEPT ![s] = None] ELSE kv
    BY <1>7 DEF Share!EraseManagedLlamaSlot
  <2> DEFINE kind == Share!Outcome(s, erased)
             b == Share!Submitting(s, kind, TRUE)
             t == [b EXCEPT !.erase_called = TRUE]
  <2>2. task[s] \in Share!Task
    BY <1>7, <1>b DEF Share!EraseManagedLlamaSlot
  <2>3. kind \in {"result", "failure"} /\ (kind = "result" => erased = "some")
    BY DEF Share!Outcome
  <2>4. /\ b \in Share!Task /\ b.job = task[s].job /\ b.attempt = task[s].attempt
        /\ b.phase = "submit" /\ b.kind = kind
    <3> HIDE DEF kind
    <3> QED
      BY <2>2, <2>3, SubmittingTask
  <2>5. task' = [task EXCEPT ![s] = t]
    BY <2>1
  <2> HIDE DEF b, kind
  <2>6. /\ t \in Share!Task /\ t.job = b.job /\ t.attempt = b.attempt
        /\ t.phase = b.phase /\ t.kind = b.kind
    BY <2>4 DEF Share!Task
  <2> HIDE DEF t
  <2>7. /\ kv' \in [Slot -> Tokens \cup {None}] /\ \A u \in Slot \ {s} : kv'[u] = kv[u]
        /\ erased = "some" => kv'[s] = None
    BY <2>1, <1>a
  <2> QED
    BY <1>7, <2>3, <2>4, <2>5, <2>6, <2>7 DEF Share!EraseManagedLlamaSlot
<1> QED
  BY <1>1, <1>2, <1>3, <1>4, <1>5, <1>6, <1>7 DEF Share!Execute

\* A step of the submission: the request is applied, lost or left on the wire; the
\* task tries again, reports a refused result as a failure, or ends.
LEMMA PostStep ==
  ASSUME ShareInv, NEW s \in Slot, Share!Post(s)
  PROVE  LET r == Share!Request(s) IN
         /\ pc # "exited" /\ task[s] # None /\ task[s].phase = "submit"
         /\ UNCHANGED <<attempt, pc, limit, avail, active, credited, kv, policy, stop>>
         /\ lease' \in [Job -> {"queued", "live", "lapsed", "settled", "failed"}]
         /\ applied \subseteq applied' /\ applied' \subseteq applied \cup {r.report}
         /\ r.report \notin applied /\ ~ r.valid => applied' = applied
         /\ wire \subseteq wire' /\ wire' \subseteq wire \cup {r}
         /\ \E t \in Share!Task :
              /\ task' = [task EXCEPT ![s] = t]
              /\ t.job = task[s].job /\ t.attempt = task[s].attempt
              /\ \/ t.phase = "submit" /\ t.kind = task[s].kind /\ t.output = task[s].output
                 \/ /\ t.phase = "submit" /\ t.kind = "failure" /\ task[s].kind = "result"
                    /\ task[s].output # "valid" /\ UNCHANGED <<applied, wire>>
                 \/ /\ t.phase = "ended" /\ t.kind = task[s].kind
                    /\ t.ok => task[s].kind = "result" /\ r.report \in applied'
<1> DEFINE r == Share!Request(s)
<1> USE DEF Share!serverVars, Share!loopVars, Share!operatorVars, Share!Running, Share!In
<1>1. /\ pc # "exited" /\ task[s] # None /\ task[s].phase = "submit"
      /\ UNCHANGED <<pc, limit, avail, active, credited, kv, policy, stop>>
  BY DEF Share!Post, Share!PostAnswered, Share!PostAnswerLost, Share!PostTimesOut
<1>2. ShareType /\ task[s] \in Share!Task
  BY <1>1, BusyTask DEF ShareInv
<1>3. /\ r \in Requests
      /\ r.report = Share!Report(task[s].kind, task[s].job, task[s].attempt)
      /\ r.valid <=> (task[s].kind = "failure" \/ task[s].output = "valid")
  BY <1>2, RequestOfTask
<1>4. /\ Share!Ended(s, FALSE) \in Share!Task /\ Share!Ended(s, FALSE).phase = "ended"
      /\ Share!Ended(s, FALSE).kind = task[s].kind /\ Share!Ended(s, FALSE).ok = FALSE
      /\ Share!Ended(s, FALSE).job = task[s].job /\ Share!Ended(s, FALSE).attempt = task[s].attempt
  BY <1>2, EndedTask
<1>5. LET t == Share!Unanswered(s) IN
      /\ t \in Share!Task /\ t.job = task[s].job /\ t.attempt = task[s].attempt
      /\ \/ t.phase = "submit" /\ t.kind = task[s].kind /\ t.output = task[s].output
         \/ t.phase = "ended" /\ t.kind = task[s].kind /\ t.ok = FALSE
  <2>1. CASE task[s].tries + 1 < MaxTries
    <3>1. Share!Unanswered(s) = [task[s] EXCEPT !.tries = task[s].tries + 1]
      BY <2>1, <1>2 DEF Share!Unanswered, Share!Task
    <3>2. task[s].tries + 1 \in 0 .. MaxTries
      BY <2>1, <1>2, ShareAssumption DEF Share!Task
    <3> QED
      BY <3>1, <3>2, <1>1, <1>2 DEF Share!Task
  <2>2. CASE ~(task[s].tries + 1 < MaxTries)
    <3>1. Share!Unanswered(s) = Share!Ended(s, FALSE)
      BY <2>2 DEF Share!Unanswered, Share!TerminalFailure
    <3> QED
      BY <3>1, <1>4
  <2> QED
    BY <2>1, <2>2
<1> HIDE DEF r
<1>6. CASE Share!PostAnswered(s)
  <2>1. Share!Handle(r) /\ UNCHANGED wire /\ task' = [task EXCEPT ![s] = Share!Answered(s, Share!Answer(r))]
    BY <1>6 DEF Share!PostAnswered, r
  <2>2. /\ attempt' = attempt
        /\ lease' \in [Job -> {"queued", "live", "lapsed", "settled", "failed"}]
        /\ applied \subseteq applied' /\ applied' \subseteq applied \cup {r.report}
        /\ (r.report \notin applied /\ ~ r.valid => applied' = applied)
        /\ (Share!Answer(r) = "ok" => r.report \in applied')
        /\ (Share!Answer(r) = "invalid" =>
              ~ r.valid /\ r.report \notin applied /\ applied' = applied)
        /\ Share!Answer(r) \in {"ok", "conflict", "invalid"}
    BY <2>1, <1>2, <1>3, Handled
  <2> DEFINE t == Share!Answered(s, Share!Answer(r))
  <2>3. /\ t \in Share!Task /\ t.job = task[s].job /\ t.attempt = task[s].attempt
        /\ \/ /\ t.phase = "submit" /\ t.kind = "failure" /\ task[s].kind = "result"
              /\ task[s].output # "valid" /\ UNCHANGED <<applied, wire>>
           \/ /\ t.phase = "ended" /\ t.kind = task[s].kind
              /\ t.ok => task[s].kind = "result" /\ r.report \in applied'
    <3>1. CASE Share!Answer(r) = "ok"
      <4>1. t = Share!Ended(s, task[s].kind = "result")
        BY <3>1 DEF Share!Answered
      <4>2. /\ t \in Share!Task /\ t.phase = "ended" /\ t.ok = (task[s].kind = "result")
            /\ t.kind = task[s].kind /\ t.job = task[s].job /\ t.attempt = task[s].attempt
        <5> DEFINE ok == task[s].kind = "result"
        <5>1. ok \in BOOLEAN
          OBVIOUS
        <5> HIDE DEF ok
        <5>2. /\ Share!Ended(s, ok) \in Share!Task
              /\ Share!Ended(s, ok).phase = "ended" /\ Share!Ended(s, ok).ok = ok
              /\ Share!Ended(s, ok).kind = task[s].kind
              /\ Share!Ended(s, ok).job = task[s].job
              /\ Share!Ended(s, ok).attempt = task[s].attempt
          BY <5>1, <1>2, EndedTask
        <5> QED
          BY <5>2, <4>1 DEF ok
      <4> QED
        BY <3>1, <4>2, <2>2
    <3>2. CASE Share!Answer(r) = "invalid" /\ task[s].kind = "result"
      <4>1. t = Share!Submitting(s, "failure", FALSE)
        BY <3>2 DEF Share!Answered, Share!TerminalFailure
      <4>2. /\ t \in Share!Task /\ t.phase = "submit" /\ t.kind = "failure"
            /\ t.job = task[s].job /\ t.attempt = task[s].attempt
        BY <4>1, <1>2, SubmittingTask
      <4> QED
        BY <3>2, <4>2, <2>1, <2>2, <1>3
    <3>3. CASE Share!Answer(r) # "ok" /\ ~(Share!Answer(r) = "invalid" /\ task[s].kind = "result")
      <4>1. t = Share!Ended(s, FALSE)
        BY <3>3 DEF Share!Answered, Share!TerminalFailure
      <4> QED
        BY <4>1, <1>4
    <3> QED
      BY <3>1, <3>2, <3>3
  <2>4. task' = [task EXCEPT ![s] = t]
    BY <2>1
  <2> HIDE DEF t
  <2> QED
    BY <1>1, <2>1, <2>2, <2>3, <2>4 DEF r
<1>7. CASE Share!PostAnswerLost(s)
  <2>1. Share!Handle(r) /\ UNCHANGED wire /\ task' = [task EXCEPT ![s] = Share!Unanswered(s)]
    BY <1>7 DEF Share!PostAnswerLost, r
  <2>2. /\ attempt' = attempt
        /\ lease' \in [Job -> {"queued", "live", "lapsed", "settled", "failed"}]
        /\ applied \subseteq applied' /\ applied' \subseteq applied \cup {r.report}
        /\ (r.report \notin applied /\ ~ r.valid => applied' = applied)
    BY <2>1, <1>2, <1>3, Handled
  <2> QED
    BY <1>1, <1>5, <2>1, <2>2 DEF r
<1>8. CASE Share!PostTimesOut(s)
  <2>1. /\ UNCHANGED <<lease, attempt, applied>> /\ wire' = wire \cup {r}
        /\ task' = [task EXCEPT ![s] = Share!Unanswered(s)]
    BY <1>8 DEF Share!PostTimesOut, r
  <2>2. lease \in [Job -> {"queued", "live", "lapsed", "settled", "failed"}]
    BY <1>2 DEF ShareType, Share!TypeOK
  <2> QED
    BY <1>1, <1>5, <2>1, <2>2 DEF r
<1> QED
  BY <1>6, <1>7, <1>8 DEF Share!Post

\* A step of one task leaves the loop's bookkeeping and the other tasks alone.
LEMMA TaskKeeps ==
  ASSUME ShareInv, NEW s \in Slot, task[s] # None, pc # "exited",
         NEW t \in Share!Task, task' = [task EXCEPT ![s] = t],
         t.job = task[s].job, t.attempt = task[s].attempt,
         UNCHANGED <<attempt, pc, limit, avail, active, credited, policy, stop>>,
         lease' \in [Job -> {"queued", "live", "lapsed", "settled", "failed"}],
         kv' \in [Slot -> Tokens \cup {None}],
         applied \subseteq applied', applied' \subseteq applied \cup {Share!Request(s).report},
         wire' \subseteq wire \cup {Share!Request(s)}
  PROVE  /\ ShareType' /\ SlotsSound' /\ AttemptsSound' /\ Share!CreditedIsSettled'
         /\ \A u \in Slot \ {s} : ResultSound(u)'
         /\ task'[s] = t /\ t # None /\ \A u \in Slot \ {s} : task'[u] = task[u]
<1>1. ShareType /\ task \in [Slot -> Share!Task \cup {None}] /\ task[s] \in Share!Task
  BY BusyTask DEF ShareInv, ShareType, Share!TypeOK
<1>2. task'[s] = t /\ t # None /\ \A u \in Slot \ {s} : task'[u] = task[u]
  BY <1>1, ShareAssumption
<1>3. /\ Share!Request(s) \in Requests
      /\ Share!Request(s).report = Share!Report(task[s].kind, task[s].job, task[s].attempt)
  BY <1>1, RequestOfTask
<1>4. ShareType'
  <2>1. task' \in [Slot -> Share!Task \cup {None}]
    BY <1>1
  <2>2. applied' \subseteq Reports /\ wire' \subseteq Requests
    BY <1>1, <1>3 DEF ShareType, Requests
  <2> QED
    BY <1>1, <2>1, <2>2 DEF ShareType, Share!TypeOK
<1>5. Share!Busy' = Share!Busy
  BY <1>2 DEF Share!Busy
<1>6. SlotsSound'
  BY <1>5 DEF ShareInv, SlotsSound
<1>7. AttemptsSound'
  <2>1. /\ Share!Request(s).report.job = task[s].job
        /\ Share!Request(s).report.attempt = task[s].attempt
    BY <1>3 DEF Share!Report
  <2> HIDE DEF Share!Request
  <2>2. AttemptsSound
    BY DEF ShareInv
  <2>3. \A u \in Slot : /\ task'[u] # None => task[u] # None /\ task'[u].job = task[u].job
                                             /\ task'[u].attempt = task[u].attempt
    BY <1>2
  <2>4. /\ \A x \in applied' : x.attempt <= attempt'[x.job]
        /\ \A x \in wire' : x.report.attempt <= attempt'[x.report.job]
    BY <2>1, <2>2 DEF AttemptsSound
  <2>5. \A u \in Slot : task'[u] # None => task'[u].attempt <= attempt'[task'[u].job]
    BY <2>2, <2>3 DEF AttemptsSound
  <2>6. \A v, u \in Slot :
          task'[v] # None /\ task'[u] # None /\ task'[v].job = task'[u].job
            /\ task'[v].attempt = task'[u].attempt => v = u
    BY <2>2, <2>3 DEF AttemptsSound
  <2> QED
    BY <2>4, <2>5, <2>6 DEF AttemptsSound
<1>8. Share!CreditedIsSettled'
  BY DEF ShareInv, Share!CreditedIsSettled
<1>9. ASSUME NEW u \in Slot \ {s} PROVE ResultSound(u)'
  <2>1. task'[u] = task[u] /\ ResultSound(u) /\ ResultOf(u)' = ResultOf(u)
    BY <1>2 DEF ShareInv, ResultsSound, ResultOf
  <2>2. CASE task[u] = None
    BY <2>1, <2>2 DEF ResultSound
  <2>3. CASE task[u] # None
    <3>1. Share!Request(s).report # ResultOf(u)
      BY <1>3, <2>3 DEF ShareInv, AttemptsSound, ResultOf, Share!Report
    <3>2. ResultOf(u) \in applied' <=> ResultOf(u) \in applied
      BY <3>1
    <3>3. \A x \in wire' : x.report = ResultOf(u) => x \in wire
      BY <3>1
    <3> QED
      BY <2>1, <3>2, <3>3 DEF ResultSound
  <2> QED
    BY <2>2, <2>3
<1> QED
  BY <1>2, <1>4, <1>6, <1>7, <1>8, <1>9

LEMMA ExecuteKeeps ==
  ASSUME ShareInv, NEW s \in Slot, Share!Execute(s) PROVE ShareInv'
<1>1. /\ pc # "exited" /\ task[s] # None /\ task[s].phase \in Early
      /\ UNCHANGED <<lease, attempt, applied, wire, pc, limit, avail, active, credited,
                     policy, stop>>
      /\ kv' \in [Slot -> Tokens \cup {None}] /\ \A u \in Slot \ {s} : kv'[u] = kv[u]
  BY ExecuteStep
<1>2. PICK t \in Share!Task :
        /\ task' = [task EXCEPT ![s] = t]
        /\ t.job = task[s].job /\ t.attempt = task[s].attempt
        /\ t.phase = "submit" \/ (t.phase \in Early /\ t.kind = "failure")
        /\ t.kind = "result" => kv'[s] = None
  BY ExecuteStep
<1>3. lease' \in [Job -> {"queued", "live", "lapsed", "settled", "failed"}]
  BY <1>1 DEF ShareInv, ShareType, Share!TypeOK
<1>4. applied \subseteq applied' /\ applied' \subseteq applied \cup {Share!Request(s).report}
      /\ wire' \subseteq wire \cup {Share!Request(s)}
  BY <1>1
<1>5. /\ ShareType' /\ SlotsSound' /\ AttemptsSound' /\ Share!CreditedIsSettled'
      /\ \A u \in Slot \ {s} : ResultSound(u)'
      /\ task'[s] = t /\ t # None /\ \A u \in Slot \ {s} : task'[u] = task[u]
  BY <1>1, <1>2, <1>3, <1>4, TaskKeeps
<1>6. ResultSound(s)'
  <2>1. ResultOf(s) \notin applied /\ \A r \in wire : r.report # ResultOf(s)
    BY <1>1 DEF ShareInv, ResultsSound, ResultSound
  <2>2. ResultOf(s)' = ResultOf(s)
    BY <1>2, <1>5 DEF ResultOf
  <2>3. ResultOf(s)' \notin applied' /\ \A r \in wire' : r.report # ResultOf(s)'
    BY <2>1, <2>2, <1>1
  <2>4. task'[s].phase # "ended" /\ (task'[s].phase \in Early => task'[s].kind = "failure")
    BY <1>2, <1>5 DEF Early
  <2> QED
    BY <2>3, <2>4 DEF ResultSound
<1>7. Share!ResultOnlyFromErasedSlot'
  <2> SUFFICES ASSUME NEW u \in Slot, Share!In(u, {"submit", "ended"})', task'[u].kind = "result"
               PROVE  ~ Share!Began(u)'
    BY DEF Share!ResultOnlyFromErasedSlot
  <2>1. CASE u = s
    <3>1. kv'[s] = None
      BY <2>1, <1>2, <1>5
    <3>2. [job |-> t.job, attempt |-> t.attempt] \in Tokens
      BY DEF Share!Task, Tokens
    <3> QED
      BY <2>1, <3>1, <3>2, <1>5, ShareAssumption DEF Share!Began, Tokens
  <2>2. CASE u # s
    BY <2>2, <1>1, <1>5 DEF ShareInv, Share!ResultOnlyFromErasedSlot, Share!In, Share!Began
  <2> QED
    BY <2>1, <2>2
<1> QED
  BY <1>5, <1>6, <1>7 DEF ShareInv, ResultsSound

LEMMA PostKeeps ==
  ASSUME ShareInv, NEW s \in Slot, Share!Post(s) PROVE ShareInv'
<1> DEFINE r == Share!Request(s)
<1>1. /\ pc # "exited" /\ task[s] # None /\ task[s].phase = "submit"
      /\ UNCHANGED <<attempt, pc, limit, avail, active, credited, kv, policy, stop>>
      /\ lease' \in [Job -> {"queued", "live", "lapsed", "settled", "failed"}]
      /\ applied \subseteq applied' /\ applied' \subseteq applied \cup {r.report}
      /\ (r.report \notin applied /\ ~ r.valid => applied' = applied)
      /\ wire \subseteq wire' /\ wire' \subseteq wire \cup {r}
  BY PostStep
<1>2. PICK t \in Share!Task :
        /\ task' = [task EXCEPT ![s] = t]
        /\ t.job = task[s].job /\ t.attempt = task[s].attempt
        /\ \/ t.phase = "submit" /\ t.kind = task[s].kind /\ t.output = task[s].output
           \/ /\ t.phase = "submit" /\ t.kind = "failure" /\ task[s].kind = "result"
              /\ task[s].output # "valid" /\ UNCHANGED <<applied, wire>>
           \/ /\ t.phase = "ended" /\ t.kind = task[s].kind
              /\ t.ok => task[s].kind = "result" /\ r.report \in applied'
  BY PostStep
<1>3. kv' \in [Slot -> Tokens \cup {None}]
  BY <1>1 DEF ShareInv, ShareType
<1>4. /\ ShareType' /\ SlotsSound' /\ AttemptsSound' /\ Share!CreditedIsSettled'
      /\ \A u \in Slot \ {s} : ResultSound(u)'
      /\ task'[s] = t /\ t # None /\ \A u \in Slot \ {s} : task'[u] = task[u]
  BY <1>1, <1>2, <1>3, TaskKeeps
<1>5. /\ r.report = Share!Report(task[s].kind, task[s].job, task[s].attempt)
      /\ r.valid <=> (task[s].kind = "failure" \/ task[s].output = "valid")
  BY <1>1, BusyTask, RequestOfTask DEF ShareInv
<1>6. ResultOf(s)' = ResultOf(s) /\ ResultSound(s)
  BY <1>2, <1>4 DEF ResultOf, ShareInv, ResultsSound
<1>7. task[s].kind = "result" => r.report = ResultOf(s)
  BY <1>5 DEF ResultOf
<1>8. task[s].kind = "failure" => r.report # ResultOf(s)
  BY <1>5 DEF ResultOf, Share!Report
<1>9. task[s].kind \in {"result", "failure"} /\ task[s].ok \in BOOLEAN
  BY <1>1, BusyTask DEF ShareInv, Share!Task
<1> HIDE DEF r
<1>10. ResultSound(s)'
  <2>1. CASE t.phase = "submit" /\ t.kind = task[s].kind /\ t.output = task[s].output
    <3>1. CASE t.kind = "failure"
      <4>1. ResultOf(s) \notin applied /\ \A x \in wire : x.report = ResultOf(s) => ~ x.valid
        BY <2>1, <3>1, <1>1, <1>6 DEF ResultSound
      <4>2. ResultOf(s)' \notin applied' /\ \A x \in wire' : x.report = ResultOf(s)' => ~ x.valid
        BY <4>1, <2>1, <3>1, <1>1, <1>6, <1>8
      <4> QED
        BY <4>2, <2>1, <3>1, <1>4 DEF ResultSound, Early
    <3>2. CASE t.kind = "result"
      <4>1. /\ task[s].output # "valid" => ResultOf(s) \notin applied
            /\ \A x \in wire : x.report = ResultOf(s) => (x.valid <=> task[s].output = "valid")
        BY <2>1, <3>2, <1>1, <1>6 DEF ResultSound
      <4>2. /\ t.output # "valid" => ResultOf(s)' \notin applied'
            /\ \A x \in wire' : x.report = ResultOf(s)' => (x.valid <=> t.output = "valid")
        BY <4>1, <2>1, <3>2, <1>1, <1>5, <1>6, <1>7
      <4> QED
        BY <4>2, <2>1, <3>2, <1>4 DEF ResultSound, Early
    <3> QED
      BY <3>1, <3>2, <2>1, <1>9
  <2>2. CASE /\ t.phase = "submit" /\ t.kind = "failure" /\ task[s].kind = "result"
             /\ task[s].output # "valid" /\ UNCHANGED <<applied, wire>>
    <3>1. ResultOf(s) \notin applied /\ \A x \in wire : x.report = ResultOf(s) => ~ x.valid
      BY <2>2, <1>1, <1>6 DEF ResultSound
    <3> QED
      BY <3>1, <2>2, <1>4, <1>6 DEF ResultSound, Early
  <2>3. CASE /\ t.phase = "ended" /\ t.kind = task[s].kind
             /\ t.ok => task[s].kind = "result" /\ r.report \in applied'
    BY <2>3, <1>4, <1>6, <1>7 DEF ResultSound, Early
  <2> QED
    BY <2>1, <2>2, <2>3, <1>2
<1>11. Share!ResultOnlyFromErasedSlot'
  <2> SUFFICES ASSUME NEW u \in Slot, Share!In(u, {"submit", "ended"})', task'[u].kind = "result"
               PROVE  ~ Share!Began(u)'
    BY DEF Share!ResultOnlyFromErasedSlot
  <2>1. Share!In(u, {"submit", "ended"}) /\ task[u].kind = "result"
    BY <1>1, <1>2, <1>4 DEF Share!In
  <2>2. task'[u].job = task[u].job /\ task'[u].attempt = task[u].attempt
    BY <1>2, <1>4
  <2> QED
    BY <2>1, <2>2, <1>1 DEF ShareInv, Share!ResultOnlyFromErasedSlot, Share!Began
<1> QED
  BY <1>4, <1>10, <1>11 DEF ShareInv, ResultsSound

\* A request that was given up arrives: a valid result belongs to a task that
\* submits it or has ended, or to nobody any more.
LEMMA LateKeeps ==
  ASSUME ShareInv, NEW r \in wire, Share!LateArrival(r) PROVE ShareInv'
<1> USE DEF Share!loopVars, Share!operatorVars
<1>1. /\ wire' = wire \ {r} /\ Share!Handle(r)
      /\ UNCHANGED <<pc, limit, avail, active, credited, task, kv, policy, stop>>
  BY DEF Share!LateArrival
<1>2. ShareType /\ r \in Requests
  BY DEF ShareInv, ShareType
<1>3. /\ attempt' = attempt
      /\ lease' \in [Job -> {"queued", "live", "lapsed", "settled", "failed"}]
      /\ applied \subseteq applied' /\ applied' \subseteq applied \cup {r.report}
      /\ (r.report \notin applied /\ ~ r.valid => applied' = applied)
  BY <1>1, <1>2, Handled
<1>4. ShareType'
  BY <1>1, <1>2, <1>3 DEF ShareType, Share!TypeOK, Requests
<1>5. SlotsSound'
  BY <1>1 DEF ShareInv, SlotsSound, Share!Busy
<1>6. AttemptsSound'
  BY <1>1, <1>3 DEF ShareInv, AttemptsSound
<1>7. ASSUME NEW s \in Slot PROVE ResultSound(s)'
  <2>1. ResultSound(s) /\ ResultOf(s)' = ResultOf(s)
    BY <1>1 DEF ShareInv, ResultsSound, ResultOf
  <2> QED
    BY <2>1, <1>1, <1>3 DEF ResultSound, Early
<1>8. Share!ResultOnlyFromErasedSlot' /\ Share!CreditedIsSettled'
  BY <1>1, <1>3 DEF ShareInv, Share!ResultOnlyFromErasedSlot, Share!CreditedIsSettled, Share!In,
    Share!Began
<1> QED
  BY <1>4, <1>5, <1>6, <1>7, <1>8 DEF ShareInv, ResultsSound

\* The free list of a new worker holds every slot once.
LEMMA QueueOfSlots ==
  LET q == Share!SlotQueue IN
  /\ q \in Seq(Slot) /\ {q[i] : i \in DOMAIN q} = Slot
  /\ \A i, m \in DOMAIN q : q[i] = q[m] => i = m
<1> DEFINE n == Cardinality(Slot)
           Sorted(f) == \A i, m \in DOMAIN f : i < m => f[i] < f[m]
           q == Share!SlotQueue
<1>1. n \in Nat /\ Slot = 1 .. n
  BY SlotAssumption
<1>2. q = CHOOSE f \in [1 .. n -> Slot] : Sorted(f)
  BY ShareCardinality DEF Share!SlotQueue
<1> HIDE DEF n
<1>3. \E f \in [1 .. n -> Slot] : Sorted(f)
  <2>1. [i \in 1 .. n |-> i] \in [1 .. n -> Slot] /\ Sorted([i \in 1 .. n |-> i])
    BY <1>1
  <2> QED
    BY <2>1
<1> HIDE DEF Sorted, q
<1>4. q \in [1 .. n -> Slot] /\ Sorted(q)
  BY <1>2, <1>3
<1>5. \A i, m \in 1 .. n : q[i] = q[m] => i = m
  <2> SUFFICES ASSUME NEW i \in 1 .. n, NEW m \in 1 .. n, q[i] = q[m], i # m PROVE FALSE
    OBVIOUS
  <2>1. i \in Nat /\ m \in Nat /\ q[i] \in Nat /\ q[m] \in Nat
    BY <1>1, <1>4
  <2>2. i < m \/ m < i
    BY <2>1
  <2>3. DOMAIN q = 1 .. n
    BY <1>4
  <2> QED
    BY <2>1, <2>2, <2>3, <1>4 DEF Sorted
<1>6. q \in Injection(Slot, Slot)
  BY <1>1, <1>4, <1>5 DEF Injection, IsInjective
<1>7. q \in Surjection(Slot, Slot)
  BY <1>6, SlotsFinite, FS_Injection
<1>8. {q[i] : i \in DOMAIN q} = Slot
  BY <1>1, <1>4, <1>7 DEF Surjection
<1>9. q \in Seq(Slot)
  BY <1>1, <1>4
<1> QED
  BY <1>4, <1>5, <1>8, <1>9 DEF q

\* The free slots and the busy ones are all there are.
LEMMA SlotsCounted ==
  ASSUME ShareType
  PROVE  /\ IsFiniteSet(Share!Busy) /\ Cardinality(Share!Busy) \in 0 .. Cardinality(Slot)
         /\ Cardinality(Slot \ Share!Busy) = Cardinality(Slot) - Cardinality(Share!Busy)
<1>1. Share!Busy \subseteq Slot
  BY DEF Share!Busy
<1>2. IsFiniteSet(Share!Busy) /\ Cardinality(Share!Busy) \in Nat /\ Cardinality(Slot) \in Nat
      /\ Cardinality(Share!Busy) <= Cardinality(Slot)
  BY <1>1, SlotsFinite, FS_Subset, FS_CardinalityType
<1>3. Cardinality(Slot \ Share!Busy) = Cardinality(Slot) - Cardinality(Slot \cap Share!Busy)
  BY SlotsFinite, FS_Difference
<1>4. Slot \cap Share!Busy = Share!Busy
  BY <1>1
<1> QED
  BY <1>2, <1>3, <1>4

LEMMA FreeCount ==
  ASSUME ShareType, SlotsSound, pc # "exited"
  PROVE  Len(avail) = Cardinality(Slot \ Share!Busy)
<1>1. avail \in Seq(Slot) /\ Len(avail) \in Nat /\ DOMAIN avail = 1 .. Len(avail)
  BY DEF ShareType, Share!TypeOK
<1>2. avail \in Bijection(1 .. Len(avail), Slot \ Share!Busy)
  <2>1. avail \in [1 .. Len(avail) -> Slot \ Share!Busy]
    BY <1>1 DEF SlotsSound
  <2>2. avail \in Injection(1 .. Len(avail), Slot \ Share!Busy)
    BY <2>1, <1>1 DEF SlotsSound, Injection, IsInjective
  <2>3. avail \in Surjection(1 .. Len(avail), Slot \ Share!Busy)
    BY <2>1, <1>1 DEF SlotsSound, Surjection
  <2> QED
    BY <2>2, <2>3 DEF Bijection
<1> QED
  BY <1>1, <1>2, FS_CountingElements DEF ExistsBijection

\* A task that has ended hands its slot back.
LEMMA OutcomeKeeps ==
  ASSUME ShareInv, NEW s \in Slot, Share!ApplyJobTaskOutcome(s) PROVE ShareInv'
<1> USE DEF Share!serverVars, Share!operatorVars
<1>1. /\ pc = "top" /\ task[s] # None /\ task[s].phase = "ended"
      /\ active' = active - 1 /\ avail' = Append(avail, s)
      /\ credited' = IF task[s].ok THEN credited \cup {ResultOf(s)} ELSE credited
      /\ task' = [task EXCEPT ![s] = None]
      /\ UNCHANGED <<lease, attempt, applied, wire, pc, limit, kv, policy, stop>>
  BY DEF Share!ApplyJobTaskOutcome, Share!In, Share!Returned, ResultOf
<1>2. ShareType /\ SlotsSound /\ task \in [Slot -> Share!Task \cup {None}]
  BY DEF ShareInv, ShareType, Share!TypeOK
<1>3. task'[s] = None /\ \A u \in Slot \ {s} : task'[u] = task[u]
  BY <1>1, <1>2
<1>4. /\ s \in Share!Busy /\ Share!Busy' = Share!Busy \ {s} /\ Share!Busy \subseteq Slot
  BY <1>1, <1>3 DEF Share!Busy
<1>5. /\ active = Cardinality(Share!Busy) /\ Cardinality(Share!Busy') = Cardinality(Share!Busy) - 1
      /\ Cardinality(Share!Busy') \in Nat /\ Cardinality(Share!Busy) \in 0 .. Cardinality(Slot)
  BY <1>1, <1>2, <1>4, SlotsCounted, FS_RemoveElement, FS_CardinalityType DEF SlotsSound
<1>6. /\ avail \in Seq(Slot) /\ Len(avail) \in Nat /\ DOMAIN avail = 1 .. Len(avail)
      /\ avail' \in Seq(Slot) /\ DOMAIN avail' = 1 .. Len(avail) + 1
      /\ avail'[Len(avail) + 1] = s /\ \A i \in 1 .. Len(avail) : avail'[i] = avail[i]
  BY <1>1, <1>2 DEF ShareType, Share!TypeOK
<1>7. SlotsSound'
  <2>1. {avail'[i] : i \in DOMAIN avail'} = {avail[i] : i \in DOMAIN avail} \cup {s}
    BY <1>6
  <2>2. {avail'[i] : i \in DOMAIN avail'} = Slot \ Share!Busy'
    BY <2>1, <1>1, <1>2, <1>4 DEF SlotsSound
  <2>3. \A i \in 1 .. Len(avail) : avail[i] # s
    BY <1>1, <1>2, <1>4, <1>6 DEF SlotsSound
  <2>4. \A i, m \in DOMAIN avail' : avail'[i] = avail'[m] => i = m
    BY <2>3, <1>1, <1>2, <1>6 DEF SlotsSound
  <2> QED
    BY <2>2, <2>4, <1>1, <1>5 DEF SlotsSound
<1>8. ResultOf(s) \in Reports
  BY <1>1, <1>2 DEF ResultOf, Share!Report, Reports, Share!Task
<1>9. ShareType'
  <2>1. active' \in 0 .. Share!Cardinality(Slot)
    BY <1>1, <1>5, ShareCardinality, SlotAssumption
  <2>2. task' \in [Slot -> Share!Task \cup {None}]
    BY <1>1, <1>2
  <2> QED
    BY <1>1, <1>2, <1>6, <2>1, <2>2 DEF ShareType, Share!TypeOK
<1>10. AttemptsSound'
  BY <1>1, <1>3 DEF ShareInv, AttemptsSound
<1>11. ASSUME NEW u \in Slot PROVE ResultSound(u)'
  BY <1>1, <1>3 DEF ShareInv, ResultsSound, ResultSound, ResultOf
<1>12. Share!ResultOnlyFromErasedSlot'
  BY <1>1, <1>3 DEF ShareInv, Share!ResultOnlyFromErasedSlot, Share!In, Share!Began
<1>13. Share!CreditedIsSettled'
  <2>1. task[s].ok => ResultOf(s) \in applied
    BY <1>1 DEF ShareInv, ResultsSound, ResultSound
  <2> QED
    BY <2>1, <1>1 DEF ShareInv, Share!CreditedIsSettled
<1> QED
  BY <1>7, <1>9, <1>10, <1>11, <1>12, <1>13 DEF ShareInv, ResultsSound

\* What POST /v1/jobs/claim does: the attempt is a new one.
LEMMA Leased ==
  ASSUME ShareInv, NEW j \in Job, Share!Lease(j)
  PROVE  /\ attempt[j] + 1 \in 1 .. MaxLeases /\ attempt[j] \in Nat
         /\ attempt' = [attempt EXCEPT ![j] = attempt[j] + 1]
         /\ attempt' \in [Job -> 0 .. MaxLeases]
         /\ lease' \in [Job -> {"queued", "live", "lapsed", "settled", "failed"}]
         /\ UNCHANGED <<applied, wire>>
         /\ \A r \in applied : r.attempt <= attempt'[r.job]
         /\ \A r \in wire : r.report.attempt <= attempt'[r.report.job]
         /\ \A s \in Slot : task[s] # None => task[s].attempt <= attempt'[task[s].job]
<1>1. /\ attempt \in [Job -> 0 .. MaxLeases] /\ MaxLeases \in Nat
      /\ lease \in [Job -> {"queued", "live", "lapsed", "settled", "failed"}]
      /\ applied \subseteq Reports /\ wire \subseteq Requests
  BY ShareAssumption DEF ShareInv, ShareType, Share!TypeOK
<1>2. /\ attempt[j] < MaxLeases /\ attempt' = [attempt EXCEPT ![j] = attempt[j] + 1]
      /\ lease' = [lease EXCEPT ![j] = "live"] /\ UNCHANGED <<applied, wire>>
  BY DEF Share!Lease
<1>3. attempt[j] \in 0 .. MaxLeases
  BY <1>1
<1>4. attempt[j] \in Nat /\ attempt[j] + 1 \in 1 .. MaxLeases
  BY <1>1, <1>2, <1>3
<1>5. /\ attempt' \in [Job -> 0 .. MaxLeases]
      /\ lease' \in [Job -> {"queued", "live", "lapsed", "settled", "failed"}]
  BY <1>1, <1>2, <1>4
<1>6. \A i \in Job : attempt[i] \in Nat /\ attempt'[i] \in Nat /\ attempt[i] <= attempt'[i]
  BY <1>1, <1>2, <1>4
<1>7. \A r \in applied : r.attempt <= attempt'[r.job]
  <2> SUFFICES ASSUME NEW r \in applied PROVE r.attempt <= attempt'[r.job]
    OBVIOUS
  <2>1. r.job \in Job /\ r.attempt \in Nat /\ r.attempt <= attempt[r.job]
    BY <1>1 DEF ShareInv, AttemptsSound, Reports
  <2> QED
    BY <2>1, <1>6
<1>8. \A r \in wire : r.report.attempt <= attempt'[r.report.job]
  <2> SUFFICES ASSUME NEW r \in wire PROVE r.report.attempt <= attempt'[r.report.job]
    OBVIOUS
  <2>1. /\ r.report.job \in Job /\ r.report.attempt \in Nat
        /\ r.report.attempt <= attempt[r.report.job]
    BY <1>1 DEF ShareInv, AttemptsSound, Reports, Requests
  <2> QED
    BY <2>1, <1>6
<1>9. \A s \in Slot : task[s] # None => task[s].attempt <= attempt'[task[s].job]
  <2> SUFFICES ASSUME NEW s \in Slot, task[s] # None
               PROVE  task[s].attempt <= attempt'[task[s].job]
    OBVIOUS
  <2>1. task[s].job \in Job /\ task[s].attempt \in Nat /\ task[s].attempt <= attempt[task[s].job]
    BY BusyTask DEF ShareInv, AttemptsSound, Share!Task
  <2> QED
    BY <2>1, <1>6
<1> QED
  BY <1>2, <1>4, <1>5, <1>7, <1>8, <1>9

\* A claimed job finds a free slot and gets a task.
LEMMA ClaimKeeps ==
  ASSUME ShareInv, NEW j \in Job, Share!ClaimJob(j) PROVE ShareInv'
<1> USE DEF Share!operatorVars
<1> DEFINE h == Head(avail)  t == Share!NewTask(j, attempt[j] + 1)
<1>1. pc = "claim" /\ Share!Lease(j) /\ UNCHANGED <<limit, credited, kv, policy, stop>>
  BY DEF Share!ClaimJob
<1>2. /\ attempt[j] + 1 \in 1 .. MaxLeases /\ attempt[j] \in Nat
      /\ attempt' = [attempt EXCEPT ![j] = attempt[j] + 1]
      /\ attempt' \in [Job -> 0 .. MaxLeases]
      /\ lease' \in [Job -> {"queued", "live", "lapsed", "settled", "failed"}]
      /\ UNCHANGED <<applied, wire>>
      /\ \A r \in applied : r.attempt <= attempt'[r.job]
      /\ \A r \in wire : r.report.attempt <= attempt'[r.report.job]
      /\ \A s \in Slot : task[s] # None => task[s].attempt <= attempt'[task[s].job]
  BY <1>1, Leased
<1>3. /\ ShareType /\ SlotsSound /\ task \in [Slot -> Share!Task \cup {None}]
      /\ avail \in Seq(Slot) /\ limit \in 1 .. Cardinality(Slot)
      /\ active \in Nat
  BY ShareCardinality, SlotAssumption DEF ShareInv, ShareType, Share!TypeOK
<1>4. /\ active < limit /\ active = Cardinality(Share!Busy)
      /\ Len(avail) = Cardinality(Slot) - active
  BY <1>1, <1>3, FreeCount, SlotsCounted DEF SlotsSound
<1>5. /\ Len(avail) \in Nat /\ Len(avail) > 0 /\ avail # <<>> /\ active + 1 <= limit
      /\ active + 1 \in 0 .. Cardinality(Slot)
  <2>1. Cardinality(Slot) \in Nat /\ limit \in Nat /\ limit <= Cardinality(Slot)
    BY <1>3, SlotAssumption
  <2>2. Len(avail) > 0 /\ Len(avail) \in Nat
    BY <2>1, <1>3, <1>4
  <2> QED
    BY <2>1, <2>2, <1>3, <1>4
<1>6. /\ avail' = Tail(avail) /\ active' = active + 1 /\ task' = [task EXCEPT ![h] = t]
      /\ pc' = "top"
  BY <1>3, <1>5 DEF Share!ClaimJob
<1>7. /\ h = avail[1] /\ h \in Slot /\ DOMAIN avail = 1 .. Len(avail)
      /\ avail' \in Seq(Slot) /\ DOMAIN avail' = 1 .. Len(avail) - 1
      /\ \A i \in DOMAIN avail' : avail'[i] = avail[i + 1]
  BY <1>3, <1>5, <1>6
<1>8. h \notin Share!Busy
  BY <1>1, <1>3, <1>5, <1>7 DEF SlotsSound
<1>9. t \in Share!Task /\ t # None /\ t.job = j /\ t.attempt = attempt[j] + 1
      /\ t.phase = "claimed" /\ t.kind = "failure"
  <2>1. 0 \in 0 .. MaxTries
    BY ShareAssumption
  <2>2. t \in Share!Task
    BY <1>2, <2>1 DEF Share!NewTask, Share!Task
  <2> QED
    BY <2>2, ShareAssumption DEF Share!NewTask
<1> HIDE DEF h, t
<1>10. task'[h] = t /\ \A u \in Slot \ {h} : task'[u] = task[u]
  BY <1>3, <1>6, <1>7
<1>11. Share!Busy' = Share!Busy \cup {h}
  BY <1>7, <1>9, <1>10 DEF Share!Busy
<1>12. Cardinality(Share!Busy') = active + 1
  BY <1>3, <1>4, <1>8, <1>11, SlotsCounted, FS_AddElement
<1>13. SlotsSound'
  <2>1. {avail[i] : i \in DOMAIN avail} = Slot \ Share!Busy
        /\ \A i, m \in DOMAIN avail : avail[i] = avail[m] => i = m
    BY <1>1, <1>3 DEF SlotsSound
  <2>2. \A i \in DOMAIN avail' : i + 1 \in DOMAIN avail /\ i + 1 # 1
    BY <1>5, <1>7
  <2>3. \A i \in DOMAIN avail \ {1} : i - 1 \in DOMAIN avail' /\ (i - 1) + 1 = i
    BY <1>5, <1>7
  <2>4. {avail'[i] : i \in DOMAIN avail'} = {avail[i] : i \in DOMAIN avail} \ {h}
    <3>1. 1 \in DOMAIN avail
      BY <1>5, <1>7
    <3>2. \A i \in DOMAIN avail' : avail'[i] \in {avail[m] : m \in DOMAIN avail} \ {h}
      BY <3>1, <2>1, <2>2, <1>7
    <3>3. ASSUME NEW i \in DOMAIN avail, avail[i] # h PROVE avail[i] \in {avail'[m] : m \in DOMAIN avail'}
      <4>1. i - 1 \in DOMAIN avail' /\ (i - 1) + 1 = i
        BY <3>3, <2>3, <1>7
      <4>2. avail'[i - 1] = avail[i]
        BY <4>1, <1>7
      <4> QED
        BY <4>1, <4>2
    <3> QED
      BY <3>2, <3>3
  <2>5. \A i, m \in DOMAIN avail' : avail'[i] = avail'[m] => i = m
    <3> SUFFICES ASSUME NEW i \in DOMAIN avail', NEW m \in DOMAIN avail', avail'[i] = avail'[m]
                 PROVE  i = m
      OBVIOUS
    <3>1. avail[i + 1] = avail[m + 1]
      BY <1>7
    <3>2. i + 1 = m + 1
      BY <3>1, <2>1, <2>2
    <3>3. i \in Int /\ m \in Int
      BY <1>7
    <3> QED
      BY <3>2, <3>3
  <2>6. {avail'[i] : i \in DOMAIN avail'} = Slot \ Share!Busy'
    BY <2>1, <2>4, <1>11
  <2> QED
    BY <2>5, <2>6, <1>6, <1>12 DEF SlotsSound
<1>14. ShareType'
  <2>1. task' \in [Slot -> Share!Task \cup {None}]
    BY <1>3, <1>6, <1>9
  <2>2. active' \in 0 .. Share!Cardinality(Slot)
    BY <1>5, <1>6, ShareCardinality
  <2> QED
    BY <1>1, <1>2, <1>3, <1>6, <1>7, <2>1, <2>2 DEF ShareType, Share!TypeOK
<1>15. ASSUME NEW u \in Slot, task[u] # None, task[u].job = j PROVE task[u].attempt # attempt[j] + 1
  <2>1. task[u].attempt <= attempt[j] /\ task[u].attempt \in Nat
    BY <1>15, <1>3, BusyTask DEF ShareInv, AttemptsSound, Share!Task
  <2> QED
    BY <2>1, <1>2
<1>16. AttemptsSound'
  <2>1. \A s \in Slot : task'[s] # None => task'[s].attempt <= attempt'[task'[s].job]
    <3> SUFFICES ASSUME NEW s \in Slot, task'[s] # None
                 PROVE  task'[s].attempt <= attempt'[task'[s].job]
      OBVIOUS
    <3>1. CASE s = h
      <4>1. attempt'[j] = attempt[j] + 1
        BY <1>2, <1>3 DEF ShareType, Share!TypeOK
      <4> QED
        BY <3>1, <4>1, <1>2, <1>9, <1>10
    <3>2. CASE s # h
      BY <3>2, <1>2, <1>10
    <3> QED
      BY <3>1, <3>2
  <2>2. \A s, u \in Slot :
          task'[s] # None /\ task'[u] # None /\ task'[s].job = task'[u].job
            /\ task'[s].attempt = task'[u].attempt => s = u
    BY <1>9, <1>10, <1>15 DEF ShareInv, AttemptsSound
  <2> QED
    BY <2>1, <2>2, <1>2 DEF AttemptsSound
<1>17. ASSUME NEW u \in Slot PROVE ResultSound(u)'
  <2>1. CASE u # h
    BY <2>1, <1>2, <1>10 DEF ShareInv, ResultsSound, ResultSound, ResultOf
  <2>2. CASE u = h
    <3>1. ResultOf(u)' = Share!Report("result", j, attempt[j] + 1)
      BY <2>2, <1>9, <1>10 DEF ResultOf
    <3>2. \A r \in applied : r # Share!Report("result", j, attempt[j] + 1)
      <4> SUFFICES ASSUME NEW r \in applied, r.job = j, r.attempt = attempt[j] + 1 PROVE FALSE
        BY DEF Share!Report
      <4>1. r.attempt <= attempt[j]
        BY DEF ShareInv, AttemptsSound
      <4> QED
        BY <4>1, <1>2
    <3>3. \A r \in wire : r.report # Share!Report("result", j, attempt[j] + 1)
      <4> SUFFICES ASSUME NEW r \in wire, r.report.job = j, r.report.attempt = attempt[j] + 1
                   PROVE  FALSE
        BY DEF Share!Report
      <4>1. r.report.attempt <= attempt[j]
        BY DEF ShareInv, AttemptsSound
      <4> QED
        BY <4>1, <1>2
    <3> QED
      BY <2>2, <3>1, <3>2, <3>3, <1>2, <1>9, <1>10 DEF ResultSound
  <2> QED
    BY <2>1, <2>2
<1>18. Share!ResultOnlyFromErasedSlot'
  BY <1>1, <1>9, <1>10 DEF ShareInv, Share!ResultOnlyFromErasedSlot, Share!In, Share!Began
<1>19. Share!CreditedIsSettled'
  BY <1>1, <1>2 DEF ShareInv, Share!CreditedIsSettled
<1> QED
  BY <1>13, <1>14, <1>16, <1>17, <1>18, <1>19 DEF ShareInv, ResultsSound

\* The steps of the loop, the operator and time.
LEMMA ShareNext == ShareInv /\ [Share!Next]_share => ShareInv'
<1> SUFFICES ASSUME ShareInv, [Share!Next]_share PROVE ShareInv'
  OBVIOUS
<1> USE DEF Share!serverVars, Share!loopVars, Share!operatorVars
<1>a. ShareType /\ SlotsSound /\ AttemptsSound /\ ResultsSound
      /\ Share!ResultOnlyFromErasedSlot /\ Share!CreditedIsSettled
  BY DEF ShareInv
<1>b. ASSUME UNCHANGED <<attempt, applied, wire, credited, task, kv>>
      PROVE  /\ AttemptsSound' /\ ResultsSound'
             /\ Share!ResultOnlyFromErasedSlot' /\ Share!CreditedIsSettled'
  BY <1>a, <1>b DEF AttemptsSound, ResultsSound, ResultSound, ResultOf,
    Share!ResultOnlyFromErasedSlot, Share!CreditedIsSettled, Share!In, Share!Began
<1>c. Share!Cardinality(Slot) = Cardinality(Slot) /\ Cardinality(Slot) \in Nat \ {0}
  BY ShareCardinality, SlotAssumption
<1>d. ASSUME \A s \in Slot : task'[s] = None, UNCHANGED <<applied, wire, credited>>,
             \A r \in applied : r.attempt <= attempt'[r.job],
             \A r \in wire : r.report.attempt <= attempt'[r.report.job]
      PROVE  /\ AttemptsSound' /\ ResultsSound'
             /\ Share!ResultOnlyFromErasedSlot' /\ Share!CreditedIsSettled'
  BY <1>a, <1>d DEF AttemptsSound, ResultsSound, ResultSound,
    Share!ResultOnlyFromErasedSlot, Share!CreditedIsSettled, Share!In
<1>1. ASSUME NEW s \in Slot, Share!ApplyJobTaskOutcome(s) PROVE ShareInv'
  BY <1>1, OutcomeKeeps
<1>2. ASSUME NEW j \in Job, Share!ClaimJob(j) PROVE ShareInv'
  BY <1>2, ClaimKeeps
<1>3. ASSUME NEW s \in Slot, Share!Execute(s) \/ Share!Post(s) PROVE ShareInv'
  BY <1>3, ExecuteKeeps, PostKeeps
<1>4. ASSUME NEW r \in wire, Share!LateArrival(r) PROVE ShareInv'
  BY <1>4, LateKeeps
<1>5. CASE Share!DrainedExit
  <2>1. /\ pc' = "exited"
        /\ UNCHANGED <<lease, attempt, applied, wire, limit, avail, active, credited, task, kv,
                       policy, stop>>
    BY <1>5 DEF Share!DrainedExit
  <2>2. ShareType' /\ SlotsSound'
    BY <2>1, <1>a DEF ShareType, Share!TypeOK, SlotsSound
  <2> QED
    BY <2>1, <2>2, <1>b DEF ShareInv
<1>6. CASE Share!HeartbeatAccepted
  <2>1. /\ pc = "top" /\ pc' = "claim" /\ active < policy /\ limit' = policy
        /\ UNCHANGED <<lease, attempt, applied, wire, avail, active, credited, task, kv,
                       policy, stop>>
    BY <1>6 DEF Share!HeartbeatAccepted
  <2>2. ShareType' /\ SlotsSound'
    BY <2>1, <1>a DEF ShareType, Share!TypeOK, SlotsSound, Share!Busy
  <2> QED
    BY <2>1, <2>2, <1>b DEF ShareInv
<1>7. CASE Share!ClaimNothing
  <2>1. /\ pc = "claim" /\ pc' = "top"
        /\ UNCHANGED <<lease, attempt, applied, wire, limit, avail, active, credited, task, kv,
                       policy, stop>>
    BY <1>7 DEF Share!ClaimNothing
  <2>2. ShareType' /\ SlotsSound'
    BY <2>1, <1>a DEF ShareType, Share!TypeOK, SlotsSound, Share!Busy
  <2> QED
    BY <2>1, <2>2, <1>b DEF ShareInv
<1>8. ASSUME NEW j \in Job, Share!ClaimAnswerLost(j) PROVE ShareInv'
  <2>1. /\ pc = "claim" /\ pc' = "top" /\ Share!Lease(j)
        /\ UNCHANGED <<limit, avail, active, credited, task, kv, policy, stop>>
    BY <1>8 DEF Share!ClaimAnswerLost
  <2>2. /\ attempt' \in [Job -> 0 .. MaxLeases]
        /\ lease' \in [Job -> {"queued", "live", "lapsed", "settled", "failed"}]
        /\ UNCHANGED <<applied, wire>>
        /\ \A r \in applied : r.attempt <= attempt'[r.job]
        /\ \A r \in wire : r.report.attempt <= attempt'[r.report.job]
        /\ \A s \in Slot : task[s] # None => task[s].attempt <= attempt'[task[s].job]
    BY <2>1, Leased
  <2>3. ShareType' /\ SlotsSound'
    BY <2>1, <2>2, <1>a DEF ShareType, Share!TypeOK, SlotsSound, Share!Busy
  <2>4. AttemptsSound'
    BY <2>1, <2>2, <1>a DEF AttemptsSound
  <2>5. /\ ResultsSound' /\ Share!ResultOnlyFromErasedSlot' /\ Share!CreditedIsSettled'
    BY <2>1, <2>2, <1>a DEF ResultsSound, ResultSound, ResultOf,
      Share!ResultOnlyFromErasedSlot, Share!CreditedIsSettled, Share!In, Share!Began
  <2> QED
    BY <2>3, <2>4, <2>5 DEF ShareInv
<1>9. CASE Share!WorkerAborts
  <2>1. /\ pc' = "exited" /\ task' = [s \in Slot |-> None]
        /\ UNCHANGED <<lease, attempt, applied, wire, limit, avail, active, credited, kv,
                       policy, stop>>
    BY <1>9 DEF Share!WorkerAborts
  <2>2. ShareType' /\ SlotsSound'
    BY <2>1, <1>a DEF ShareType, Share!TypeOK, SlotsSound
  <2> QED
    BY <2>1, <2>2, <1>a, <1>d DEF ShareInv, AttemptsSound
<1>10. CASE Share!StartWorker
  <2>1. /\ pc' = "top" /\ task' = [s \in Slot |-> None] /\ stop' = FALSE
        /\ avail' = Share!SlotQueue /\ active' = 0
        /\ UNCHANGED <<lease, attempt, applied, wire, limit, credited, kv, policy>>
    BY <1>10 DEF Share!StartWorker
  <2>2. /\ avail' \in Seq(Slot) /\ {avail'[i] : i \in DOMAIN avail'} = Slot
        /\ \A i, m \in DOMAIN avail' : avail'[i] = avail'[m] => i = m
    BY <2>1, QueueOfSlots
  <2>3. ShareType'
    <3>1. active' \in 0 .. Share!Cardinality(Slot)
      BY <2>1, <1>c
    <3>2. task' \in [Slot -> Share!Task \cup {None}]
      BY <2>1
    <3> QED
      BY <2>1, <2>2, <3>1, <3>2, <1>a DEF ShareType, Share!TypeOK
  <2>4. Share!Busy' = {}
    BY <2>1 DEF Share!Busy
  <2>5. SlotsSound'
    BY <2>1, <2>2, <2>4, FS_EmptySet DEF SlotsSound
  <2> QED
    BY <2>1, <2>3, <2>5, <1>a, <1>d DEF ShareInv, AttemptsSound
<1>11. ASSUME NEW j \in Job, Share!LeaseLapses(j) PROVE ShareInv'
  <2>1. /\ lease' = [lease EXCEPT ![j] = IF attempt[j] = MaxLeases THEN "failed" ELSE "lapsed"]
        /\ UNCHANGED <<attempt, applied, wire, pc, limit, avail, active, credited, task, kv,
                       policy, stop>>
    BY <1>11 DEF Share!LeaseLapses
  <2>2. ShareType' /\ SlotsSound'
    BY <2>1, <1>a DEF ShareType, Share!TypeOK, SlotsSound, Share!Busy
  <2> QED
    BY <2>1, <2>2, <1>b DEF ShareInv
<1>12. ASSUME NEW n \in 1 .. Share!Cardinality(Slot), Share!PolicySet(n) PROVE ShareInv'
  <2>1. /\ policy' = n
        /\ UNCHANGED <<lease, attempt, applied, wire, pc, limit, avail, active, credited, task,
                       kv, stop>>
    BY <1>12 DEF Share!PolicySet
  <2>2. ShareType' /\ SlotsSound'
    BY <2>1, <1>a DEF ShareType, Share!TypeOK, SlotsSound, Share!Busy
  <2> QED
    BY <2>1, <2>2, <1>b DEF ShareInv
<1>13. CASE Share!RequestStop
  <2>1. /\ stop' = TRUE
        /\ UNCHANGED <<lease, attempt, applied, wire, pc, limit, avail, active, credited, task,
                       kv, policy>>
    BY <1>13 DEF Share!RequestStop
  <2>2. ShareType' /\ SlotsSound'
    BY <2>1, <1>a DEF ShareType, Share!TypeOK, SlotsSound, Share!Busy
  <2> QED
    BY <2>1, <2>2, <1>b DEF ShareInv
<1>14. CASE UNCHANGED share
  <2>1. UNCHANGED <<lease, attempt, applied, wire, pc, limit, avail, active, credited, task,
                   kv, policy, stop>>
    BY <1>14 DEF share
  <2>2. ShareType' /\ SlotsSound'
    BY <2>1, <1>a DEF ShareType, Share!TypeOK, SlotsSound, Share!Busy
  <2> QED
    BY <2>1, <2>2, <1>b DEF ShareInv
<1> QED
  BY <1>1, <1>2, <1>3, <1>4, <1>5, <1>6, <1>7, <1>8, <1>9, <1>10, <1>11, <1>12, <1>13, <1>14
     DEF Share!Next, Share!Loop

LEMMA ShareInit == Share!Init => ShareInv
<1> SUFFICES ASSUME Share!Init PROVE ShareInv
  OBVIOUS
<1>1. /\ avail = Share!SlotQueue /\ active = 0 /\ pc = "top" /\ applied = {} /\ wire = {}
      /\ task = [s \in Slot |-> None] /\ credited = {}
  BY DEF Share!Init
<1>2. /\ avail \in Seq(Slot) /\ {avail[i] : i \in DOMAIN avail} = Slot
      /\ \A i, m \in DOMAIN avail : avail[i] = avail[m] => i = m
  BY <1>1, QueueOfSlots
<1>3. Share!Cardinality(Slot) \in Nat \ {0} /\ MaxLeases \in Nat
  BY ShareCardinality, SlotAssumption, ShareAssumption
<1>4. ShareType
  <2>1. /\ active \in 0 .. Share!Cardinality(Slot)
        /\ limit \in 1 .. Share!Cardinality(Slot) /\ policy \in 1 .. Share!Cardinality(Slot)
    BY <1>3 DEF Share!Init
  <2>2. task \in [Slot -> Share!Task \cup {None}] /\ kv \in [Slot -> Tokens \cup {None}]
    BY DEF Share!Init
  <2>3. attempt \in [Job -> 0 .. MaxLeases]
    BY <1>3 DEF Share!Init
  <2>4. lease \in [Job -> {"queued", "live", "lapsed", "settled", "failed"}]
    BY DEF Share!Init
  <2> QED
    BY <1>1, <1>2, <2>1, <2>2, <2>3, <2>4 DEF Share!Init, ShareType, Share!TypeOK
<1>5. Share!Busy = {}
  BY <1>1 DEF Share!Busy
<1>6. SlotsSound
  BY <1>1, <1>2, <1>5, FS_EmptySet DEF SlotsSound
<1> QED
  BY <1>1, <1>4, <1>6 DEF ShareInv, AttemptsSound, ResultsSound, ResultSound,
    Share!ResultOnlyFromErasedSlot, Share!CreditedIsSettled, Share!In

\* The invariant says what the run checks.
LEMMA ShareSafe == ShareInv => LeasesReported
<1> SUFFICES ASSUME ShareInv PROVE LeasesReported
  OBVIOUS
<1>1. Share!TypeOK /\ Share!ResultOnlyFromErasedSlot /\ Share!CreditedIsSettled
  BY DEF ShareInv, ShareType
<1>2. Share!NoFailureAfterResult
  <2> SUFFICES ASSUME NEW s \in Slot, Share!In(s, {"submit"}), task[s].kind = "failure"
               PROVE  ResultOf(s) \notin applied /\ \A r \in wire : r.report = ResultOf(s) => ~ r.valid
    BY DEF Share!NoFailureAfterResult, ResultOf
  <2> QED
    BY DEF ShareInv, ResultsSound, ResultSound, Share!In
<1>3. Share!SlotsExact
  <2> SUFFICES ASSUME pc # "exited"
               PROVE  /\ {avail[i] : i \in DOMAIN avail} = Slot \ Share!Busy
                      /\ Len(avail) = Cardinality(Slot \ Share!Busy)
                      /\ active = Cardinality(Share!Busy)
                      /\ pc = "claim" => avail # <<>> /\ active < limit
    BY ShareCardinality DEF Share!SlotsExact
  <2>1. ShareType /\ SlotsSound
    BY DEF ShareInv
  <2>2. Len(avail) = Cardinality(Slot \ Share!Busy)
    BY <2>1, FreeCount
  <2>3. ASSUME pc = "claim" PROVE avail # <<>> /\ active < limit
    <3>1. active < limit /\ active = Cardinality(Share!Busy)
      BY <2>1, <2>3 DEF SlotsSound
    <3>2. limit \in 1 .. Cardinality(Slot) /\ active \in Nat /\ Cardinality(Slot) \in Nat
      BY <2>1, ShareCardinality, SlotAssumption DEF ShareType, Share!TypeOK
    <3>3. Len(avail) = Cardinality(Slot) - active
      BY <2>1, <2>2, <3>1, SlotsCounted
    <3>4. Len(avail) > 0
      BY <3>1, <3>2, <3>3
    <3> QED
      BY <3>1, <3>4
  <2> QED
    BY <2>1, <2>2, <2>3 DEF SlotsSound
<1> QED
  BY <1>1, <1>2, <1>3 DEF LeasesReported

\* Every slot of the worker is free once or owned by one task, a result leaves only
\* from an erased slot, no failure is reported while the result of the attempt may
\* be settled, and only what was settled counts (run_worker_loop,
\* process_claimed_job, submit_with_retry), for any number of jobs, slots, leases
\* and tries, whatever is lost, delayed or aborted.
THEOREM LeasesAlwaysReported == Spec => []LeasesReported
<1>1. Init => ShareInv
  BY ShareInit DEF Init
<1>2. ShareInv /\ [Next]_vars => ShareInv'
  BY PartSteps, ShareNext
<1> QED
  BY <1>1, <1>2, ShareSafe, PTL DEF Spec

-----------------------------------------------------------------------------
(***************************************************************************)
(* The stream of one inference.  What is uploaded, being uploaded and      *)
(* still in the channel is, in this order, the stream as far as it has     *)
(* been read, until an upload fails: from then on nothing is uploaded and  *)
(* no result is returned.                                                  *)
(***************************************************************************)
Usage == [prompt : {0, 1, MaxTokens}, tokens : 0 .. MaxTokens, tps : BOOLEAN]
Accumulated ==
  [seen : SUBSET Choice, visible : SUBSET Choice, finished : SUBSET Choice,
   first_token : BOOLEAN, stats : Nat, usage : Seq(Usage)]
Mark == [sequence : Nat, done : BOOLEAN]
Item == Mark \cup [sequence : Nat, done : BOOLEAN, model : {"authorized"}, wide : BOOLEAN]

StreamType ==
  /\ stream_kind \in {"chat", "completion"} /\ forwarding \in BOOLEAN
  /\ read \in Nat /\ saw_done \in BOOLEAN /\ broken \in BOOLEAN /\ obeyed \in BOOLEAN
  /\ inference \in {"reading", "failed", "complete"}
  /\ outcome \in {"waiting", "result", "error"}
  /\ channel \in Seq(Item) /\ Len(channel) <= Capacity
  /\ uploading \in Seq(Item) /\ Len(uploading) <= 1
  /\ uploaded \in Seq(Mark)

\* Statistics and choices, and what a complete stream has.
AccSound(a) ==
  /\ a \in Accumulated
  /\ a.stats <= Cardinality(a.finished)
  /\ a.stats > 0 => Len(a.usage) = 1
\* The counts of an engine that reports no more than it was asked for.
Counted(a) ==
  a.usage # <<>> =>
    a.usage[1].prompt \in 1 .. AuthorizedInput /\ a.usage[1].tokens <= PerChoice * a.stats
WholeAnswer ==
  /\ AccSound(acc)
  /\ obeyed => Counted(acc)
  /\ inference = "complete" =>
       /\ saw_done /\ acc.stats = Cardinality(Choice) /\ acc.finished = Choice
       /\ stream_kind = "chat" => 0 \in acc.visible

\* An event of the stream at a position counted from zero.
At(x, position) ==
  x.sequence = position /\ (x.done <=> inference = "complete" /\ position = read)
Sent == read + IF inference = "complete" THEN 1 ELSE 0

InOrder ==
  /\ ~forwarding => channel = <<>> /\ uploading = <<>> /\ uploaded = <<>>
  /\ broken => uploading = <<>>
  /\ Stream!UploadsInOrder
  /\ forwarding /\ ~broken =>
       /\ Len(uploaded) + Len(uploading) + Len(channel) = Sent
       /\ \A i \in DOMAIN uploaded : At(uploaded[i], i - 1)
       /\ uploading # <<>> => At(uploading[1], Len(uploaded))
       /\ \A i \in DOMAIN channel : At(channel[i], Len(uploaded) + Len(uploading) + i - 1)

Returned ==
  /\ outcome = "result" =>
       inference = "complete" /\ ~broken /\ channel = <<>> /\ uploading = <<>>
  /\ Stream!ResultAccepted

StreamInv == StreamType /\ WholeAnswer /\ InOrder /\ Returned

LEMMA StreamCardinality == ASSUME NEW S PROVE Stream!Cardinality(S) = Cardinality(S)
  BY DEF Stream!Cardinality, Cardinality

LEMMA ChoicesCounted ==
  ASSUME NEW S, S \subseteq Choice
  PROVE  /\ IsFiniteSet(S) /\ Cardinality(S) \in Nat /\ Cardinality(Choice) \in Nat \ {0}
         /\ Cardinality(S) <= Cardinality(Choice)
<1>1. IsFiniteSet(Choice) /\ Choice # {}
  BY StreamAssumption
<1>2. /\ IsFiniteSet(S) /\ Cardinality(S) \in Nat /\ Cardinality(Choice) \in Nat
      /\ Cardinality(S) <= Cardinality(Choice)
  BY <1>1, FS_Subset, FS_CardinalityType
<1>3. Cardinality(Choice) # 0
  BY <1>1, FS_EmptySet
<1> QED
  BY <1>2, <1>3

\* Statistics stay within their range and belong to a finished choice.
LEMMA StatsObserved ==
  ASSUME AccSound(acc), NEW u \in Stream!Stats, NEW fin, fin \subseteq Choice,
         acc.finished \subseteq fin, Stream!ObserveTerminalStats(fin, u)
  PROVE  /\ Stream!MergedUsage(u) \in Seq(Usage) /\ Len(Stream!MergedUsage(u)) = 1
         /\ acc.stats + 1 <= Cardinality(fin) /\ acc.stats + 1 \in Nat
<1>1. /\ acc \in Accumulated /\ acc.stats \in Nat /\ acc.usage \in Seq(Usage)
      /\ Cardinality(fin) \in Nat
  BY ChoicesCounted DEF AccSound, Accumulated
<1>2. Cardinality(fin) > acc.stats /\ Stream!MergeStreamUsage(u)
  BY StreamCardinality DEF Stream!ObserveTerminalStats
<1>3. u \in Usage
  BY StreamAssumption DEF Stream!Stats, Usage
<1>4. CASE acc.usage = <<>>
  <2>1. Stream!MergedUsage(u) = <<u>>
    BY <1>4 DEF Stream!MergedUsage
  <2> QED
    BY <2>1, <1>1, <1>2, <1>3
<1>5. CASE acc.usage # <<>>
  <2> DEFINE v == acc.usage[1]  w == [v EXCEPT !.tokens = v.tokens + u.tokens]
  <2>1. v \in Usage
    BY <1>1, <1>5
  <2>2. v.tokens + u.tokens <= MaxTokens
    BY <1>2, <1>5 DEF Stream!MergeStreamUsage
  <2>3. v.tokens + u.tokens \in 0 .. MaxTokens
    BY <2>1, <2>2, <1>3, StreamAssumption DEF Usage
  <2>4. w \in Usage
    BY <2>1, <2>3 DEF Usage
  <2>5. Stream!MergedUsage(u) = <<w>>
    BY <1>5, <2>1 DEF Stream!MergedUsage, Usage
  <2> HIDE DEF w
  <2> QED
    BY <2>4, <2>5, <1>1, <1>2
<1> QED
  BY <1>4, <1>5

\* An accepted event keeps the accumulator sound.
LEMMA Observed ==
  ASSUME AccSound(acc), NEW e \in Stream!Event, Stream!Accepts(e)
  PROVE  AccSound(Stream!Observe(e))
<1> DEFINE o == Stream!Observe(e)
<1>1. acc \in Accumulated /\ acc.stats \in Nat /\ acc.finished \subseteq Choice
      /\ acc.stats <= Cardinality(acc.finished) /\ (acc.stats > 0 => Len(acc.usage) = 1)
  BY DEF AccSound, Accumulated
<1>2. CASE e.type = "text"
  <2>1. e.choice \in Choice
    BY <1>2 DEF Stream!Event
  <2>2. o = [acc EXCEPT !.seen = acc.seen \cup {e.choice},
                        !.visible = IF e.content = "word" THEN acc.visible \cup {e.choice} ELSE acc.visible,
                        !.first_token = TRUE]
    BY <1>1, <1>2 DEF Stream!Observe, Accumulated
  <2> DEFINE n == acc.seen \cup {e.choice}
             v == IF e.content = "word" THEN acc.visible \cup {e.choice} ELSE acc.visible
  <2>3. n \in SUBSET Choice /\ v \in SUBSET Choice
    BY <1>1, <2>1 DEF Accumulated
  <2>4. o = [acc EXCEPT !.seen = n, !.visible = v, !.first_token = TRUE]
    BY <2>2
  <2> HIDE DEF n, v, o
  <2>5. o \in Accumulated /\ o.stats = acc.stats /\ o.finished = acc.finished /\ o.usage = acc.usage
    BY <1>1, <2>3, <2>4 DEF Accumulated
  <2> QED
    BY <1>1, <2>5 DEF AccSound, o
<1>3. CASE e.type = "finish"
  <2>1. e.choice \in Choice
    BY <1>3 DEF Stream!Event
  <2>2. o = [acc EXCEPT !.seen = acc.seen \cup {e.choice}, !.finished = acc.finished \cup {e.choice}]
    BY <1>1, <1>3 DEF Stream!Observe, Accumulated
  <2>3. /\ o \in Accumulated /\ o.stats = acc.stats /\ o.usage = acc.usage
        /\ o.finished = acc.finished \cup {e.choice}
    BY <1>1, <2>1, <2>2 DEF Accumulated
  <2>4. /\ Cardinality(acc.finished) <= Cardinality(o.finished)
        /\ Cardinality(acc.finished) \in Nat /\ Cardinality(o.finished) \in Nat
    <3>1. IsFiniteSet(acc.finished) /\ IsFiniteSet(o.finished)
      BY <1>1, <2>1, <2>3, ChoicesCounted
    <3> QED
      BY <3>1, <2>3, FS_Subset, FS_CardinalityType
  <2> QED
    BY <1>1, <2>3, <2>4 DEF AccSound
<1>4. CASE e.type = "stats"
  <2>1. e.stats \in Stream!Stats
    BY <1>4 DEF Stream!Event
  <2>2. Stream!ObserveTerminalStats(acc.finished, e.stats)
    BY <1>4 DEF Stream!Accepts
  <2>3. /\ Stream!MergedUsage(e.stats) \in Seq(Usage) /\ Len(Stream!MergedUsage(e.stats)) = 1
        /\ acc.stats + 1 <= Cardinality(acc.finished) /\ acc.stats + 1 \in Nat
    BY <1>1, <2>1, <2>2, StatsObserved
  <2>4. o = [acc EXCEPT !.stats = acc.stats + 1, !.usage = Stream!MergedUsage(e.stats)]
    BY <1>1, <1>4 DEF Stream!Observe, Accumulated
  <2>5. /\ o \in Accumulated /\ o.stats = acc.stats + 1 /\ o.usage = Stream!MergedUsage(e.stats)
        /\ o.finished = acc.finished
    BY <1>1, <2>3, <2>4 DEF Accumulated
  <2> QED
    BY <2>3, <2>5 DEF AccSound
<1>5. CASE e.type = "last"
  <2>1. e.choice \in Choice /\ e.stats \in Stream!Stats
    BY <1>5 DEF Stream!Event
  <2>2. Stream!ObserveTerminalStats(acc.finished \cup {e.choice}, e.stats)
    BY <1>5 DEF Stream!Accepts
  <2> DEFINE f == acc.finished \cup {e.choice}
  <2>3. f \subseteq Choice /\ acc.finished \subseteq f
    BY <1>1, <2>1
  <2> HIDE DEF f
  <2>4. /\ Stream!MergedUsage(e.stats) \in Seq(Usage) /\ Len(Stream!MergedUsage(e.stats)) = 1
        /\ acc.stats + 1 <= Cardinality(f) /\ acc.stats + 1 \in Nat
    BY <2>1, <2>2, <2>3, StatsObserved DEF f
  <2>5. o = [acc EXCEPT !.seen = acc.seen \cup {e.choice}, !.finished = f,
                        !.stats = acc.stats + 1, !.usage = Stream!MergedUsage(e.stats)]
    BY <1>1, <1>5 DEF Stream!Observe, Accumulated, f
  <2> DEFINE n == acc.seen \cup {e.choice}  m == Stream!MergedUsage(e.stats)  c == acc.stats + 1
  <2>6. n \in SUBSET Choice /\ f \in SUBSET Choice /\ m \in Seq(Usage) /\ c \in Nat
    BY <1>1, <2>1, <2>3, <2>4 DEF Accumulated
  <2>7. o = [acc EXCEPT !.seen = n, !.finished = f, !.stats = c, !.usage = m]
    BY <2>5
  <2> HIDE DEF n, m, c, o
  <2>8. o \in Accumulated /\ o.stats = c /\ o.usage = m /\ o.finished = f
    BY <1>1, <2>6, <2>7 DEF Accumulated
  <2> QED
    BY <2>4, <2>8 DEF AccSound, o, m, c
<1>6. e.type \in {"text", "finish", "stats", "last"}
  BY DEF Stream!Event
<1> QED
  BY <1>2, <1>3, <1>4, <1>5, <1>6

\* Each choice adds no more than its own output.
LEMMA OneMore ==
  ASSUME NEW t \in Nat, NEW v \in Nat, NEW n \in Nat, t <= PerChoice * n, v <= PerChoice
  PROVE  t + v <= PerChoice * (n + 1)
<1> DEFINE m == PerChoice * n
<1>1. PerChoice \in Nat
  BY StreamAssumption
<1>2. PerChoice * (n + 1) = m + PerChoice /\ m \in Nat
  BY <1>1
<1>3. t <= m
  OBVIOUS
<1> HIDE DEF m
<1> QED
  BY <1>1, <1>2, <1>3

\* An engine that obeys leaves counts within what the choices so far may have.
LEMMA ObservedCounted ==
  ASSUME AccSound(acc), Counted(acc), NEW e \in Stream!Event, Stream!Accepts(e),
         e.type \in {"stats", "last"} => Stream!Obeys(e.stats)
  PROVE  Counted(Stream!Observe(e))
<1> DEFINE o == Stream!Observe(e)
<1>1. acc \in Accumulated /\ acc.stats \in Nat /\ acc.usage \in Seq(Usage)
  BY DEF AccSound, Accumulated
<1>2. /\ e.type \in {"stats", "last"} =>
           o.stats = acc.stats + 1 /\ o.usage = Stream!MergedUsage(e.stats)
      /\ e.type \notin {"stats", "last"} => o.stats = acc.stats /\ o.usage = acc.usage
  BY <1>1 DEF Stream!Observe, Accumulated
<1> HIDE DEF o
<1>3. CASE e.type \notin {"stats", "last"}
  BY <1>2, <1>3 DEF Counted, o
<1>4. CASE e.type \in {"stats", "last"}
  <2>1. PICK u \in Stream!Stats : u = e.stats
    BY <1>4 DEF Stream!Event
  <2>2. Stream!Obeys(u) /\ Stream!MergeStreamUsage(u)
    BY <1>4, <2>1 DEF Stream!Accepts, Stream!ObserveTerminalStats
  <2>3. /\ u.prompt \in 1 .. AuthorizedInput /\ u.tokens <= PerChoice /\ u.tokens \in Nat
        /\ u \in [prompt : {0, 1, MaxTokens}, tokens : {0, 1, MaxTokens}, tps : BOOLEAN]
    BY <2>2, StreamAssumption DEF Stream!Obeys, Stream!Stats
  <2>4. CASE acc.usage = <<>>
    <3>1. o.usage = <<u>>
      BY <2>1, <2>4, <1>2, <1>4 DEF Stream!MergedUsage
    <3>2. u.tokens <= PerChoice * (acc.stats + 1)
      <4>1. 0 <= PerChoice * acc.stats
        BY <1>1, StreamAssumption
      <4>2. 0 + u.tokens <= PerChoice * (acc.stats + 1)
        BY <4>1, <1>1, <2>3, OneMore
      <4> QED
        BY <4>2, <2>3
    <3>3. o.usage[1] = u /\ o.stats = acc.stats + 1
      BY <3>1, <1>2, <1>4
    <3> QED
      BY <3>2, <3>3, <2>3 DEF Counted, o
  <2>5. CASE acc.usage # <<>>
    <3>1. PICK v \in Usage : v = acc.usage[1]
      BY <1>1, <2>5
    <3>2. v.prompt = u.prompt /\ v.tokens <= PerChoice * acc.stats /\ v.tokens \in Nat
      BY <3>1, <2>2, <2>5, StreamAssumption DEF Counted, Stream!MergeStreamUsage, Usage
    <3>3. v.tokens + u.tokens <= PerChoice * (acc.stats + 1)
      BY <3>2, <1>1, <2>3, OneMore
    <3>4. o.usage = <<[v EXCEPT !.tokens = v.tokens + u.tokens]>>
      BY <2>1, <2>5, <3>1, <1>2, <1>4 DEF Stream!MergedUsage, Usage
    <3>5. o.usage[1].prompt = v.prompt /\ o.usage[1].tokens = v.tokens + u.tokens
      BY <3>1, <3>4 DEF Usage
    <3>6. o.stats = acc.stats + 1
      BY <1>2, <1>4
    <3> QED
      BY <3>2, <3>3, <3>5, <3>6, <2>3 DEF Counted, o
  <2> QED
    BY <2>4, <2>5
<1> QED
  BY <1>3, <1>4

\* The reader sends the next event of the stream, or the marker of its end.
LEMMA SentKeeps ==
  ASSUME StreamInv, Stream!Polled, Stream!HasRoom, inference = "reading", NEW x \in Item,
         x.sequence = read, channel' = Stream!Sent(x),
         UNCHANGED <<forwarding, uploading, uploaded, broken>>,
         \/ x.done = FALSE /\ inference' = "reading" /\ read' = read + 1
         \/ x.done = TRUE /\ inference' = "complete" /\ read' = read
  PROVE  InOrder' /\ channel' \in Seq(Item) /\ Len(channel') <= Capacity
<1>1. /\ StreamType /\ read \in Nat /\ channel \in Seq(Item) /\ Len(channel) \in Nat
      /\ DOMAIN channel = 1 .. Len(channel) /\ uploading = <<>>
      /\ Len(uploaded) \in Nat /\ DOMAIN uploaded = 1 .. Len(uploaded)
  BY DEF StreamInv, StreamType, Stream!Polled
<1>2. InOrder
  BY DEF StreamInv
<1>3. CASE ~forwarding
  <2>1. channel' = <<>> /\ uploading' = <<>> /\ uploaded' = <<>>
    BY <1>2, <1>3 DEF InOrder, Stream!Sent
  <2>2. Stream!UploadsInOrder'
    BY <2>1 DEF Stream!UploadsInOrder
  <2> QED
    BY <1>3, <2>1, <2>2, StreamAssumption DEF InOrder
<1>4. CASE forwarding
  <2>1. channel' = Append(channel, x) /\ Len(channel) < Capacity
    BY <1>4 DEF Stream!Sent, Stream!HasRoom
  <2>2. /\ channel' \in Seq(Item) /\ Len(channel') = Len(channel) + 1
        /\ DOMAIN channel' = 1 .. Len(channel) + 1
        /\ \A i \in DOMAIN channel : channel'[i] = channel[i]
        /\ channel'[Len(channel) + 1] = x
    BY <1>1, <2>1
  <2>3. Len(channel') <= Capacity
    BY <1>1, <2>1, <2>2, StreamAssumption
  <2>4. Stream!UploadsInOrder'
    <3>1. \A i \in DOMAIN uploaded : uploaded[i].sequence = i - 1 /\ ~ uploaded[i].done
      BY <1>2 DEF InOrder, Stream!UploadsInOrder
    <3> QED
      BY <3>1 DEF Stream!UploadsInOrder
  <2>5. ASSUME ~broken
        PROVE  /\ Len(uploaded') + Len(uploading') + Len(channel') = Sent'
               /\ \A i \in DOMAIN uploaded' : At(uploaded[i], i - 1)'
               /\ \A i \in DOMAIN channel' : At(channel[i], Len(uploaded) + Len(uploading) + i - 1)'
    <3>1. /\ Len(uploading) = 0 /\ Len(uploaded) + Len(channel) = read
          /\ \A i \in DOMAIN uploaded : uploaded[i].sequence = i - 1 /\ ~ uploaded[i].done
          /\ \A i \in DOMAIN channel : channel[i].sequence = Len(uploaded) + i - 1 /\ ~ channel[i].done
      <4>1. Len(uploading) = 0
        BY <1>1
      <4>2. Sent = read
        BY <1>1 DEF Sent
      <4>3. Len(uploaded) + Len(channel) = read
        BY <1>1, <1>2, <1>4, <2>5, <4>1, <4>2 DEF InOrder
      <4>4. \A i \in DOMAIN uploaded : uploaded[i].sequence = i - 1 /\ ~ uploaded[i].done
        BY <1>2, <1>4, <2>5 DEF InOrder, At
      <4>5. \A i \in DOMAIN channel : channel[i].sequence = Len(uploaded) + i - 1 /\ ~ channel[i].done
        BY <1>1, <1>2, <1>4, <2>5, <4>1 DEF InOrder, At
      <4> QED
        BY <4>1, <4>3, <4>4, <4>5
    <3>2. Len(uploaded') + Len(uploading') + Len(channel') = Sent'
      BY <1>1, <2>2, <3>1 DEF Sent
    <3>3. \A i \in DOMAIN uploaded' : At(uploaded[i], i - 1)'
      BY <1>1, <3>1 DEF At
    <3>4. ASSUME NEW i \in DOMAIN channel'
          PROVE  At(channel[i], Len(uploaded) + Len(uploading) + i - 1)'
      <4>1. CASE i \in DOMAIN channel
        <5>1. channel'[i].sequence = Len(uploaded) + i - 1 /\ ~ channel'[i].done
          BY <4>1, <2>2, <3>1
        <5>2. Len(uploaded) + i - 1 # read
          BY <4>1, <1>1, <3>1
        <5> QED
          BY <5>1, <5>2, <1>1, <3>1, <4>1 DEF At
      <4>2. CASE i = Len(channel) + 1
        <5>1. channel'[i] = x /\ Len(uploaded) + i - 1 = read
          BY <4>2, <2>2, <1>1, <3>1
        <5> QED
          BY <5>1, <1>1, <3>1, <4>2 DEF At
      <4> QED
        BY <4>1, <4>2, <2>2, <1>1
    <3> QED
      BY <3>2, <3>3, <3>4
  <2> QED
    BY <1>1, <1>4, <2>2, <2>3, <2>4, <2>5 DEF InOrder
<1> QED
  BY <1>3, <1>4, <1>1 DEF StreamType

LEMMA StreamNext == StreamInv /\ [Stream!Next]_stream => StreamInv'
<1> SUFFICES ASSUME StreamInv, [Stream!Next]_stream PROVE StreamInv'
  OBVIOUS
<1> USE DEF Stream!readerVars, Stream!waitVars
<1>a. /\ StreamType /\ WholeAnswer /\ InOrder /\ Returned
      /\ channel \in Seq(Item) /\ uploading \in Seq(Item) /\ uploaded \in Seq(Mark)
      /\ Len(channel) \in Nat /\ Len(uploading) \in Nat /\ Len(uploaded) \in Nat
      /\ DOMAIN channel = 1 .. Len(channel) /\ DOMAIN uploaded = 1 .. Len(uploaded)
      /\ DOMAIN uploading = 1 .. Len(uploading) /\ read \in Nat
  BY DEF StreamInv, StreamType
<1>b. ASSUME UNCHANGED <<forwarding, read, inference, channel, uploading, uploaded, broken>>
      PROVE  InOrder'
  <2>1. InOrder
    BY <1>a
  <2>2. Stream!UploadsInOrder' <=> Stream!UploadsInOrder
    BY <1>b DEF Stream!UploadsInOrder
  <2>3. /\ \A i \in DOMAIN uploaded' : At(uploaded[i], i - 1)' <=> At(uploaded[i], i - 1)
        /\ At(uploading[1], Len(uploaded))' <=> At(uploading[1], Len(uploaded))
        /\ \A i \in DOMAIN channel' :
             At(channel[i], Len(uploaded) + Len(uploading) + i - 1)' <=>
               At(channel[i], Len(uploaded) + Len(uploading) + i - 1)
    BY <1>b DEF At
  <2>4. Sent' = Sent
    BY <1>b DEF Sent
  <2> QED
    BY <2>1, <2>2, <2>3, <2>4, <1>b DEF InOrder
<1>c. ASSUME outcome = "waiting", obeyed' => obeyed, UNCHANGED <<stream_kind, outcome, answer>>
      PROVE  Returned'
  BY <1>a, <1>c DEF Returned, Stream!ResultAccepted, Stream!ValidateStandardResult
<1>d. ASSUME UNCHANGED <<acc, inference, saw_done, obeyed, stream_kind>> PROVE WholeAnswer'
  BY <1>a, <1>d DEF WholeAnswer, AccSound, Counted
<1>1. ASSUME NEW e \in Stream!Event, Stream!ReadEvent(e) PROVE StreamInv'
  <2> DEFINE x == [sequence |-> read, done |-> FALSE, model |-> Stream!Normalized("local"),
                   wide |-> e.type = "text" /\ e.wide]
  <2>1. /\ Stream!Polled /\ Stream!HasRoom /\ inference = "reading" /\ Stream!Accepts(e)
        /\ acc' = Stream!Observe(e) /\ read' = read + 1 /\ channel' = Stream!Sent(x)
        /\ UNCHANGED <<stream_kind, forwarding, saw_done, inference, uploading, uploaded, broken,
                       outcome, answer>>
    BY <1>1 DEF Stream!ReadEvent
  <2>0. /\ obeyed' => obeyed /\ (e.type \in {"stats", "last"} => Stream!Obeys(e.stats))
        /\ obeyed' \in BOOLEAN
    BY <1>1, <1>a DEF Stream!ReadEvent, StreamType
  <2>2. x \in Item /\ x.sequence = read /\ x.done = FALSE
    <3>1. (e.type = "text" /\ e.wide) \in BOOLEAN
      <4>1. e.type = "text" => e.wide \in BOOLEAN
        BY DEF Stream!Event
      <4> QED
        BY <4>1
    <3> QED
      BY <3>1, <1>a DEF Item, Stream!Normalized
  <2> HIDE DEF x
  <2>3. InOrder' /\ channel' \in Seq(Item) /\ Len(channel') <= Capacity
    BY <2>1, <2>2, SentKeeps
  <2>4. WholeAnswer'
    <3>1. AccSound(acc)' /\ (obeyed' => Counted(acc)')
      BY <2>1, <2>0, <1>a, Observed, ObservedCounted DEF WholeAnswer, AccSound, Counted
    <3> QED
      BY <3>1, <2>1 DEF WholeAnswer
  <2>5. StreamType'
    BY <2>0, <2>1, <2>3, <1>a DEF StreamType
  <2> QED
    BY <2>0, <2>1, <2>3, <2>4, <2>5, <1>c DEF StreamInv, Stream!Polled
<1>2. CASE Stream!ReadDone
  <2>1. /\ outcome = "waiting" /\ inference = "reading" /\ saw_done' = TRUE
        /\ UNCHANGED <<stream_kind, forwarding, acc, read, inference, obeyed, channel, uploading,
                       uploaded, broken, outcome, answer>>
    BY <1>2 DEF Stream!ReadDone, Stream!Polled
  <2>2. WholeAnswer' /\ StreamType'
    BY <2>1, <1>a DEF WholeAnswer, AccSound, Counted, StreamType
  <2> QED
    BY <2>1, <2>2, <1>b, <1>c DEF StreamInv
<1>3. CASE Stream!ReadFails
  <2>1. /\ outcome = "waiting" /\ inference = "reading" /\ inference' = "failed"
        /\ UNCHANGED <<stream_kind, forwarding, acc, read, saw_done, obeyed, channel, uploading,
                       uploaded, broken, outcome, answer>>
    BY <1>3 DEF Stream!ReadFails, Stream!Polled
  <2>2. WholeAnswer' /\ StreamType'
    BY <2>1, <1>a DEF WholeAnswer, AccSound, Counted, StreamType
  <2>3. InOrder'
    BY <2>1, <1>a DEF InOrder, Stream!UploadsInOrder, At, Sent
  <2> QED
    BY <2>1, <2>2, <2>3, <1>c DEF StreamInv
<1>4. CASE Stream!ReadEnds
  <2> DEFINE x == [sequence |-> read, done |-> TRUE]
  <2>1. /\ Stream!Polled /\ Stream!HasRoom /\ inference = "reading" /\ Stream!Complete
        /\ inference' = "complete" /\ channel' = Stream!Sent(x)
        /\ UNCHANGED <<stream_kind, forwarding, acc, read, saw_done, obeyed, uploading, uploaded, broken,
                       outcome, answer>>
    BY <1>4 DEF Stream!ReadEnds
  <2>2. x \in Item /\ x.sequence = read /\ x.done = TRUE
    BY <1>a DEF Item, Mark
  <2> HIDE DEF x
  <2>3. InOrder' /\ channel' \in Seq(Item) /\ Len(channel') <= Capacity
    BY <2>1, <2>2, SentKeeps
  <2>4. WholeAnswer'
    BY <2>1, <1>a, StreamCardinality DEF WholeAnswer, AccSound, Counted, Stream!Complete
  <2>5. StreamType'
    BY <2>1, <2>3, <1>a DEF StreamType
  <2> QED
    BY <2>1, <2>3, <2>4, <2>5, <1>c DEF StreamInv, Stream!Polled
<1>5. CASE Stream!ReceiveEvent
  <2>1. /\ outcome = "waiting" /\ uploading = <<>> /\ channel # <<>>
        /\ channel' = Tail(channel) /\ uploading' = IF broken THEN <<>> ELSE <<Head(channel)>>
        /\ UNCHANGED <<stream_kind, forwarding, acc, read, saw_done, inference, obeyed, uploaded, broken,
                       outcome, answer>>
    BY <1>5 DEF Stream!ReceiveEvent, Stream!Polled
  <2>2. /\ channel' \in Seq(Item) /\ Len(channel') = Len(channel) - 1 /\ Len(channel) > 0
        /\ DOMAIN channel' = 1 .. Len(channel) - 1
        /\ \A i \in DOMAIN channel' : channel'[i] = channel[i + 1]
        /\ Head(channel) = channel[1] /\ Head(channel) \in Item /\ 1 \in DOMAIN channel
    BY <2>1, <1>a
  <2>3. /\ uploading' \in Seq(Item) /\ Len(uploading') <= 1
        /\ ~broken => Len(uploading') = 1 /\ uploading'[1] = channel[1]
    BY <2>1, <2>2
  <2>4. StreamType'
    BY <2>1, <2>2, <2>3, <1>a, StreamAssumption DEF StreamType
  <2>5. Stream!UploadsInOrder' /\ (broken' => uploading' = <<>>)
    BY <2>1, <1>a DEF InOrder, Stream!UploadsInOrder
  <2>6. forwarding
    BY <2>1, <1>a DEF InOrder, StreamType
  <2>7. ASSUME ~broken
        PROVE  /\ Len(uploaded') + Len(uploading') + Len(channel') = Sent'
               /\ \A i \in DOMAIN uploaded' : At(uploaded[i], i - 1)'
               /\ uploading' # <<>> => At(uploading[1], Len(uploaded))'
               /\ \A i \in DOMAIN channel' : At(channel[i], Len(uploaded) + Len(uploading) + i - 1)'
    <3>1. /\ Len(uploading) = 0 /\ Len(uploaded) + Len(channel) = Sent
          /\ \A i \in DOMAIN uploaded : At(uploaded[i], i - 1)
          /\ \A i \in DOMAIN channel : At(channel[i], Len(uploaded) + Len(uploading) + i - 1)
      BY <2>1, <2>6, <2>7, <1>a DEF InOrder
    <3>2. At(channel[1], Len(uploaded))
      <4>1. Len(uploaded) + Len(uploading) + 1 - 1 = Len(uploaded)
        BY <3>1, <1>a
      <4> QED
        BY <4>1, <3>1, <2>2
    <3>3. Len(uploaded') + Len(uploading') + Len(channel') = Sent'
      <4>1. Sent' = Sent
        BY <2>1 DEF Sent
      <4>2. Len(uploading') = 1 /\ Len(channel') = Len(channel) - 1 /\ Len(uploaded') = Len(uploaded)
        BY <2>1, <2>2, <2>3, <2>7
      <4> HIDE DEF Sent
      <4> QED
        BY <4>1, <4>2, <3>1, <1>a
    <3>4. uploading' # <<>> => At(uploading[1], Len(uploaded))'
      BY <2>1, <2>3, <2>7, <3>2 DEF At
    <3>5. ASSUME NEW i \in DOMAIN channel'
          PROVE  At(channel[i], Len(uploaded) + Len(uploading) + i - 1)'
      <4>1. i + 1 \in DOMAIN channel /\ channel'[i] = channel[i + 1] /\ i \in Int
        BY <2>2, <1>a
      <4>2. At(channel[i + 1], Len(uploaded) + Len(uploading) + (i + 1) - 1)
        BY <4>1, <3>1
      <4>3. Len(uploaded) + Len(uploading) + (i + 1) - 1 = Len(uploaded') + Len(uploading') + i - 1
        BY <4>1, <2>1, <2>3, <2>7, <3>1, <1>a
      <4> QED
        BY <4>1, <4>2, <4>3, <2>1 DEF At
    <3>6. \A i \in DOMAIN uploaded' : At(uploaded[i], i - 1)'
      BY <2>1, <3>1 DEF At
    <3> QED
      BY <3>3, <3>4, <3>5, <3>6
  <2>8. InOrder'
    BY <2>1, <2>5, <2>6, <2>7 DEF InOrder
  <2> QED
    BY <2>1, <2>4, <2>8, <1>c, <1>d DEF StreamInv
<1>6. CASE Stream!UploadSucceeds
  <2> DEFINE h == uploading[1]  y == [sequence |-> h.sequence, done |-> h.done]
  <2>1. /\ outcome = "waiting" /\ uploading # <<>> /\ uploading' = <<>>
        /\ uploaded' = Append(uploaded, y)
        /\ UNCHANGED <<stream_kind, forwarding, acc, read, saw_done, inference, obeyed, channel, broken,
                       outcome, answer>>
    BY <1>6, <1>a DEF Stream!UploadSucceeds
  <2>2. Len(uploading) = 1 /\ h \in Item /\ y \in Mark
    <3>1. Len(uploading) = 1 /\ h \in Item
      BY <2>1, <1>a DEF StreamType
    <3> QED
      BY <3>1 DEF Item, Mark
  <2>3. forwarding /\ ~broken
    BY <2>1, <1>a DEF InOrder, StreamType
  <2>4. /\ Len(uploaded) + 1 + Len(channel) = Sent
        /\ \A i \in DOMAIN uploaded : At(uploaded[i], i - 1)
        /\ At(h, Len(uploaded))
        /\ \A i \in DOMAIN channel : At(channel[i], Len(uploaded) + 1 + i - 1)
    BY <2>1, <2>2, <2>3, <1>a DEF InOrder
  <2> HIDE DEF h
  <2>5. At(y, Len(uploaded)) /\ y.sequence = h.sequence /\ y.done = h.done
    BY <2>4 DEF At
  <2> HIDE DEF y
  <2>6. /\ uploaded' \in Seq(Mark) /\ Len(uploaded') = Len(uploaded) + 1
        /\ DOMAIN uploaded' = 1 .. Len(uploaded) + 1
        /\ \A i \in DOMAIN uploaded : uploaded'[i] = uploaded[i]
        /\ uploaded'[Len(uploaded) + 1] = y
    BY <2>1, <2>2, <1>a
  <2>7. \A i \in DOMAIN uploaded' : At(uploaded'[i], i - 1)
    <3> SUFFICES ASSUME NEW i \in DOMAIN uploaded' PROVE At(uploaded'[i], i - 1)
      OBVIOUS
    <3>1. CASE i \in DOMAIN uploaded
      BY <3>1, <2>4, <2>6
    <3>2. CASE i = Len(uploaded) + 1
      <4>1. i - 1 = Len(uploaded)
        BY <3>2, <1>a
      <4> QED
        BY <4>1, <3>2, <2>5, <2>6
    <3> QED
      BY <3>1, <3>2, <2>6, <1>a
  <2>8. Stream!UploadsInOrder'
    <3> SUFFICES ASSUME NEW i \in DOMAIN uploaded'
                 PROVE  /\ uploaded'[i].sequence = i - 1
                        /\ uploaded'[i].done => inference' = "complete" /\ i = read' + 1
      BY DEF Stream!UploadsInOrder
    <3>1. At(uploaded'[i], i - 1) /\ i \in Int
      BY <2>6, <2>7
    <3> QED
      BY <3>1, <2>1, <1>a DEF At
  <2>9. /\ Len(uploaded') + Len(uploading') + Len(channel') = Sent'
        /\ \A i \in DOMAIN uploaded' : At(uploaded[i], i - 1)'
        /\ \A i \in DOMAIN channel' : At(channel[i], Len(uploaded) + Len(uploading) + i - 1)'
    <3>1. Len(uploading') = 0
      BY <2>1
    <3>2. Len(uploaded') + Len(uploading') + Len(channel') = Sent'
      BY <3>1, <2>1, <2>4, <2>6, <1>a DEF Sent
    <3>3. \A i \in DOMAIN uploaded' : At(uploaded[i], i - 1)'
      BY <2>1, <2>7 DEF At
    <3>4. ASSUME NEW i \in DOMAIN channel'
          PROVE  At(channel[i], Len(uploaded) + Len(uploading) + i - 1)'
      <4>1. At(channel[i], Len(uploaded) + 1 + i - 1) /\ i \in Int
        BY <2>1, <2>4, <1>a
      <4>2. Len(uploaded) + 1 + i - 1 = Len(uploaded') + Len(uploading') + i - 1
        BY <4>1, <3>1, <2>6, <1>a
      <4> QED
        BY <4>1, <4>2, <2>1 DEF At
    <3> QED
      BY <3>2, <3>3, <3>4
  <2>10. InOrder'
    BY <2>1, <2>3, <2>8, <2>9 DEF InOrder
  <2>11. StreamType'
    BY <2>1, <2>6, <1>a DEF StreamType
  <2> QED
    BY <2>1, <2>10, <2>11, <1>c, <1>d DEF StreamInv
<1>7. CASE Stream!UploadFails
  <2>1. /\ outcome = "waiting" /\ uploading # <<>> /\ uploading' = <<>> /\ broken' = TRUE
        /\ UNCHANGED <<stream_kind, forwarding, acc, read, saw_done, inference, obeyed, channel, uploaded,
                       outcome, answer>>
    BY <1>7 DEF Stream!UploadFails
  <2>2. StreamType' /\ InOrder'
    BY <2>1, <1>a DEF StreamType, InOrder, Stream!UploadsInOrder
  <2> QED
    BY <2>1, <2>2, <1>c, <1>d DEF StreamInv
<1>8. CASE Stream!WaitReturns
  <2> DEFINE whole == inference = "complete" /\ ~broken
  <2>1. /\ uploading = <<>> /\ channel = <<>>
        /\ outcome' = IF whole THEN "result" ELSE "error"
        /\ answer' = IF whole
                       THEN <<[model |-> Stream!Normalized("local"), visible |-> 0 \in acc.visible,
                               usage |-> acc.usage[1]]>>
                       ELSE <<>>
        /\ UNCHANGED <<stream_kind, forwarding, acc, read, saw_done, inference, obeyed, channel, uploading,
                       uploaded, broken>>
    BY <1>8 DEF Stream!WaitReturns, Stream!Polled, Stream!Drained
  <2>2. StreamType'
    BY <2>1, <1>a DEF StreamType
  <2>3. Stream!ResultAccepted'
    <3>1. CASE ~whole
      BY <2>1, <3>1 DEF Stream!ResultAccepted
    <3>2. CASE whole
      <4> DEFINE u == acc.usage[1]
      <4>1. /\ acc \in Accumulated /\ acc.stats = Cardinality(Choice)
            /\ stream_kind = "chat" => 0 \in acc.visible
        BY <3>2, <1>a DEF WholeAnswer, AccSound
      <4>2. acc.stats > 0 /\ Len(acc.usage) = 1
        BY <4>1, <1>a, ChoicesCounted DEF WholeAnswer, AccSound
      <4>3. u \in Usage
        BY <4>1, <4>2 DEF Accumulated
      <4>4. u.prompt <= MaxTokens /\ u.tokens <= MaxTokens
        BY <4>3, StreamAssumption DEF Usage
      <4>9. obeyed' => Stream!UsageAuthorized(u)
        <5> SUFFICES ASSUME obeyed' PROVE Stream!UsageAuthorized(u)
          OBVIOUS
        <5>0. Len(<<>>) = 0
          OBVIOUS
        <5>1. obeyed /\ acc.usage # <<>>
          <6>1. acc.usage # <<>>
            <7>1. Len(acc.usage) = 1
              BY <4>2
            <7>2. acc.usage = <<>> => Len(acc.usage) = 0
              <8> SUFFICES ASSUME acc.usage = <<>> PROVE Len(acc.usage) = 0
                OBVIOUS
              <8> QED
                BY <5>0, Zenon
            <7>3. 1 # 0
              OBVIOUS
            <7> QED
              BY <7>1, <7>2, <7>3, Zenon
          <6>2. obeyed' = obeyed
            BY <2>1
          <6> QED
            BY <6>1, <6>2
        <5>2. u.prompt \in 1 .. AuthorizedInput /\ u.tokens <= PerChoice * Cardinality(Choice)
          BY <5>1, <4>1, <1>a DEF WholeAnswer, Counted
        <5>3. Stream!AuthorizedOutput = PerChoice * Cardinality(Choice)
          BY StreamCardinality DEF Stream!AuthorizedOutput
        <5>4. u.prompt > 0 /\ u.prompt <= AuthorizedInput
          BY <5>2, StreamAssumption
        <5> HIDE DEF u
        <5> QED
          BY <5>2, <5>3, <5>4 DEF Stream!UsageAuthorized
      <4> HIDE DEF u
      <4>5. answer' = <<[model |-> "authorized", visible |-> 0 \in acc.visible, usage |-> u]>>
        BY <2>1, <3>2 DEF Stream!Normalized, u
      <4> DEFINE a == [model |-> "authorized", visible |-> 0 \in acc.visible, usage |-> u]
      <4>6. a.model = "authorized" /\ a.visible = (0 \in acc.visible) /\ a.usage = u
        OBVIOUS
      <4> HIDE DEF a
      <4>7. answer'[1] = a
        BY <4>5 DEF a
      <4>8. stream_kind' = "chat" => answer'[1].visible
        BY <4>1, <4>6, <4>7, <2>1
      <4> QED
        BY <4>4, <4>6, <4>7, <4>8, <4>9 DEF Stream!ResultAccepted, Stream!ValidateStandardResult,
          Stream!ValidateReportedUsage
    <3> QED
      BY <3>1, <3>2
  <2>4. Returned'
    BY <2>1, <2>3 DEF Returned
  <2> QED
    BY <2>1, <2>2, <2>4, <1>b, <1>d DEF StreamInv
<1>9. CASE Stream!RenewalFails
  <2>1. /\ outcome' = "error"
        /\ UNCHANGED <<stream_kind, forwarding, acc, read, saw_done, inference, obeyed, channel, uploading,
                       uploaded, broken, answer>>
    BY <1>9 DEF Stream!RenewalFails
  <2>2. StreamType' /\ Returned'
    BY <2>1, <1>a DEF StreamType, Returned, Stream!ResultAccepted, Stream!ValidateStandardResult
  <2> QED
    BY <2>1, <2>2, <1>b, <1>d DEF StreamInv
<1>10. CASE UNCHANGED stream
  <2>1. UNCHANGED <<stream_kind, forwarding, acc, read, saw_done, inference, obeyed, channel, uploading,
                   uploaded, broken, outcome, answer>>
    BY <1>10 DEF stream
  <2>2. StreamType' /\ Returned'
    BY <2>1, <1>a DEF StreamType, Returned, Stream!ResultAccepted, Stream!ValidateStandardResult
  <2> QED
    BY <2>1, <2>2, <1>b, <1>d DEF StreamInv
<1> QED
  BY <1>1, <1>2, <1>3, <1>4, <1>5, <1>6, <1>7, <1>8, <1>9, <1>10 DEF Stream!Next

LEMMA StreamInit == Stream!Init => StreamInv
<1> SUFFICES ASSUME Stream!Init PROVE StreamInv
  OBVIOUS
<1>1. IsFiniteSet({}) /\ Cardinality({}) = 0
  BY FS_EmptySet
<1>2. /\ acc.finished = {} /\ acc.stats = 0 /\ acc \in Accumulated
      /\ inference = "reading" /\ outcome = "waiting" /\ answer = <<>> /\ read = 0
      /\ channel = <<>> /\ uploading = <<>> /\ uploaded = <<>> /\ broken = FALSE
      /\ acc.usage = <<>>
  BY DEF Stream!Init, Accumulated
<1>3. StreamType
  <2>1. Len(channel) = 0 /\ Len(uploading) = 0 /\ Len(channel) <= Capacity
    BY <1>2, StreamAssumption
  <2>2. channel \in Seq(Item) /\ uploading \in Seq(Item) /\ uploaded \in Seq(Mark)
    BY <1>2
  <2>3. /\ stream_kind \in {"chat", "completion"} /\ forwarding \in BOOLEAN
    BY DEF Stream!Init
  <2>5. read \in Nat
    BY <1>2
  <2>6. saw_done \in BOOLEAN /\ broken \in BOOLEAN /\ obeyed \in BOOLEAN
    BY DEF Stream!Init
  <2>4. Len(uploading) <= 1
    BY <2>1
  <2> QED
    BY <1>2, <2>1, <2>2, <2>3, <2>4, <2>5, <2>6 DEF StreamType
<1>4. WholeAnswer
  BY <1>1, <1>2 DEF WholeAnswer, AccSound, Counted
<1>5. InOrder /\ Returned
  BY <1>2 DEF InOrder, Returned, Stream!UploadsInOrder, Stream!ResultAccepted, Sent
<1> QED
  BY <1>3, <1>4, <1>5 DEF StreamInv

\* The invariant says what the run checks.
LEMMA StreamSafe == StreamInv => StreamForwarded
<1> SUFFICES ASSUME StreamInv PROVE StreamForwarded
  OBVIOUS
<1>1. /\ acc \in Accumulated /\ acc.stats \in Nat /\ acc.finished \subseteq Choice
      /\ acc.stats <= Cardinality(acc.finished)
  BY DEF StreamInv, WholeAnswer, AccSound, Accumulated
<1>2. Stream!StatsFollowChoices
  BY <1>1, StreamCardinality DEF Stream!StatsFollowChoices
<1>3. Stream!TypeOK
  <2>1. acc.stats \in 0 .. Cardinality(Choice)
    BY <1>1, ChoicesCounted
  <2> QED
    BY <2>1, StreamCardinality DEF StreamInv, StreamType, Stream!TypeOK
<1>4. Stream!ResultIsWhole
  <2> SUFFICES ASSUME outcome = "result"
               PROVE  /\ acc.finished = Choice /\ acc.stats = Cardinality(Choice) /\ saw_done
                      /\ forwarding => Len(uploaded) = read + 1 /\ uploaded[read + 1].done
    BY StreamCardinality DEF Stream!ResultIsWhole
  <2>1. inference = "complete" /\ ~broken /\ channel = <<>> /\ uploading = <<>>
    BY DEF StreamInv, Returned
  <2>2. ASSUME forwarding PROVE Len(uploaded) = read + 1 /\ uploaded[read + 1].done
    <3>1. /\ Len(uploaded) + Len(uploading) + Len(channel) = Sent
          /\ \A i \in DOMAIN uploaded : At(uploaded[i], i - 1)
      BY <2>1, <2>2 DEF StreamInv, InOrder
    <3>2. /\ Len(uploading) = 0 /\ Len(channel) = 0 /\ Len(uploaded) \in Nat /\ read \in Nat
          /\ DOMAIN uploaded = 1 .. Len(uploaded)
      BY <2>1 DEF StreamInv, StreamType
    <3>3. Len(uploaded) = read + 1
      BY <3>1, <3>2, <2>1 DEF Sent
    <3>4. read + 1 \in DOMAIN uploaded /\ (read + 1) - 1 = read
      BY <3>2, <3>3
    <3>5. At(uploaded[read + 1], read)
      BY <3>1, <3>4
    <3> QED
      BY <3>3, <3>5, <2>1 DEF At
  <2> QED
    BY <2>1, <2>2 DEF StreamInv, WholeAnswer
<1> QED
  BY <1>2, <1>3, <1>4 DEF StreamForwarded, StreamInv, InOrder, Returned

\* Stream events arrive in order with the marker last, and a result is returned only
\* for a whole answer that was forwarded entirely.  The coordinator accepts it: always
\* as a response, and its usage too if the engine kept to what it was asked for
\* (OpenAiStreamAccumulator, wait_for_inference_with_lease, complete_job), for any
\* number of choices and events, any capacity of the channel and any limits.
THEOREM StreamAlwaysForwarded == Spec => []StreamForwarded
<1>1. Init => StreamInv
  BY StreamInit DEF Init
<1>2. StreamInv /\ [Next]_vars => StreamInv'
  BY PartSteps, StreamNext
<1> QED
  BY <1>1, <1>2, StreamSafe, PTL DEF Spec

-----------------------------------------------------------------------------
(***************************************************************************)
(* Publishing and unpublishing.  Every worker that runs is either the      *)
(* child of a publish that has not recorded it yet, or the one the state   *)
(* file names; a publish starts one only when the file is free, so there   *)
(* is at most one, unless a publish was killed between the two.            *)
(***************************************************************************)
ProcessRecord == [marker : 1 .. MaxProc, kind : {"starting", "read", "worker", "other"}]
StateRecord == [pid : Pid \cup {0}, marker : (1 .. MaxProc) \cup {None}, beat : BOOLEAN]
ChildRecord == [pid : Pid, marker : 1 .. MaxProc]
Signalling == {"check", "term", "check_again", "kill"}
CommandStep ==
  Signalling \cup {"idle", "publish", "write", "spawn", "identify", "await", "release",
                   "compensate", "cleanup", "preserve", "delete", "drain", "verify"}

ControlType ==
  /\ proc \in [Pid -> ProcessRecord \cup {None}] /\ marker \in 0 .. MaxProc
  /\ file \in StateRecord \cup {None} /\ stop_file \in BOOLEAN
  /\ server \in {"published", "draining", "unpublished"}
  /\ cmd \in CommandStep /\ st \in StateRecord /\ child \in ChildRecord \cup {None}
  /\ resume \in {"verify", "compensate"} /\ stale \in BOOLEAN /\ unrecorded \in BOOLEAN

\* Markers are given out in order.
MarkersGiven ==
  /\ \A p \in Pid : proc[p] # None => proc[p].marker <= marker
  /\ file # None /\ file.marker # None => file.marker <= marker
  /\ st.marker # None => st.marker <= marker
  /\ child # None => child.marker <= marker

\* The check before a signal saw the process itself.
NotStale == cmd \in {"term", "kill"} => ~stale

Ours(p) == proc[p] # None /\ proc[p].kind # "other"
Names(s, p) == s.pid = p /\ s.marker = proc[p].marker

\* Where the command is, and who knows the worker.
NoneRuns == cmd \in {"publish", "write", "spawn", "cleanup", "delete"}
ChildKnown ==
  \/ cmd \in {"identify", "await", "release", "compensate"}
  \/ cmd \in Signalling /\ resume = "compensate"
FileKnown == cmd \notin {"identify", "compensate"}
HeldKnown == cmd \in {"drain", "verify"} \/ (cmd \in Signalling /\ resume = "verify")

WorkerKnown(p) ==
  /\ ~ NoneRuns
  /\ ChildKnown => child # None /\ Names(child, p)
  /\ FileKnown => file # None /\ Names(file, p)
  /\ HeldKnown => Names(st, p)
  /\ file # None /\ file.marker = proc[p].marker => file.pid = p
  /\ st.marker = proc[p].marker => st.pid = p

WorkersKnown ==
  ~ unrecorded =>
    /\ \A p \in Pid : Ours(p) => WorkerKnown(p)
    /\ \A p, q \in Pid : Ours(p) /\ Ours(q) => p = q
    /\ cmd = "identify" => child # None /\ child.pid = st.pid

ControlInv == ControlType /\ MarkersGiven /\ NotStale /\ WorkersKnown

LEMMA ControlInit == Control!Init => ControlInv
<1> SUFFICES ASSUME Control!Init PROVE ControlInv
  OBVIOUS
<1>1. Control!Unstarted \in StateRecord /\ Control!Unstarted.marker = None
  BY DEF Control!Unstarted, Control!State, StateRecord
<1>0. 0 \in 0 .. MaxProc
  BY ControlAssumption
<1>2. ControlType
  BY <1>0, <1>1 DEF Control!Init, ControlType, CommandStep
<1>3. MarkersGiven /\ NotStale /\ WorkersKnown
  BY <1>1 DEF Control!Init, MarkersGiven, NotStale, WorkersKnown, Ours
<1> QED
  BY <1>2, <1>3 DEF ControlInv

\* Records of states, children and processes.
LEMMA ControlKinds ==
  /\ None \notin ProcessRecord /\ None \notin StateRecord /\ None \notin ChildRecord
  /\ Control!Unstarted \in StateRecord /\ Control!Unstarted.pid = 0
  /\ Control!Unstarted.marker = None
  /\ \A p \in Pid, m \in 1 .. MaxProc, beat \in BOOLEAN :
       /\ Control!State(p, m, beat) \in StateRecord
       /\ Control!State(p, m, beat).pid = p /\ Control!State(p, m, beat).marker = m
  /\ \A s \in StateRecord :
       /\ Control!ClearWorkerIdentity(s) \in StateRecord
       /\ Control!ClearWorkerIdentity(s).pid = 0
       /\ Control!ClearWorkerIdentity(s).marker = None
       /\ s.pid \in Pid \cup {0} /\ s.marker \in (1 .. MaxProc) \cup {None}
  /\ \A s \in StateRecord, p \in Pid, m \in 1 .. MaxProc :
       /\ [s EXCEPT !.pid = p] \in StateRecord /\ [s EXCEPT !.marker = m] \in StateRecord
       /\ [s EXCEPT !.pid = p, !.marker = m] \in StateRecord
  /\ \A c \in ChildRecord : c.pid \in Pid /\ c.marker \in 1 .. MaxProc
  /\ \A w \in ProcessRecord : w.marker \in 1 .. MaxProc
<1>1. None \notin ProcessRecord /\ None \notin StateRecord /\ None \notin ChildRecord
  BY ControlAssumption DEF ProcessRecord, StateRecord, ChildRecord
<1>2. /\ Control!Unstarted \in StateRecord /\ Control!Unstarted.pid = 0
      /\ Control!Unstarted.marker = None
  BY DEF Control!Unstarted, Control!State, StateRecord
<1>3. \A p \in Pid, m \in 1 .. MaxProc, beat \in BOOLEAN :
       /\ Control!State(p, m, beat) \in StateRecord
       /\ Control!State(p, m, beat).pid = p /\ Control!State(p, m, beat).marker = m
  BY DEF Control!State, StateRecord
<1>4. \A s \in StateRecord :
       /\ Control!ClearWorkerIdentity(s) \in StateRecord
       /\ Control!ClearWorkerIdentity(s).pid = 0
       /\ Control!ClearWorkerIdentity(s).marker = None
       /\ s.pid \in Pid \cup {0} /\ s.marker \in (1 .. MaxProc) \cup {None}
  BY DEF Control!State, Control!ClearWorkerIdentity, StateRecord
<1>5. \A s \in StateRecord, p \in Pid, m \in 1 .. MaxProc :
       /\ [s EXCEPT !.pid = p] \in StateRecord /\ [s EXCEPT !.marker = m] \in StateRecord
       /\ [s EXCEPT !.pid = p, !.marker = m] \in StateRecord
  BY DEF StateRecord
<1>6. /\ \A c \in ChildRecord : c.pid \in Pid /\ c.marker \in 1 .. MaxProc
      /\ \A w \in ProcessRecord : w.marker \in 1 .. MaxProc
  BY DEF ChildRecord, ProcessRecord
<1> QED
  BY <1>1, <1>2, <1>3, <1>4, <1>5, <1>6

\* A state that is written names what it was given.
LEMMA StateNamed ==
  ASSUME NEW p \in Pid, NEW m \in 1 .. MaxProc, NEW beat \in BOOLEAN
  PROVE  /\ Control!State(p, m, beat) # None
         /\ Control!State(p, m, beat).pid = p /\ Control!State(p, m, beat).marker = m
<1>1. Control!State(p, m, beat) \in StateRecord
  BY DEF Control!State, StateRecord
<1>2. None \notin StateRecord
  BY ControlKinds
<1> QED
  BY <1>1, <1>2 DEF Control!State

LEMMA StateCleared ==
  ASSUME NEW s \in StateRecord
  PROVE  Control!ClearWorkerIdentity(s) # None
<1>1. Control!ClearWorkerIdentity(s) \in StateRecord
  BY DEF Control!ClearWorkerIdentity, Control!State, StateRecord
<1>2. None \notin StateRecord
  BY ControlKinds
<1> QED
  BY <1>1, <1>2

\* Types and markers: the steps of a command.
LEMMA CommandTypes ==
  ASSUME ControlType, MarkersGiven, Control!Command
  PROVE  ControlType' /\ MarkersGiven'
<1>0. /\ proc \in [Pid -> ProcessRecord \cup {None}] /\ marker \in 0 .. MaxProc
      /\ file \in StateRecord \cup {None} /\ stop_file \in BOOLEAN
      /\ server \in {"published", "draining", "unpublished"}
      /\ st \in StateRecord /\ child \in ChildRecord \cup {None}
      /\ resume \in {"verify", "compensate"} /\ stale \in BOOLEAN /\ unrecorded \in BOOLEAN
  BY DEF ControlType
<1>k. /\ None \notin StateRecord /\ None \notin ProcessRecord /\ None \notin ChildRecord
      /\ Control!Unstarted \in StateRecord /\ Control!Unstarted.marker = None
      /\ Control!ClearWorkerIdentity(st) \in StateRecord
      /\ Control!ClearWorkerIdentity(st).marker = None
  BY <1>0, ControlKinds
<1>n. /\ marker \in Nat /\ MaxProc \in Nat /\ marker <= MaxProc
      /\ \A p \in Pid : proc[p] # None => proc[p].marker \in Nat /\ proc[p].marker <= marker
      /\ file # None /\ file.marker # None => file.marker \in Nat /\ file.marker <= marker
      /\ st.marker # None => st.marker \in Nat /\ st.marker <= marker
      /\ child # None => child.marker \in Nat /\ child.marker <= marker
  <2>1. marker \in Nat /\ MaxProc \in Nat /\ marker <= MaxProc
    BY <1>0, ControlAssumption
  <2>2. \A p \in Pid : proc[p] # None => proc[p].marker \in 1 .. MaxProc
    BY <1>0 DEF ProcessRecord
  <2>3. /\ file # None /\ file.marker # None => file.marker \in 1 .. MaxProc
        /\ st.marker # None => st.marker \in 1 .. MaxProc
    BY <1>0 DEF StateRecord
  <2>4. child # None => child.marker \in 1 .. MaxProc
    BY <1>0 DEF ChildRecord
  <2> QED
    BY <2>1, <2>2, <2>3, <2>4 DEF MarkersGiven
<1>r. resume \in CommandStep /\ {"term", "kill", "idle", "verify", "check", "compensate"} \subseteq CommandStep
  BY <1>0 DEF CommandStep, Signalling
<1>c. /\ {"publish", "write", "spawn", "identify", "await", "release", "check_again", "cleanup",
          "preserve", "delete", "drain"} \subseteq CommandStep
  BY DEF CommandStep, Signalling
\* Steps that only move the command.
<1>1. CASE \/ Control!FirstHeartbeat \/ Control!ReleaseIfRunning \/ Control!ActivationFails
           \/ Control!VerifyStopped \/ Control!WaitForDrain \/ Control!HeartbeatTimeout
           \/ Control!CommandKilled \/ Control!Unpublish \/ Control!Publish \/ Control!PublishModel
  <2>1. /\ UNCHANGED <<proc, marker, file, stale>> /\ stop_file' \in BOOLEAN
        /\ server' \in {server, "published"} /\ cmd' \in CommandStep
        /\ child' \in {child, None} /\ resume' \in {"verify", "compensate"}
        /\ unrecorded' \in BOOLEAN
        /\ \/ st' \in {st, Control!Unstarted}
           \/ file # None /\ st' = file
    <3>1. CASE Control!FirstHeartbeat \/ Control!ReleaseIfRunning \/ Control!ActivationFails
               \/ Control!VerifyStopped
      BY <3>1, <1>0, <1>r, <1>c DEF Control!FirstHeartbeat, Control!ReleaseIfRunning,
         Control!ActivationFails, Control!VerifyStopped, Control!Goto, Control!Still,
         Control!local, Control!history
    <3>2. CASE Control!WaitForDrain \/ Control!HeartbeatTimeout
      BY <3>2, <1>0, <1>r, <1>c DEF Control!WaitForDrain, Control!HeartbeatTimeout,
         Control!Still, Control!local, Control!history
    <3>3. CASE Control!CommandKilled
      BY <3>3, <1>0, <1>r, <1>c DEF Control!CommandKilled, Control!local
    <3>4. CASE Control!Unpublish
      BY <3>4, <1>0, <1>r, <1>c DEF Control!Unpublish, Control!history
    <3>5. CASE Control!Publish \/ Control!PublishModel
      BY <3>5, <1>0, <1>r, <1>c DEF Control!Publish, Control!PublishModel, Control!local,
         Control!history
    <3> QED
      BY <1>1, <3>1, <3>2, <3>3, <3>4, <3>5
  <2>2. st' \in StateRecord /\ (st'.marker # None => st'.marker <= marker)
    BY <2>1, <1>0, <1>k, <1>n
  <2>3. ControlType'
    BY <2>1, <2>2, <1>0 DEF ControlType
  <2> QED
    BY <2>1, <2>2, <2>3 DEF MarkersGiven
<1>2. CASE Control!WriteUnstarted
  <2>1. file' = st /\ cmd' = "spawn"
        /\ UNCHANGED <<proc, marker, stop_file, server, st, child, resume, stale, unrecorded>>
    BY <1>2 DEF Control!WriteUnstarted, Control!Goto, Control!history
  <2>2. ControlType'
    BY <2>1, <1>0, <1>c DEF ControlType
  <2> QED
    BY <2>1, <2>2 DEF MarkersGiven
<1>3. CASE Control!SpawnWorker
  <2>1. PICK p \in Pid :
          /\ proc[p] = None
          /\ proc' = [proc EXCEPT ![p] = [marker |-> marker + 1, kind |-> "starting"]]
          /\ st' = [st EXCEPT !.pid = p]
          /\ child' = [pid |-> p, marker |-> marker + 1]
    BY <1>3 DEF Control!SpawnWorker
  <2>2. /\ marker < MaxProc /\ marker' = marker + 1 /\ cmd' = "identify"
        /\ UNCHANGED <<file, stop_file, server, resume, stale, unrecorded>>
    BY <1>3 DEF Control!SpawnWorker, Control!local, Control!history
  <2>3. marker + 1 \in 1 .. MaxProc /\ MaxProc \in Nat
    BY <2>2, <1>n
  <2> DEFINE w == [marker |-> marker + 1, kind |-> "starting"]
             c == [pid |-> p, marker |-> marker + 1]
  <2>4. w \in ProcessRecord /\ w.marker = marker + 1 /\ c \in ChildRecord /\ c.marker = marker + 1
    BY <2>3 DEF ProcessRecord, ChildRecord
  <2>5. st' \in StateRecord /\ st'.marker = st.marker
    BY <2>1, <1>0 DEF StateRecord
  <2>6. proc' = [proc EXCEPT ![p] = w] /\ child' = c
    BY <2>1
  <2> HIDE DEF w, c
  <2>7. ControlType'
    <3>1. proc' \in [Pid -> ProcessRecord \cup {None}] /\ child' \in ChildRecord \cup {None}
      BY <2>4, <2>6, <1>0
    <3>2. marker' \in 0 .. MaxProc
      BY <2>2, <2>3
    <3> QED
      BY <2>2, <2>5, <3>1, <3>2, <1>0, <1>c DEF ControlType
  <2>8. \A q \in Pid : proc'[q] # None => proc'[q].marker <= marker'
    <3> TAKE q \in Pid
    <3>1. CASE q = p
      <4>1. proc'[q] = w
        BY <3>1, <2>6, <1>0
      <4> QED
        BY <4>1, <2>2, <2>4, <1>n
    <3>2. CASE q # p
      <4>1. proc'[q] = proc[q]
        BY <3>2, <2>6, <1>0
      <4> QED
        BY <4>1, <2>2, <1>n
    <3> QED
      BY <3>1, <3>2
  <2>9. /\ file' # None /\ file'.marker # None => file'.marker <= marker'
        /\ st'.marker # None => st'.marker <= marker'
        /\ child' # None => child'.marker <= marker'
    BY <2>2, <2>4, <2>5, <2>6, <1>n
  <2> QED
    BY <2>7, <2>8, <2>9 DEF MarkersGiven
<1>4. CASE Control!WaitForWorkerIdentity
  <2>1. /\ child # None /\ st' = [st EXCEPT !.marker = child.marker] /\ file' = st' /\ cmd' = "await"
        /\ UNCHANGED <<proc, marker, stop_file, server, child, resume, stale, unrecorded>>
    BY <1>4 DEF Control!WaitForWorkerIdentity, Control!ChildAlive, Control!history
  <2>2. st' \in StateRecord /\ st'.marker = child.marker
    BY <2>1, <1>0 DEF StateRecord, ChildRecord
  <2>3. ControlType'
    BY <2>1, <2>2, <1>0, <1>c DEF ControlType
  <2> QED
    BY <2>1, <2>2, <2>3 DEF MarkersGiven
<1>5. CASE Control!StopAndReap
  <2> DEFINE f == IF file # None THEN file ELSE st
  <2>1. /\ f \in StateRecord /\ (f.marker # None => f.marker <= marker) /\ f = Control!Recovery
    BY <1>0 DEF MarkersGiven, Control!Recovery
  <2> HIDE DEF f
  <2>2. /\ proc' \in [Pid -> ProcessRecord \cup {None}]
        /\ \A p \in Pid : proc'[p] # None => proc'[p] = proc[p]
        /\ cmd' \in {"cleanup", "preserve"}
        /\ st' \in StateRecord /\ (st'.marker # None => st'.marker <= marker)
        /\ file' = st' /\ UNCHANGED <<marker, stop_file, server, child, resume, stale, unrecorded>>
    <3>1. CASE /\ proc' = IF Control!ChildAlive THEN [proc EXCEPT ![child.pid] = None] ELSE proc
               /\ st' = IF child # None THEN Control!ClearWorkerIdentity(Control!Recovery)
                        ELSE Control!Recovery
               /\ cmd' = "cleanup"
      <4>1. /\ Control!ClearWorkerIdentity(f) \in StateRecord
            /\ Control!ClearWorkerIdentity(f).marker = None
        BY <2>1, ControlKinds
      <4>2. st' \in StateRecord /\ (st'.marker # None => st'.marker <= marker)
        BY <3>1, <4>1, <2>1
      <4>3. /\ proc' \in [Pid -> ProcessRecord \cup {None}]
            /\ \A p \in Pid : proc'[p] # None => proc'[p] = proc[p]
        BY <3>1, <1>0
      <4> QED
        BY <1>5, <3>1, <4>2, <4>3 DEF Control!StopAndReap, Control!history
    <3>2. CASE /\ Control!ChildAlive
               /\ st' = [Control!Recovery EXCEPT !.pid = child.pid, !.marker = child.marker]
               /\ cmd' = "preserve" /\ UNCHANGED proc
      <4>1. st' \in StateRecord /\ st'.marker = child.marker /\ child # None
        BY <3>2, <2>1, <1>0 DEF StateRecord, ChildRecord, Control!ChildAlive
      <4> QED
        BY <1>5, <3>2, <4>1, <1>0 DEF Control!StopAndReap, Control!history, MarkersGiven
    <3> QED
      BY <1>5, <3>1, <3>2 DEF Control!StopAndReap
  <2>3. ControlType'
    BY <2>2, <1>0, <1>c DEF ControlType
  <2> QED
    BY <2>2, <2>3 DEF MarkersGiven
<1>6. CASE \/ Control!DeleteUnconfirmed
           \/ \E told \in {"draining", "unpublished"} : Control!DeleteModelInstance(told)
  <2>1. /\ UNCHANGED <<proc, marker, st, child, resume, stale, unrecorded>>
        /\ cmd' = "idle" /\ stop_file' \in BOOLEAN
        /\ server' \in {server, "draining", "unpublished"}
        /\ file' \in {file, None, Control!ClearWorkerIdentity(st)}
    <3>1. CASE Control!DeleteUnconfirmed
      BY <3>1, <1>0 DEF Control!DeleteUnconfirmed, Control!Unpublishes, Control!Goto, Control!history
    <3>2. CASE \E told \in {"draining", "unpublished"} : Control!DeleteModelInstance(told)
      BY <3>2, <1>0 DEF Control!DeleteModelInstance, Control!Unpublishes, Control!Reconcile,
         Control!Goto, Control!history, Control!local
    <3> QED
      BY <1>6, <3>1, <3>2
  <2>2. /\ file' \in StateRecord \cup {None}
        /\ file' # None /\ file'.marker # None => file'.marker <= marker
    BY <2>1, <1>0, <1>k, <1>n
  <2>3. ControlType'
    BY <2>1, <2>2, <1>0, <1>r DEF ControlType
  <2> QED
    BY <2>1, <2>2, <2>3 DEF MarkersGiven
<1>7. CASE Control!StopVerifiedWorker
  <2>1. /\ \/ UNCHANGED proc
           \/ proc' = [proc EXCEPT ![st.pid] = None]
        /\ cmd' \in CommandStep /\ stale' \in BOOLEAN
        /\ UNCHANGED <<marker, file, stop_file, server, st, child, resume, unrecorded>>
    <3>1. CASE Control!CheckedBeforeSignal("check", "term")
               \/ Control!CheckedBeforeSignal("check_again", "kill")
      BY <3>1, <1>0, <1>r, <1>c DEF Control!CheckedBeforeSignal, Control!Checked, Control!local
    <3>2. CASE Control!Signal("term", "check_again") \/ Control!Signal("kill", resume)
      BY <3>2, <1>0, <1>r, <1>c DEF Control!Signal, Control!Goto, Control!local, Control!history
    <3> QED
      BY <1>7, <3>1, <3>2 DEF Control!StopVerifiedWorker
  <2>2. /\ proc' \in [Pid -> ProcessRecord \cup {None}]
        /\ \A p \in Pid : proc'[p] # None => proc'[p] = proc[p]
    BY <2>1, <1>0
  <2>3. ControlType'
    BY <2>1, <2>2, <1>0 DEF ControlType
  <2> QED
    BY <2>1, <2>2, <2>3 DEF MarkersGiven
<1> QED
  BY <1>1, <1>2, <1>3, <1>4, <1>5, <1>6, <1>7 DEF Control!Command

\* Types and markers: the steps of workers and of the operating system.
LEMMA ControlTypes ==
  ASSUME ControlType, MarkersGiven, [Control!Next]_control
  PROVE  ControlType' /\ MarkersGiven'
<1>0. /\ proc \in [Pid -> ProcessRecord \cup {None}] /\ marker \in 0 .. MaxProc
      /\ file \in StateRecord \cup {None} /\ MaxProc \in Nat
      /\ server \in {"published", "draining", "unpublished"}
  BY ControlAssumption DEF ControlType
<1>1. CASE UNCHANGED control
  BY <1>1 DEF control, ControlType, MarkersGiven
<1>2. CASE Control!DrainingEnds
  <2>1. /\ server' = "unpublished"
        /\ UNCHANGED <<proc, marker, file, stop_file, cmd, st, child, resume, stale, unrecorded>>
    BY <1>2 DEF Control!DrainingEnds, Control!local, Control!command, Control!history
  <2> QED
    BY <2>1 DEF ControlType, MarkersGiven
<1>3. ASSUME NEW p \in Pid, Control!Worker(p) \/ Control!ProcessExits(p)
      PROVE  ControlType' /\ MarkersGiven'
  <2> DEFINE w == proc[p]
  <2>0. /\ w # None /\ w \in ProcessRecord /\ w.marker \in 1 .. MaxProc /\ w.marker <= marker
    <3>1. w # None
      BY <1>3 DEF Control!Worker, Control!WorkerReads, Control!WorkerWrites,
         Control!WorkerHeartbeat, Control!WorkerDrains, Control!ProcessExits, Control!IsWorker
    <3>2. w \in ProcessRecord
      BY <3>1, <1>0
    <3> QED
      BY <3>1, <3>2 DEF ProcessRecord, MarkersGiven
  <2>1. \A beat \in BOOLEAN :
          /\ Control!State(p, w.marker, beat) \in StateRecord
          /\ Control!State(p, w.marker, beat).marker = w.marker
    BY <2>0 DEF Control!State, StateRecord
  <2>2. /\ [w EXCEPT !.kind = "read"] \in ProcessRecord
        /\ [w EXCEPT !.kind = "read"].marker = w.marker
        /\ [w EXCEPT !.kind = "worker"] \in ProcessRecord
        /\ [w EXCEPT !.kind = "worker"].marker = w.marker
    BY <2>0 DEF ProcessRecord
  <2>3. /\ proc' \in [Pid -> ProcessRecord \cup {None}]
        /\ \A q \in Pid : proc'[q] # None => proc[q] # None /\ proc'[q].marker = proc[q].marker
        /\ \/ UNCHANGED file
           \/ file' = Control!State(p, w.marker, FALSE) \/ file' = Control!State(p, w.marker, TRUE)
        /\ server' \in {server, "draining", "unpublished"}
        /\ UNCHANGED <<marker, stop_file, cmd, st, child, resume, stale, unrecorded>>
    <3>1. CASE Control!WorkerReads(p)
      <4>1. /\ \/ proc' = [proc EXCEPT ![p] = None]
               \/ proc' = [proc EXCEPT ![p] = [w EXCEPT !.kind = "read"]]
            /\ UNCHANGED <<marker, file, stop_file, server, cmd, st, child, resume, stale, unrecorded>>
        BY <3>1, <1>0 DEF Control!WorkerReads, Control!local, Control!command, Control!history
      <4> QED
        BY <4>1, <2>0, <2>2, <1>0
    <3>2. CASE Control!WorkerWrites(p)
      <4>1. /\ proc' = [proc EXCEPT ![p] = [w EXCEPT !.kind = "worker"]]
            /\ file' = Control!State(p, w.marker, FALSE)
            /\ UNCHANGED <<marker, stop_file, server, cmd, st, child, resume, stale, unrecorded>>
        BY <3>2, <1>0 DEF Control!WorkerWrites, Control!command, Control!history
      <4> QED
        BY <4>1, <2>0, <2>2, <1>0
    <3>3. CASE Control!WorkerHeartbeat(p)
      <4>1. /\ file' = Control!State(p, w.marker, TRUE)
            /\ UNCHANGED <<proc, marker, stop_file, server, cmd, st, child, resume, stale, unrecorded>>
        BY <3>3 DEF Control!WorkerHeartbeat, Control!command, Control!history
      <4> QED
        BY <4>1, <1>0
    <3>4. CASE Control!WorkerDrains(p) \/ Control!ProcessExits(p)
      <4>1. /\ proc' = [proc EXCEPT ![p] = None] /\ server' \in {server, "draining", "unpublished"}
            /\ UNCHANGED <<marker, file, stop_file, cmd, st, child, resume, stale, unrecorded>>
        BY <3>4 DEF Control!WorkerDrains, Control!ProcessExits, Control!Unpublishes,
           Control!local, Control!command, Control!history
      <4> QED
        BY <4>1, <1>0
    <3> QED
      BY <1>3, <3>1, <3>2, <3>3, <3>4 DEF Control!Worker
  <2>4. /\ file' \in StateRecord \cup {None}
        /\ file' # None /\ file'.marker # None => file'.marker <= marker'
    BY <2>0, <2>1, <2>3, <1>0 DEF MarkersGiven
  <2>5. ControlType'
    BY <2>3, <2>4, <1>0 DEF ControlType
  <2> QED
    BY <2>3, <2>4, <2>5 DEF MarkersGiven
<1>4. ASSUME NEW p \in Pid, Control!OtherStarts(p)
      PROVE  ControlType' /\ MarkersGiven'
  <2> DEFINE w == [marker |-> marker + 1, kind |-> "other"]
  <2>1. /\ marker < MaxProc /\ marker' = marker + 1 /\ proc' = [proc EXCEPT ![p] = w]
        /\ UNCHANGED <<file, stop_file, server, cmd, st, child, resume, stale, unrecorded>>
    BY <1>4 DEF Control!OtherStarts, Control!local, Control!command, Control!history
  <2>2. marker' \in 0 .. MaxProc /\ marker + 1 \in 1 .. MaxProc
    BY <2>1, <1>0
  <2>3. w \in ProcessRecord /\ w.marker = marker + 1
    BY <2>2 DEF ProcessRecord
  <2> HIDE DEF w
  <2>4. proc' \in [Pid -> ProcessRecord \cup {None}]
    BY <2>1, <2>3, <1>0
  <2>5. ControlType'
    BY <2>1, <2>2, <2>4 DEF ControlType
  <2>6. \A m \in (1 .. MaxProc) : m <= marker => m <= marker'
    BY <2>1, <1>0
  <2>7. /\ file # None /\ file.marker # None => file.marker \in 1 .. MaxProc
        /\ st.marker # None => st.marker \in 1 .. MaxProc
        /\ child # None => child.marker \in 1 .. MaxProc
        /\ \A q \in Pid : proc[q] # None => proc[q].marker \in 1 .. MaxProc
    BY <1>0, ControlKinds DEF ControlType
  <2>8. \A q \in Pid : proc'[q] # None => proc'[q].marker <= marker'
    <3> TAKE q \in Pid
    <3>1. CASE q = p
      <4>1. proc'[q] = w
        BY <3>1, <2>1, <1>0
      <4> QED
        BY <4>1, <2>1, <2>3, <2>2
    <3>2. CASE q # p
      <4>1. proc'[q] = proc[q]
        BY <3>2, <2>1, <1>0
      <4> QED
        BY <4>1, <2>6, <2>7 DEF MarkersGiven
    <3> QED
      BY <3>1, <3>2
  <2> QED
    BY <2>1, <2>5, <2>6, <2>7, <2>8 DEF MarkersGiven
<1> QED
  BY <1>1, <1>2, <1>3, <1>4, CommandTypes DEF Control!Next

\* The check that leads to a signal found the identity it was looking for.
LEMMA NotStaleNext ==
  ASSUME ControlType, NotStale, [Control!Next]_control
  PROVE  NotStale'
<1>0. resume \in {"verify", "compensate"} /\ stale \in BOOLEAN
  BY DEF ControlType
<1>1. ASSUME NEW check, NEW signal, Control!CheckedBeforeSignal(check, signal)
      PROVE  NotStale'
  <2>1. CASE Control!WorkerProcessIsRunning(st) = "running"
    <3>1. st.marker = proc[st.pid].marker
      BY <2>1 DEF Control!WorkerProcessIsRunning, Control!ValidateWorkerIdentity
    <3> QED
      BY <1>1, <3>1 DEF Control!CheckedBeforeSignal, Control!Checked, NotStale
  <2>2. CASE Control!WorkerProcessIsRunning(st) # "running"
    <3>1. cmd' \in {"idle", "verify", "compensate"}
      BY <1>1, <2>2, <1>0 DEF Control!CheckedBeforeSignal
    <3> QED
      BY <3>1 DEF NotStale
  <2> QED
    BY <2>1, <2>2
<1>2. CASE Control!StopVerifiedWorker
  <2>1. CASE Control!Signal("term", "check_again") \/ Control!Signal("kill", resume)
    BY <2>1, <1>0 DEF Control!Signal, Control!Goto, NotStale
  <2> QED
    BY <1>1, <1>2, <2>1 DEF Control!StopVerifiedWorker
<1>3. ASSUME cmd' \notin {"term", "kill"} PROVE NotStale'
  BY <1>3 DEF NotStale
<1>4. CASE Control!Command
  <2>1. CASE \/ Control!Publish \/ Control!PublishModel \/ Control!WriteUnstarted
             \/ Control!SpawnWorker \/ Control!WaitForWorkerIdentity \/ Control!FirstHeartbeat
             \/ Control!HeartbeatTimeout \/ Control!ReleaseIfRunning \/ Control!ActivationFails
    BY <2>1, <1>3 DEF Control!Publish, Control!PublishModel, Control!WriteUnstarted,
       Control!SpawnWorker, Control!WaitForWorkerIdentity, Control!FirstHeartbeat,
       Control!HeartbeatTimeout, Control!ReleaseIfRunning, Control!ActivationFails, Control!Goto
  <2>2. CASE \/ Control!StopAndReap \/ Control!DeleteUnconfirmed
             \/ \E told \in {"draining", "unpublished"} : Control!DeleteModelInstance(told)
    BY <2>2, <1>3 DEF Control!StopAndReap, Control!DeleteUnconfirmed,
       Control!DeleteModelInstance, Control!Goto
  <2>3. CASE \/ Control!Unpublish \/ Control!WaitForDrain \/ Control!VerifyStopped
             \/ Control!CommandKilled
    BY <2>3, <1>3 DEF Control!Unpublish, Control!WaitForDrain, Control!VerifyStopped,
       Control!CommandKilled
  <2> QED
    BY <1>2, <1>4, <2>1, <2>2, <2>3 DEF Control!Command
<1>5. CASE ~ Control!Command
  <2>1. UNCHANGED <<cmd, stale>>
    BY <1>5 DEF Control!Next, control, Control!Worker, Control!WorkerReads,
       Control!WorkerWrites, Control!WorkerHeartbeat, Control!WorkerDrains,
       Control!ProcessExits, Control!OtherStarts, Control!DrainingEnds, Control!command,
       Control!history
  <2> QED
    BY <2>1 DEF NotStale
<1> QED
  BY <1>4, <1>5

\* The workers that run after a step ran before it, and stay known.
LEMMA StillKnown ==
  ASSUME WorkersKnown, ~ unrecorded,
         \A p \in Pid : Ours(p)' => Ours(p) /\ (WorkerKnown(p) => WorkerKnown(p)'),
         cmd' = "identify" => child' # None /\ child'.pid = st'.pid
  PROVE  WorkersKnown'
  BY DEF WorkersKnown

\* A check or a signal goes on with what is known.
LEMMA CheckKeeps ==
  ASSUME ControlType, WorkersKnown, ~ unrecorded, Control!StopVerifiedWorker
  PROVE  WorkersKnown'
<1>0. /\ proc \in [Pid -> ProcessRecord \cup {None}] /\ resume \in {"verify", "compensate"}
  BY DEF ControlType
<1>1. /\ UNCHANGED <<file, st, child, resume>>
      /\ \A p \in Pid : Ours(p)' => Ours(p) /\ proc'[p] = proc[p]
      /\ cmd \in Signalling
      /\ cmd' \in Signalling \/ cmd' = resume \/ (cmd' = "idle" /\ resume = "verify")
  <2>1. CASE Control!CheckedBeforeSignal("check", "term")
             \/ Control!CheckedBeforeSignal("check_again", "kill")
    BY <2>1 DEF Control!CheckedBeforeSignal, Control!local, Signalling, Ours
  <2>2. CASE Control!Signal("term", "check_again") \/ Control!Signal("kill", resume)
    BY <2>2, <1>0 DEF Control!Signal, Control!Goto, Control!local, Signalling, Ours
  <2> QED
    BY <2>1, <2>2 DEF Control!StopVerifiedWorker
<1>2. cmd' # "identify"
  BY <1>0, <1>1 DEF Signalling
<1>3. ASSUME NEW p \in Pid, Ours(p)', WorkerKnown(p) PROVE WorkerKnown(p)'
  <2>1. proc'[p] = proc[p]
    BY <1>1, <1>3
  <2> QED
    BY <2>1, <1>0, <1>1, <1>3
       DEF WorkerKnown, NoneRuns, ChildKnown, FileKnown, HeldKnown, Names, Signalling
<1> QED
  BY <1>1, <1>2, <1>3, StillKnown

\* The steps of a command that start and stop nothing.
LEMMA CommandKeeps ==
  ASSUME ControlType, MarkersGiven, WorkersKnown, ~ unrecorded',
         \/ Control!Publish \/ Control!PublishModel \/ Control!WriteUnstarted
         \/ Control!WaitForWorkerIdentity \/ Control!FirstHeartbeat \/ Control!HeartbeatTimeout
         \/ Control!ReleaseIfRunning \/ Control!ActivationFails \/ Control!DeleteUnconfirmed
         \/ \E told \in {"draining", "unpublished"} : Control!DeleteModelInstance(told)
         \/ Control!Unpublish \/ Control!WaitForDrain \/ Control!VerifyStopped
         \/ Control!CommandKilled
  PROVE  WorkersKnown'
<1>0. /\ proc \in [Pid -> ProcessRecord \cup {None}] /\ resume \in {"verify", "compensate"}
      /\ st \in StateRecord /\ file \in StateRecord \cup {None}
  BY DEF ControlType
<1>1. ~ unrecorded
  BY DEF Control!Publish, Control!PublishModel, Control!WriteUnstarted,
     Control!WaitForWorkerIdentity, Control!FirstHeartbeat, Control!HeartbeatTimeout,
     Control!ReleaseIfRunning, Control!ActivationFails, Control!DeleteUnconfirmed,
     Control!DeleteModelInstance, Control!Unpublish, Control!WaitForDrain,
     Control!VerifyStopped, Control!CommandKilled, Control!Still, Control!Goto, Control!history
<1>2. UNCHANGED proc
  BY DEF Control!Publish, Control!PublishModel, Control!WriteUnstarted,
     Control!WaitForWorkerIdentity, Control!FirstHeartbeat, Control!HeartbeatTimeout,
     Control!ReleaseIfRunning, Control!ActivationFails, Control!DeleteUnconfirmed,
     Control!DeleteModelInstance, Control!Unpublish, Control!WaitForDrain,
     Control!VerifyStopped, Control!CommandKilled, Control!Still, Control!Goto
<1>3. cmd' # "identify"
  BY <1>0 DEF Control!Publish, Control!PublishModel, Control!WriteUnstarted,
     Control!WaitForWorkerIdentity, Control!FirstHeartbeat, Control!HeartbeatTimeout,
     Control!ReleaseIfRunning, Control!ActivationFails, Control!DeleteUnconfirmed,
     Control!DeleteModelInstance, Control!Unpublish, Control!WaitForDrain,
     Control!VerifyStopped, Control!CommandKilled, Control!Goto
<1> SUFFICES ASSUME NEW p \in Pid, Ours(p), WorkerKnown(p)
             PROVE  WorkerKnown(p)'
  BY <1>1, <1>2, <1>3, StillKnown DEF Ours
<1>4. proc[p] # None /\ proc[p].marker \in 1 .. MaxProc /\ proc[p].marker # None
  BY <1>0, ControlAssumption DEF Ours, ProcessRecord
<1>5. /\ NoneRuns = FALSE
      /\ ChildKnown => child # None /\ Names(child, p)
      /\ FileKnown => file # None /\ Names(file, p)
      /\ HeldKnown => Names(st, p)
      /\ file # None /\ file.marker = proc[p].marker => file.pid = p
      /\ st.marker = proc[p].marker => st.pid = p
  BY DEF WorkerKnown, NoneRuns
<1>6. CASE Control!Publish
  <2>1. cmd = "idle" /\ file = None
    BY <1>6 DEF Control!Publish
  <2> QED
    BY <2>1, <1>5 DEF FileKnown
<1>7. CASE Control!PublishModel \/ Control!WriteUnstarted
  BY <1>5, <1>7 DEF NoneRuns, Control!PublishModel, Control!WriteUnstarted
<1>8. CASE Control!WaitForWorkerIdentity
  <2>1. /\ cmd = "identify" /\ st' = [st EXCEPT !.marker = child.marker] /\ file' = st'
        /\ cmd' = "await" /\ UNCHANGED child
    BY <1>8 DEF Control!WaitForWorkerIdentity
  <2>2. Names(child, p) /\ child # None /\ child.pid = st.pid
    BY <1>1, <1>5, <2>1 DEF ChildKnown, WorkersKnown
  <2>3. st'.pid = p /\ st'.marker = proc[p].marker /\ file' # None
    <3>1. st' \in StateRecord
      BY <2>1, <2>2, <1>0, <1>4 DEF StateRecord, Names
    <3> QED
      BY <3>1, <2>1, <2>2, <1>0, ControlKinds DEF StateRecord, Names
  <2> QED
    BY <1>2, <2>1, <2>2, <2>3
       DEF WorkerKnown, NoneRuns, ChildKnown, FileKnown, HeldKnown, Names, Signalling
<1>9. CASE Control!FirstHeartbeat \/ Control!ReleaseIfRunning
  <2>1. /\ cmd \in {"await", "release"} /\ cmd' \in {"release", "idle", "compensate"}
        /\ UNCHANGED <<file, st, child, resume>>
    BY <1>9 DEF Control!FirstHeartbeat, Control!ReleaseIfRunning, Control!Goto, Control!Still,
       Control!local
  <2> QED
    BY <1>2, <1>5, <2>1
       DEF WorkerKnown, NoneRuns, ChildKnown, FileKnown, HeldKnown, Names, Signalling
<1>10. CASE Control!ActivationFails
  <2>1. /\ cmd \in {"write", "spawn", "identify", "await"} /\ cmd' = "compensate"
        /\ UNCHANGED <<file, st, child, resume>>
    BY <1>10 DEF Control!ActivationFails, Control!Goto, Control!Still, Control!local
  <2> QED
    BY <1>2, <1>5, <2>1
       DEF WorkerKnown, NoneRuns, ChildKnown, FileKnown, HeldKnown, Names, Signalling
<1>11. CASE Control!HeartbeatTimeout
  <2>1. /\ cmd = "await" /\ file # None /\ st' = file /\ cmd' = "check" /\ resume' = "compensate"
        /\ UNCHANGED <<file, child>>
    BY <1>11 DEF Control!HeartbeatTimeout, Control!local
  <2> QED
    BY <1>2, <1>5, <2>1
       DEF WorkerKnown, NoneRuns, ChildKnown, FileKnown, HeldKnown, Names, Signalling
<1>12. CASE \/ Control!DeleteUnconfirmed
            \/ \E told \in {"draining", "unpublished"} : Control!DeleteModelInstance(told)
  <2>1. /\ cmd = "preserve" /\ cmd' = "idle" /\ UNCHANGED <<file, st, child, resume>>
    BY <1>5, <1>12 DEF NoneRuns, Control!DeleteUnconfirmed, Control!DeleteModelInstance,
       Control!Reconcile, Control!Goto, Control!local
  <2> QED
    BY <1>2, <1>5, <2>1
       DEF WorkerKnown, NoneRuns, ChildKnown, FileKnown, HeldKnown, Names, Signalling
<1>13. CASE Control!Unpublish
  <2>1. /\ cmd = "idle" /\ file # None /\ st' = file /\ cmd' \in {"idle", "drain"}
        /\ UNCHANGED <<file, resume>>
    BY <1>13 DEF Control!Unpublish
  <2> QED
    BY <1>2, <1>5, <2>1
       DEF WorkerKnown, NoneRuns, ChildKnown, FileKnown, HeldKnown, Names, Signalling
<1>14. CASE Control!WaitForDrain
  <2>1. /\ cmd = "drain" /\ cmd' \in {"idle", "check", "verify"} /\ resume' = "verify"
        /\ UNCHANGED <<file, st, child>>
    BY <1>14 DEF Control!WaitForDrain, Control!Still, Control!local
  <2> QED
    BY <1>2, <1>5, <2>1
       DEF WorkerKnown, NoneRuns, ChildKnown, FileKnown, HeldKnown, Names, Signalling
\* The worker is the one that has been looked for, so it has not stopped.
<1>15. CASE Control!VerifyStopped
  <2>1. cmd = "verify" /\ UNCHANGED <<file, st, child, resume>>
    BY <1>15 DEF Control!VerifyStopped, Control!Still, Control!local
  <2>2. Names(st, p)
    BY <1>5, <2>1 DEF HeldKnown
  <2>3. Control!WorkerProcessIsRunning(st) # "stopped"
    BY <2>2, <1>4, ControlAssumption
       DEF Names, Control!WorkerProcessIsRunning, Control!RawProcessExists
  <2>4. cmd' = "idle"
    BY <1>15, <2>3 DEF Control!VerifyStopped
  <2> QED
    BY <1>2, <1>5, <2>1, <2>4
       DEF WorkerKnown, NoneRuns, ChildKnown, FileKnown, HeldKnown, Names, Signalling
\* A command that is killed leaves its child recorded.
<1>16. CASE Control!CommandKilled
  <2>1. /\ cmd' = "idle" /\ UNCHANGED <<file, st, resume>>
        /\ ~ (Control!ChildAlive /\ (file = None \/ file.marker # child.marker))
    BY <1>16 DEF Control!CommandKilled, Control!local
  <2>2. file # None /\ Names(file, p)
    <3>1. CASE FileKnown
      BY <3>1, <1>5
    <3>2. CASE ~ FileKnown
      <4>1. child # None /\ Names(child, p)
        BY <3>2, <1>5 DEF FileKnown, ChildKnown
      <4>2. Control!ChildAlive
        BY <4>1, <1>4 DEF Control!ChildAlive, Names
      <4> QED
        BY <4>1, <4>2, <2>1, <1>5 DEF Names
    <3> QED
      BY <3>1, <3>2
  <2> QED
    BY <1>2, <1>5, <2>1, <2>2
       DEF WorkerKnown, NoneRuns, ChildKnown, FileKnown, HeldKnown, Names, Signalling
<1> QED
  BY <1>6, <1>7, <1>8, <1>9, <1>10, <1>11, <1>12, <1>13, <1>14, <1>15, <1>16

\* A child is started only when no worker runs.
LEMMA SpawnKeeps ==
  ASSUME ControlType, MarkersGiven, WorkersKnown, ~ unrecorded, Control!SpawnWorker
  PROVE  WorkersKnown'
<1>0. /\ proc \in [Pid -> ProcessRecord \cup {None}] /\ marker \in 0 .. MaxProc /\ MaxProc \in Nat
      /\ st \in StateRecord /\ file \in StateRecord \cup {None}
  BY ControlAssumption DEF ControlType
<1>1. PICK p \in Pid :
        /\ proc[p] = None
        /\ proc' = [proc EXCEPT ![p] = [marker |-> marker + 1, kind |-> "starting"]]
        /\ st' = [st EXCEPT !.pid = p]
        /\ child' = [pid |-> p, marker |-> marker + 1]
  BY DEF Control!SpawnWorker
<1>2. cmd = "spawn" /\ cmd' = "identify" /\ marker < MaxProc /\ UNCHANGED <<file, resume>>
  BY DEF Control!SpawnWorker, Control!local
<1>3. \A q \in Pid : ~ Ours(q)
  BY <1>2 DEF WorkersKnown, WorkerKnown, NoneRuns
<1>4. \A q \in Pid : Ours(q)' => q = p
  BY <1>0, <1>1, <1>3 DEF Ours
<1>5. child' # None /\ child'.pid = p /\ child'.marker = marker + 1
  <2>1. marker + 1 \in 1 .. MaxProc
    BY <1>0, <1>2
  <2>2. child' \in ChildRecord
    BY <1>1, <2>1 DEF ChildRecord
  <2> QED
    BY <1>1, <2>2, ControlKinds
<1>6. st'.pid = p /\ st'.marker = st.marker
  BY <1>0, <1>1 DEF StateRecord
<1>7. proc'[p].marker = marker + 1
  BY <1>0, <1>1
<1>8. /\ file # None => file.marker # marker + 1
      /\ st.marker # marker + 1
  <2>1. /\ file # None => file.marker \in (1 .. MaxProc) \cup {None}
        /\ st.marker \in (1 .. MaxProc) \cup {None}
    BY <1>0 DEF StateRecord
  <2>2. marker + 1 \in 1 .. MaxProc /\ marker + 1 # None /\ marker \in Nat
    BY <1>0, <1>2, ControlAssumption
  <2>3. ASSUME NEW m \in 1 .. MaxProc, m <= marker PROVE m # marker + 1
    BY <2>2, <2>3
  <2> QED
    BY <2>1, <2>2, <2>3 DEF MarkersGiven
<1>9. WorkerKnown(p)'
  BY <1>2, <1>5, <1>6, <1>7, <1>8
     DEF WorkerKnown, NoneRuns, ChildKnown, FileKnown, HeldKnown, Names, Signalling
<1> QED
  BY <1>2, <1>4, <1>5, <1>6, <1>9 DEF WorkersKnown

\* The compensation kills the child, or records it.
LEMMA ReapKeeps ==
  ASSUME ControlType, MarkersGiven, WorkersKnown, ~ unrecorded, Control!StopAndReap
  PROVE  WorkersKnown'
<1>0. /\ proc \in [Pid -> ProcessRecord \cup {None}]
      /\ st \in StateRecord /\ file \in StateRecord \cup {None}
      /\ child \in ChildRecord \cup {None}
  BY DEF ControlType
<1>1. cmd = "compensate" /\ file' = st' /\ UNCHANGED <<child, resume>>
  BY DEF Control!StopAndReap
<1>2. \A p \in Pid : Ours(p) => child # None /\ Names(child, p)
  BY <1>1 DEF WorkersKnown, WorkerKnown, ChildKnown
<1>3. CASE /\ proc' = IF Control!ChildAlive THEN [proc EXCEPT ![child.pid] = None] ELSE proc
           /\ cmd' = "cleanup"
  <2>1. \A p \in Pid : ~ Ours(p)'
    BY <1>0, <1>2, <1>3 DEF Ours, Names, Control!ChildAlive
  <2> QED
    BY <1>3, <2>1 DEF WorkersKnown
<1>4. CASE /\ Control!ChildAlive
           /\ st' = [Control!Recovery EXCEPT !.pid = child.pid, !.marker = child.marker]
           /\ cmd' = "preserve" /\ UNCHANGED proc
  <2>1. Control!Recovery \in StateRecord /\ child \in ChildRecord
    BY <1>0, <1>4 DEF Control!Recovery, Control!ChildAlive
  <2>2. st' \in StateRecord /\ st'.pid = child.pid /\ st'.marker = child.marker
    BY <1>4, <2>1 DEF StateRecord, ChildRecord
  <2>3. file' # None
    BY <1>1, <2>2, ControlKinds
  <2>4. ASSUME NEW p \in Pid, Ours(p) PROVE WorkerKnown(p)'
    BY <1>1, <1>2, <1>4, <2>2, <2>3, <2>4
       DEF WorkerKnown, NoneRuns, ChildKnown, FileKnown, HeldKnown, Names, Signalling
  <2> QED
    BY <1>4, <2>4, StillKnown DEF Ours
<1> QED
  BY <1>3, <1>4 DEF Control!StopAndReap

\* A worker, or another program.
LEMMA ProcessKeeps ==
  ASSUME ControlType, MarkersGiven, WorkersKnown, ~ unrecorded,
         NEW p \in Pid, Control!Worker(p) \/ Control!ProcessExits(p) \/ Control!OtherStarts(p)
  PROVE  WorkersKnown'
<1>0. proc \in [Pid -> ProcessRecord \cup {None}]
  BY DEF ControlType
<1>1. UNCHANGED <<cmd, st, child, resume>>
  BY DEF Control!Worker, Control!WorkerReads, Control!WorkerWrites, Control!WorkerHeartbeat,
     Control!WorkerDrains, Control!ProcessExits, Control!OtherStarts, Control!command
<1>2. CASE Control!WorkerWrites(p) \/ Control!WorkerHeartbeat(p)
  <2>1. /\ proc[p] # None /\ Ours(p)
    BY <1>2 DEF Control!WorkerWrites, Control!WorkerHeartbeat, Control!IsWorker, Ours
  <2>2. PICK beat \in BOOLEAN : file' = Control!State(p, proc[p].marker, beat)
    BY <1>2 DEF Control!WorkerWrites, Control!WorkerHeartbeat
  <2>3. file' # None /\ file'.pid = p /\ file'.marker = proc[p].marker
    <3>1. proc[p].marker \in 1 .. MaxProc
      BY <2>1, <1>0 DEF ProcessRecord
    <3> QED
      BY <2>2, <3>1, StateNamed
  <2>4. \A q \in Pid : Ours(q)' => Ours(q) /\ proc'[q].marker = proc[q].marker
    <3>1. CASE Control!WorkerWrites(p)
      <4>1. /\ proc' = [proc EXCEPT ![p].kind = "worker"] /\ proc[p] \in ProcessRecord
        BY <3>1, <2>1, <1>0 DEF Control!WorkerWrites
      <4>2. proc'[p].marker = proc[p].marker
        BY <4>1, <1>0 DEF ProcessRecord
      <4>3. \A q \in Pid : q # p => proc'[q] = proc[q]
        BY <4>1, <1>0
      <4> QED
        BY <4>2, <4>3, <2>1 DEF Ours
    <3>2. CASE Control!WorkerHeartbeat(p)
      BY <3>2 DEF Control!WorkerHeartbeat, Ours
    <3> QED
      BY <1>2, <3>1, <3>2
  <2>5. \A q \in Pid : Ours(q) => q = p
    BY <2>1 DEF WorkersKnown
  <2>6. WorkerKnown(p) => WorkerKnown(p)'
    <3> SUFFICES ASSUME WorkerKnown(p), proc'[p].marker = proc[p].marker PROVE WorkerKnown(p)'
      <4>1. proc'[p].marker = proc[p].marker
        <5>1. CASE Control!WorkerWrites(p)
          <6>1. proc' = [proc EXCEPT ![p].kind = "worker"] /\ proc[p] \in ProcessRecord
            BY <5>1, <2>1, <1>0 DEF Control!WorkerWrites
          <6> QED
            BY <6>1, <1>0 DEF ProcessRecord
        <5>2. CASE Control!WorkerHeartbeat(p)
          BY <5>2 DEF Control!WorkerHeartbeat
        <5> QED
          BY <1>2, <5>1, <5>2
      <4> QED
        BY <4>1
    <3> QED
      BY <1>1, <2>3 DEF WorkerKnown, NoneRuns, ChildKnown, FileKnown, HeldKnown, Names
  <2> QED
    BY <1>1, <2>4, <2>5, <2>6, StillKnown DEF WorkersKnown
<1>3. CASE \/ Control!WorkerReads(p) \/ Control!WorkerDrains(p) \/ Control!ProcessExits(p)
           \/ Control!OtherStarts(p)
  <2>1. UNCHANGED file
    BY <1>3 DEF Control!WorkerReads, Control!WorkerDrains, Control!ProcessExits,
       Control!OtherStarts, Control!local
  <2>2. \A q \in Pid : Ours(q)' => Ours(q) /\ proc'[q].marker = proc[q].marker
    <3>1. CASE Control!WorkerReads(p)
      <4>1. /\ proc[p] # None /\ proc[p].kind = "starting" /\ proc[p] \in ProcessRecord
            /\ \/ proc' = [proc EXCEPT ![p] = None]
               \/ proc' = [proc EXCEPT ![p] = [proc[p] EXCEPT !.kind = "read"]]
        BY <3>1, <1>0 DEF Control!WorkerReads
      <4>2. [proc[p] EXCEPT !.kind = "read"].marker = proc[p].marker
        BY <4>1 DEF ProcessRecord
      <4> QED
        BY <4>1, <4>2, <1>0 DEF Ours
    <3>2. CASE Control!WorkerDrains(p) \/ Control!ProcessExits(p)
      BY <3>2, <1>0 DEF Control!WorkerDrains, Control!ProcessExits, Ours
    <3>3. CASE Control!OtherStarts(p)
      BY <3>3, <1>0 DEF Control!OtherStarts, Ours
    <3> QED
      BY <1>3, <3>1, <3>2, <3>3
  <2>3. \A q \in Pid : Ours(q)' => (WorkerKnown(q) => WorkerKnown(q)')
    BY <1>1, <2>1, <2>2 DEF WorkerKnown, NoneRuns, ChildKnown, FileKnown, HeldKnown, Names
  <2> QED
    BY <1>1, <2>2, <2>3, StillKnown DEF WorkersKnown
<1> QED
  BY <1>2, <1>3 DEF Control!Worker

LEMMA ControlNext == ControlInv /\ [Control!Next]_control => ControlInv'
<1> SUFFICES ASSUME ControlInv, [Control!Next]_control PROVE ControlInv'
  OBVIOUS
<1> ControlType /\ MarkersGiven /\ NotStale /\ WorkersKnown
  BY DEF ControlInv
<1>1. ControlType' /\ MarkersGiven' /\ NotStale'
  BY ControlTypes, NotStaleNext
<1>2. CASE UNCHANGED control
  BY <1>2 DEF control, WorkersKnown, WorkerKnown, Ours, NoneRuns, ChildKnown, FileKnown,
     HeldKnown, Names, ControlInv, ControlType, MarkersGiven, NotStale
<1>3. CASE Control!DrainingEnds
  <2>1. UNCHANGED <<proc, file, cmd, st, child, resume, unrecorded>>
    BY <1>3 DEF Control!DrainingEnds, Control!local, Control!command, Control!history
  <2>2. WorkersKnown'
    BY <2>1 DEF WorkersKnown, WorkerKnown, Ours, NoneRuns, ChildKnown, FileKnown, HeldKnown,
       Names
  <2> QED
    BY <1>1, <2>2 DEF ControlInv
<1>4. CASE unrecorded'
  BY <1>1, <1>4 DEF ControlInv, WorkersKnown
<1>5. CASE ~ unrecorded' /\ Control!Next /\ ~ Control!DrainingEnds
  <2>1. CASE Control!Command
    <3>1. Control!StopAndReap \/ Control!SpawnWorker \/ Control!StopVerifiedWorker => ~ unrecorded
      BY <1>5 DEF Control!StopAndReap, Control!SpawnWorker, Control!StopVerifiedWorker,
         Control!CheckedBeforeSignal, Control!Checked, Control!Signal, Control!history
    <3>2. WorkersKnown'
      BY <1>5, <2>1, <3>1, CheckKeeps, CommandKeeps, SpawnKeeps, ReapKeeps DEF Control!Command
    <3> QED
      BY <1>1, <3>2 DEF ControlInv
  <2>2. CASE \E p \in Pid : Control!Worker(p) \/ Control!ProcessExits(p) \/ Control!OtherStarts(p)
    <3>1. ~ unrecorded
      BY <1>5, <2>2 DEF Control!Worker, Control!WorkerReads, Control!WorkerWrites,
         Control!WorkerHeartbeat, Control!WorkerDrains, Control!ProcessExits,
         Control!OtherStarts, Control!history
    <3>2. WorkersKnown'
      BY <2>2, <3>1, ProcessKeeps
    <3> QED
      BY <1>1, <3>2 DEF ControlInv
  <2> QED
    BY <1>5, <2>1, <2>2 DEF Control!Next
<1> QED
  BY <1>2, <1>3, <1>4, <1>5

\* The invariant holds in every state.
LEMMA ControlHolds == Spec => []ControlInv
<1>1. Init => ControlInv
  BY ControlInit DEF Init
<1>2. ControlInv /\ [Next]_vars => ControlInv'
  BY PartSteps, ControlNext
<1> QED
  BY <1>1, <1>2, PTL DEF Spec

LEMMA ControlSafe ==
  ControlInv => Control!TypeOK /\ Control!SignalsOnlyChecked /\ Control!OneWorker
<1> SUFFICES ASSUME ControlInv
             PROVE  Control!TypeOK /\ Control!SignalsOnlyChecked /\ Control!OneWorker
  OBVIOUS
<1>1. Control!TypeOK
  BY DEF ControlInv, ControlType, Control!TypeOK, ProcessRecord, StateRecord
<1>2. Control!SignalsOnlyChecked
  BY DEF ControlInv, NotStale, Control!SignalsOnlyChecked
<1>3. Control!OneWorker
  BY DEF ControlInv, WorkersKnown, Control!OneWorker, Control!IsWorker, Ours
<1> QED
  BY <1>1, <1>2, <1>3

\* Publish and unpublish leave at most one worker however a command is killed,
\* a worker exits or a PID is given to another program, signal nobody whose
\* identity the check before did not see, and give the state file up only with
\* the publication (publish, compensate_failed_publish, unpublish,
\* validate_worker_identity, reconcile_local_unpublish_state), for any number of
\* processes and PIDs.
THEOREM WorkerAlwaysControlled == Spec => WorkerControlled
<1>1. ControlInv /\ [Next]_vars =>
        [file # None /\ file' = None => server' = "unpublished"]_(Control!vars)
  <2> SUFFICES ASSUME ControlInv, Control!Next, file # None, file' = None
               PROVE  server' = "unpublished"
    BY PartSteps DEF control, Control!vars, Control!local, Control!command, Control!history
  <2>0. /\ st \in StateRecord /\ child \in ChildRecord \cup {None}
        /\ proc \in [Pid -> ProcessRecord \cup {None}]
    BY DEF ControlInv, ControlType
  <2>1. CASE \E told \in {"draining", "unpublished"} : Control!DeleteModelInstance(told)
    <3>1. PICK told \in {"draining", "unpublished"} : Control!DeleteModelInstance(told)
      BY <2>1
    <3>2. told = server' /\ Control!Reconcile(told, cmd = "preserve")
      BY <3>1 DEF Control!DeleteModelInstance, Control!Unpublishes
    <3>3. Control!ClearWorkerIdentity(st) # None
      BY <2>0, StateCleared
    <3> QED
      BY <3>2, <3>3 DEF Control!Reconcile, Control!local
  <2>2. CASE Control!StopAndReap \/ Control!WaitForWorkerIdentity \/ Control!WriteUnstarted
    <3>1. ControlType'
      BY ControlTypes DEF ControlInv
    <3>2. file' \in StateRecord
      BY <2>2, <2>0, <3>1 DEF Control!StopAndReap, Control!WaitForWorkerIdentity,
         Control!WriteUnstarted, ControlType
    <3> QED
      BY <3>2, ControlKinds
  <2>3. CASE \E p \in Pid : Control!WorkerWrites(p) \/ Control!WorkerHeartbeat(p)
    <3>1. PICK p \in Pid : Control!WorkerWrites(p) \/ Control!WorkerHeartbeat(p)
      BY <2>3
    <3>2. PICK beat \in BOOLEAN : file' = Control!State(p, proc[p].marker, beat)
      BY <3>1 DEF Control!WorkerWrites, Control!WorkerHeartbeat
    <3>3. proc[p].marker \in 1 .. MaxProc
      BY <3>1, <2>0 DEF Control!WorkerWrites, Control!WorkerHeartbeat, Control!IsWorker,
         ProcessRecord
    <3> QED
      BY <3>2, <3>3, StateNamed
  <2>4. CASE UNCHANGED file
    BY <2>4
  <2>5. UNCHANGED file \/ Control!StopAndReap \/ Control!WaitForWorkerIdentity
        \/ Control!WriteUnstarted
        \/ (\E told \in {"draining", "unpublished"} : Control!DeleteModelInstance(told))
        \/ (\E p \in Pid : Control!WorkerWrites(p) \/ Control!WorkerHeartbeat(p))
    BY DEF Control!Next, Control!Command, Control!Publish, Control!PublishModel,
       Control!SpawnWorker, Control!FirstHeartbeat, Control!HeartbeatTimeout,
       Control!ReleaseIfRunning, Control!ActivationFails, Control!DeleteUnconfirmed,
       Control!Unpublish, Control!WaitForDrain, Control!StopVerifiedWorker,
       Control!CheckedBeforeSignal, Control!Signal, Control!VerifyStopped,
       Control!CommandKilled, Control!Worker, Control!WorkerReads, Control!WorkerDrains,
       Control!ProcessExits, Control!OtherStarts, Control!DrainingEnds, Control!Still,
       Control!local
  <2> QED
    BY <2>1, <2>2, <2>3, <2>4, <2>5
<1> QED
  BY <1>1, ControlHolds, ControlSafe, PTL
     DEF Spec, WorkerControlled, Control!FileOutlivesPublication

-----------------------------------------------------------------------------
(***************************************************************************)
(* Logs.  Every file is a run of consecutive lines, and the files end in   *)
(* the order of their ages; so a line that is lost with the oldest one is  *)
(* older than every line that is kept.                                     *)
(***************************************************************************)
Ending(s) == s[Len(s)]
IsRun(s) == s \in Seq(Nat) /\ \A i \in 1 .. Len(s) : s[i] + (Len(s) - i) = Ending(s)
Generation == 1 .. Generations
Rotating == {"remove", "shift", "persist"}

\* What is in a run.
LEMMA RunLines ==
  ASSUME NEW s, IsRun(s), NEW l
  PROVE  /\ l \in Logs!Lines(s) => l \in Nat /\ Ending(s) - Len(s) < l /\ l <= Ending(s) /\ s # <<>>
         /\ l \in Nat /\ s # <<>> /\ Ending(s) - Len(s) < l /\ l <= Ending(s) => l \in Logs!Lines(s)
<1>0. s \in Seq(Nat) /\ DOMAIN s = 1 .. Len(s) /\ Len(s) \in Nat
      /\ \A i \in 1 .. Len(s) : s[i] \in Nat /\ s[i] + (Len(s) - i) = Ending(s)
  BY DEF IsRun
<1>1. ASSUME l \in Logs!Lines(s)
      PROVE  l \in Nat /\ Ending(s) - Len(s) < l /\ l <= Ending(s) /\ s # <<>>
  <2>1. PICK i \in 1 .. Len(s) : l = s[i]
    BY <1>0, <1>1 DEF Logs!Lines
  <2>2. Ending(s) \in Nat
    BY <1>0, <2>1 DEF Ending
  <2> QED
    BY <1>0, <2>1, <2>2
<1>2. ASSUME l \in Nat, s # <<>>, Ending(s) - Len(s) < l, l <= Ending(s)
      PROVE  l \in Logs!Lines(s)
  <2>1. Len(s) \in 1 .. Len(s)
    BY <1>0, <1>2, EmptySeq
  <2>2. Ending(s) \in Nat
    BY <1>0, <2>1 DEF Ending
  <2> DEFINE i == l - (Ending(s) - Len(s))
  <2>3. i \in 1 .. Len(s)
    BY <1>0, <1>2, <2>2
  <2>4. s[i] = l
    BY <1>0, <1>2, <2>2, <2>3
  <2> QED
    BY <1>0, <2>3, <2>4 DEF Logs!Lines
<1> QED
  BY <1>1, <1>2

\* The empty file is a run, and a run that is not empty has an end.
LEMMA RunEmpty == IsRun(<<>>) /\ Logs!Lines(<<>>) = {} /\ Len(<<>>) = 0
<1>1. <<>> \in Seq(Nat) /\ Len(<<>>) = 0 /\ DOMAIN <<>> = {}
  BY EmptySeq
<1> QED
  BY <1>1 DEF IsRun, Logs!Lines

LEMMA RunEnds ==
  ASSUME NEW s, IsRun(s), s # <<>>
  PROVE  Len(s) \in Nat \ {0} /\ Ending(s) \in Nat
<1>1. s \in Seq(Nat) /\ Len(s) \in Nat /\ Len(s) # 0
  BY EmptySeq DEF IsRun
<1> QED
  BY <1>1 DEF Ending

\* The next line makes a longer run.
LEMMA RunAppend ==
  ASSUME NEW s, IsRun(s), NEW l \in Nat, s # <<>> => Ending(s) = l
  PROVE  /\ IsRun(Append(s, l + 1)) /\ Append(s, l + 1) # <<>> /\ Ending(Append(s, l + 1)) = l + 1
         /\ Len(Append(s, l + 1)) = Len(s) + 1
         /\ \A i \in 1 .. Len(s) : Append(s, l + 1)[i] = s[i]
<1> DEFINE t == Append(s, l + 1)
<1>1. s \in Seq(Nat) /\ Len(s) \in Nat
  BY DEF IsRun
<1>2. /\ t \in Seq(Nat) /\ Len(t) = Len(s) + 1
      /\ \A i \in 1 .. Len(s) : t[i] = s[i]
      /\ t[Len(s) + 1] = l + 1
  BY <1>1
<1>3. ASSUME NEW i \in 1 .. Len(t) PROVE t[i] + (Len(t) - i) = l + 1
  <2>1. CASE i = Len(s) + 1
    BY <1>1, <1>2, <2>1
  <2>2. CASE i # Len(s) + 1
    <3>1. i \in 1 .. Len(s) /\ s # <<>>
      BY <1>1, <1>2, <2>2, EmptySeq
    <3>2. s[i] + (Len(s) - i) = l /\ s[i] \in Nat
      BY <3>1, <1>1 DEF IsRun
    <3> QED
      BY <1>1, <1>2, <3>1, <3>2
  <2> QED
    BY <2>1, <2>2
<1>4. Ending(t) = l + 1 /\ t # <<>>
  BY <1>1, <1>2, EmptySeq DEF Ending
<1> HIDE DEF t
<1>5. IsRun(t)
  BY <1>2, <1>3, <1>4 DEF IsRun
<1> QED
  BY <1>2, <1>4, <1>5 DEF t

\* The snapshot of a run.
LEMMA RunTailed ==
  ASSUME NEW s, IsRun(s), NEW n \in 1 .. Len(s)
  PROVE  /\ IsRun(Logs!Tailed(s, n)) /\ Logs!Tailed(s, n) # <<>>
         /\ Ending(Logs!Tailed(s, n)) = s[n] /\ Len(Logs!Tailed(s, n)) <= MaxLines
<1> DEFINE from == IF n > MaxLines THEN n - MaxLines + 1 ELSE 1
           t == SubSeq(s, from, n)
<1>1. s \in Seq(Nat) /\ Len(s) \in Nat /\ MaxLines \in Nat \ {0}
      /\ \A i \in 1 .. Len(s) : s[i] \in Nat /\ s[i] + (Len(s) - i) = Ending(s)
  BY LogAssumption DEF IsRun
<1>2. from \in 1 .. n /\ n \in Nat
  BY <1>1
<1>3. n - from + 1 <= MaxLines
  BY <1>1
<1> HIDE DEF from
<1>4. /\ t \in Seq(Nat) /\ Len(t) = n - from + 1
      /\ \A i \in 1 .. Len(t) : t[i] = s[from + i - 1]
  <2>1. \A i \in from .. n : s[i] \in Nat
    BY <1>1, <1>2
  <2> QED
    BY <1>1, <1>2, <2>1, SubSeqProperties
<1>5. Ending(t) = s[n] /\ Len(t) \in Nat \ {0}
  <2>1. Len(t) \in 1 .. Len(t) /\ from + Len(t) - 1 = n
    BY <1>2, <1>4
  <2> QED
    BY <1>2, <1>4, <2>1 DEF Ending
<1>6. ASSUME NEW i \in 1 .. Len(t) PROVE t[i] + (Len(t) - i) = Ending(t)
  <2> DEFINE j == from + i - 1
             len == Len(t)
             c == Len(s)
             a == s[j]
             b == s[n]
  <2>1. t[i] = s[j] /\ j \in 1 .. Len(s) /\ j \in Nat /\ i \in Nat
    BY <1>2, <1>4
  <2>2. s[j] \in Nat /\ s[n] \in Nat
    BY <1>1, <2>1
  <2>3. s[j] + (Len(s) - j) = s[n] + (Len(s) - n)
    BY <1>1, <2>1
  <2>4. len \in Nat /\ len - i = n - j
    BY <1>2, <1>4, <2>1
  <2>5. a \in Nat /\ b \in Nat /\ c \in Nat /\ a + (c - j) = b + (c - n)
    BY <1>1, <2>2, <2>3
  <2> HIDE DEF j, len, a, b, c
  <2>6. a + (len - i) = b
    BY <1>2, <2>1, <2>4, <2>5
  <2> QED
    BY <1>5, <2>1, <2>6 DEF len, a, b
<1>7. t # <<>>
  BY <1>5, EmptySeq
<1>8. Logs!Tailed(s, n) = t
  BY DEF Logs!Tailed, from
<1> HIDE DEF t
<1>9. IsRun(t)
  BY <1>4, <1>6 DEF IsRun
<1> QED
  BY <1>3, <1>4, <1>5, <1>7, <1>8, <1>9

\* A line that is not in a run, and not after it, is before all of it.
LEMMA RunOlder ==
  ASSUME NEW s, IsRun(s), NEW l \in Nat, l \notin Logs!Lines(s), s # <<>> => l <= Ending(s),
         NEW m \in Logs!Lines(s)
  PROVE  l < m
<1>1. m \in Nat /\ s # <<>> /\ Ending(s) - Len(s) < m
  BY RunLines
<1>2. Ending(s) \in Nat /\ Len(s) \in Nat
  BY <1>1, RunEnds
<1>3. ~ (Ending(s) - Len(s) < l)
  BY <1>1, RunLines
<1> QED
  BY <1>1, <1>2, <1>3

LogFiles ==
  /\ line \in 0 .. MaxLine /\ cleared \in 0 .. line
  /\ IsRun(log) /\ (log # <<>> => Ending(log) = line)
  /\ gen \in [Generation -> Seq(Nat)]
  /\ \A i \in Generation :
       IsRun(gen[i]) /\ Len(gen[i]) <= MaxLines /\ (gen[i] # <<>> => Ending(gen[i]) <= line)

LogOrder ==
  \A i, j \in Generation :
    i < j /\ gen[i] # <<>> /\ gen[j] # <<>> => Ending(gen[j]) <= Ending(gen[i])

\* A file whose lines are nowhere else is not overwritten, but for the oldest.
Spare(i) ==
  gen[i] = <<>> \/ (log_kind # "worker" /\ (i = Generations \/ gen[i + 1] = gen[i]))

\* What is rotated is newer than the generations.
LogPlace ==
  /\ rotation \in Rotating \cup {"idle", "truncate"}
  /\ rotation \in Rotating =>
       /\ k \in Generation /\ size \in 1 .. Len(log)
       /\ \A i \in Generation : gen[i] # <<>> => Ending(gen[i]) <= log[size]
  /\ rotation = "remove" => log_kind = "worker" /\ k = Generations
  /\ rotation \in {"shift", "persist"} => Spare(k)
  /\ rotation = "persist" =>
       k = 1 /\ IsRun(snapshot) /\ snapshot # <<>> /\ Ending(snapshot) = log[size]
       /\ Len(snapshot) <= MaxLines

LogClear ==
  /\ clear \in 0 .. Generations + 1
  /\ clear >= 2 =>
       rotation = "idle" /\ log = <<>> /\ \A i \in Generation : i < clear - 1 => gen[i] = <<>>

LogInv == LogFiles /\ LogOrder /\ LogPlace /\ LogClear

\* The line that is lost with the oldest generation is older than the others.
LEMMA OldestLost ==
  ASSUME LogFiles, NEW o \in Generation, NEW l \in Logs!Lines(gen[o]),
         NEW g \in [Generation -> Seq(Nat)],
         \A i \in Generation : IsRun(g[i]),
         \A i \in Generation : g[i] # <<>> => Ending(gen[o]) <= Ending(g[i]),
         \A i \in Generation : l \notin Logs!Lines(g[i])
  PROVE  \A i \in Generation : \A m \in Logs!Lines(g[i]) : l < m
<1>1. IsRun(gen[o])
  BY DEF LogFiles
<1>2. l \in Nat /\ l <= Ending(gen[o]) /\ gen[o] # <<>>
  BY <1>1, RunLines
<1>3. Ending(gen[o]) \in Nat
  BY <1>1, <1>2, RunEnds
<1>4. ASSUME NEW i \in Generation PROVE g[i] # <<>> => l <= Ending(g[i])
  <2> SUFFICES ASSUME g[i] # <<>> PROVE l <= Ending(g[i])
    OBVIOUS
  <2>1. Ending(g[i]) \in Nat
    BY RunEnds
  <2>2. Ending(gen[o]) <= Ending(g[i])
    OBVIOUS
  <2> QED
    BY <1>2, <1>3, <2>1, <2>2
<1> QED
  BY <1>2, <1>4, RunOlder

\* What a step on the generations has to keep.
LEMMA LogFilesKept ==
  ASSUME LogFiles, LogOrder,
         NEW g \in [Generation -> Seq(Nat)],
         \A i \in Generation : IsRun(g[i]) /\ Len(g[i]) <= MaxLines,
         NEW f \in [Generation -> Generation],
         \A i \in Generation : g[i] # <<>> => g[i] = gen[f[i]],
         \A i, j \in Generation : i < j /\ g[i] # <<>> /\ g[j] # <<>> => f[i] <= f[j]
  PROVE  /\ \A i \in Generation : g[i] # <<>> => Ending(g[i]) <= line
         /\ \A i, j \in Generation :
              i < j /\ g[i] # <<>> /\ g[j] # <<>> => Ending(g[j]) <= Ending(g[i])
<1>1. \A i \in Generation : g[i] # <<>> => Ending(g[i]) <= line
  BY DEF LogFiles
<1>2. ASSUME NEW i \in Generation, NEW j \in Generation, i < j, g[i] # <<>>, g[j] # <<>>
      PROVE  Ending(g[j]) <= Ending(g[i])
  <2>1. f[i] \in Generation /\ f[j] \in Generation /\ f[i] <= f[j]
    BY <1>2
  <2>2. g[i] = gen[f[i]] /\ g[j] = gen[f[j]]
    BY <1>2
  <2>3. Ending(g[i]) \in Nat
    BY <1>2, RunEnds
  <2>4. CASE f[i] = f[j]
    BY <2>2, <2>3, <2>4
  <2>5. CASE f[i] < f[j]
    BY <1>2, <2>1, <2>2, <2>5 DEF LogOrder
  <2> QED
    BY <2>1, <2>4, <2>5, LogAssumption DEF Generation
<1> QED
  BY <1>1, <1>2

\* The two action properties, of one step.
Loses ==
  clear = 0 => \A l \in Logs!Retained \ Logs!Retained' :
                 Logs!Older(l) \/ (rotation = "truncate" /\ l \notin Logs!Lines(gen'[1]))
Clears == clear > 0 /\ clear' = 0 => \A l \in Logs!Retained' : l > cleared

LEMMA LogAppend == ASSUME LogInv, Logs!AppendLine, clear = 0 PROVE LogInv' /\ Loses /\ Clears
<1>1. /\ line < MaxLine /\ line' = line + 1 /\ log' = Append(log, line + 1)
      /\ UNCHANGED <<log_kind, gen, rotation, k, size, snapshot, clear, cleared>>
  BY DEF Logs!AppendLine, Logs!clearVars
<1>2. line \in 0 .. MaxLine /\ cleared \in 0 .. line /\ MaxLine \in Nat /\ IsRun(log)
      /\ (log # <<>> => Ending(log) = line) /\ line \in Nat
  BY LogAssumption DEF LogInv, LogFiles
<1>3. /\ IsRun(log') /\ log' # <<>> /\ Ending(log') = line' /\ Len(log') = Len(log) + 1
      /\ \A i \in 1 .. Len(log) : log'[i] = log[i]
  BY <1>1, <1>2, RunAppend
<1>4. log \in Seq(Nat) /\ Len(log) \in Nat /\ DOMAIN log = 1 .. Len(log)
      /\ DOMAIN log' = 1 .. Len(log')
  BY <1>2, <1>3 DEF IsRun
<1>5. line' \in 0 .. MaxLine /\ cleared' \in 0 .. line'
  BY <1>1, <1>2
<1>6. ASSUME NEW i \in Generation, gen[i] # <<>> PROVE Ending(gen[i]) <= line'
  <2>1. IsRun(gen[i]) /\ Ending(gen[i]) <= line
    BY <1>6 DEF LogInv, LogFiles
  <2>2. Ending(gen[i]) \in Nat
    BY <1>6, <2>1, RunEnds
  <2> QED
    BY <1>1, <1>2, <2>1, <2>2
<1>7. LogFiles'
  BY <1>1, <1>3, <1>5, <1>6 DEF LogInv, LogFiles
<1>8. LogOrder'
  BY <1>1 DEF LogInv, LogOrder
<1>9. LogPlace'
  <2>1. size \in 1 .. Len(log) => size \in 1 .. Len(log') /\ log'[size] = log[size]
    BY <1>3, <1>4
  <2>2. \A i \in Generation : Spare(i) <=> Spare(i)'
    BY <1>1 DEF Spare
  <2>3. rotation \in Rotating => k \in Generation /\ size \in 1 .. Len(log)
    BY DEF LogInv, LogPlace
  <2>4. rotation \in {"shift", "persist"} => rotation \in Rotating
    BY DEF Rotating
  <2> QED
    BY <1>1, <2>1, <2>2, <2>3, <2>4 DEF LogInv, LogPlace, Rotating
<1>10. LogClear'
  BY <1>1 DEF LogInv, LogClear
<1>11. Logs!Retained \subseteq Logs!Retained'
  <2>1. Logs!Lines(log) \subseteq Logs!Lines(log')
    BY <1>3, <1>4 DEF Logs!Lines
  <2> QED
    BY <1>1, <2>1 DEF Logs!Retained
<1> QED
  BY <1>1, <1>7, <1>8, <1>9, <1>10, <1>11 DEF LogInv, Loses, Clears

LEMMA LogBegin == ASSUME LogInv, Logs!BeginRotation PROVE LogInv' /\ Loses /\ Clears
<1>1. /\ rotation = "idle" /\ Logs!Full
      /\ rotation' = (IF log_kind = "worker" THEN "remove" ELSE "shift")
      /\ k' = Generations /\ size' = Len(log)
      /\ UNCHANGED <<log_kind, line, log, gen, snapshot, clear, cleared>>
  BY DEF Logs!BeginRotation, Logs!clearVars, Logs!file
<1>2. IsRun(log) /\ (log # <<>> => Ending(log) = line)
  BY DEF LogInv, LogFiles
<1>3. log # <<>> /\ Len(log) \in Nat \ {0}
  <2>1. Len(log) \in Nat /\ MaxLines \in Nat \ {0}
    BY <1>2, LogAssumption DEF IsRun
  <2>2. Len(log) # 0
    BY <1>1, <2>1 DEF Logs!Full
  <2> QED
    BY <2>1, <2>2, RunEmpty
<1>4. log[size'] = line
  BY <1>1, <1>2, <1>3 DEF Ending
<1>5. k' \in Generation /\ size' \in 1 .. Len(log)
  BY <1>1, <1>3, LogAssumption DEF Generation
<1>6. LogFiles' /\ LogOrder'
  BY <1>1 DEF LogInv, LogFiles, LogOrder
<1>7. LogPlace'
  <2>1. \A i \in Generation : gen[i] # <<>> => Ending(gen[i]) <= log[size']
    BY <1>4 DEF LogInv, LogFiles
  <2>2. CASE log_kind = "worker"
    BY <1>1, <1>5, <2>1, <2>2 DEF LogPlace, Rotating
  <2>3. CASE log_kind # "worker"
    <3>1. Spare(k)'
      BY <1>1, <2>3 DEF Spare
    <3> QED
      BY <1>1, <1>5, <2>1, <2>3, <3>1 DEF LogPlace, Rotating
  <2> QED
    BY <2>2, <2>3
<1>8. LogClear'
  <2>1. ~ clear >= 2
    BY <1>3 DEF LogInv, LogClear
  <2> QED
    BY <1>1, <2>1 DEF LogInv, LogClear
<1>9. Logs!Retained = Logs!Retained'
  BY <1>1 DEF Logs!Retained
<1> QED
  BY <1>1, <1>6, <1>7, <1>8, <1>9 DEF LogInv, Loses, Clears

\* What a line that a step on the generations loses was in.
LEMMA LostFrom ==
  ASSUME log' = log, NEW l \in Logs!Retained \ Logs!Retained'
  PROVE  /\ \E o \in Generation : l \in Logs!Lines(gen[o])
         /\ \A i \in Generation : l \notin Logs!Lines(gen'[i])
  BY DEF Logs!Retained, Generation

LEMMA LogRemove == ASSUME LogInv, Logs!RemoveOldest PROVE LogInv' /\ Loses /\ Clears
<1>1. /\ rotation = "remove" /\ rotation' = "shift" /\ gen' = [gen EXCEPT ![Generations] = <<>>]
      /\ UNCHANGED <<log_kind, line, log, k, size, snapshot, clear, cleared>>
  BY DEF Logs!RemoveOldest, Logs!clearVars
<1>2. /\ Generations \in Generation /\ gen \in [Generation -> Seq(Nat)] /\ <<>> \in Seq(Nat)
      /\ gen' \in [Generation -> Seq(Nat)] /\ gen'[Generations] = <<>>
      /\ \A i \in Generation \ {Generations} : gen'[i] = gen[i]
  BY <1>1, LogAssumption DEF Generation, LogInv, LogFiles
<1>3. LogFiles'
  <2>1. \A i \in Generation : IsRun(gen'[i]) /\ Len(gen'[i]) <= MaxLines
                              /\ (gen'[i] # <<>> => Ending(gen'[i]) <= line)
    <3>1. 0 <= MaxLines
      BY LogAssumption
    <3>2. IsRun(gen'[Generations]) /\ Len(gen'[Generations]) <= MaxLines
      BY <1>2, <3>1, RunEmpty
    <3> QED
      BY <1>2, <3>2 DEF LogInv, LogFiles
  <2> QED
    BY <1>1, <1>2, <2>1 DEF LogInv, LogFiles
<1>4. LogOrder'
  BY <1>2 DEF LogInv, LogOrder
<1>5. LogPlace'
  <2>1. k = Generations /\ k \in Generation /\ size \in 1 .. Len(log)
        /\ \A i \in Generation : gen[i] # <<>> => Ending(gen[i]) <= log[size]
    BY <1>1 DEF LogInv, LogPlace, Rotating
  <2>2. Spare(k)'
    BY <1>1, <1>2, <2>1 DEF Spare
  <2> QED
    BY <1>1, <1>2, <2>1, <2>2 DEF LogPlace, Rotating
<1>6. LogClear'
  BY <1>1 DEF LogInv, LogClear
<1>7. ASSUME NEW l \in Logs!Retained \ Logs!Retained' PROVE Logs!Older(l)
  <2>1. \A i \in Generation : l \notin Logs!Lines(gen'[i])
    BY <1>1, <1>7, LostFrom
  <2>2. l \in Logs!Lines(gen[Generations])
    BY <1>1, <1>2, <1>7, <2>1, LostFrom
  <2>3. ASSUME NEW i \in Generation, gen'[i] # <<>> PROVE Ending(gen[Generations]) <= Ending(gen'[i])
    <3>0. i # Generations
      BY <1>2, <2>3
    <3>1. i \in Generation \ {Generations} /\ gen'[i] = gen[i] /\ i < Generations
      BY <1>2, <3>0, LogAssumption DEF Generation
    <3>2. gen[Generations] # <<>>
      BY <2>2, RunEmpty
    <3> QED
      BY <1>2, <2>3, <3>1, <3>2 DEF LogInv, LogOrder
  <2>4. \A i \in Generation : \A m \in Logs!Lines(gen'[i]) : l < m
    BY <1>2, <1>3, <2>1, <2>2, <2>3, OldestLost DEF LogInv, LogFiles
  <2> QED
    BY <2>4 DEF Logs!Older, Generation
<1> QED
  BY <1>1, <1>3, <1>4, <1>5, <1>6, <1>7 DEF LogInv, Loses, Clears

LEMMA LogShift == ASSUME LogInv, Logs!ShiftGeneration PROVE LogInv' /\ Loses /\ Clears
<1>1. /\ rotation = "shift" /\ k > 1 /\ gen' = Logs!Shifted /\ k' = k - 1
      /\ UNCHANGED <<log_kind, line, log, rotation, size, snapshot, clear, cleared>>
  BY DEF Logs!ShiftGeneration, Logs!clearVars
<1>2. /\ k \in Generation /\ size \in 1 .. Len(log) /\ Spare(k)
      /\ \A i \in Generation : gen[i] # <<>> => Ending(gen[i]) <= log[size]
  BY <1>1 DEF LogInv, LogPlace, Rotating
<1>3. Generations \in Nat \ {0} /\ k \in Nat /\ k - 1 \in Generation /\ k - 1 # k
  BY <1>1, <1>2, LogAssumption DEF Generation
<1>4. gen \in [Generation -> Seq(Nat)] /\ <<>> \in Seq(Nat)
  BY DEF LogInv, LogFiles
<1> DEFINE Moves == gen[k - 1] # <<>>
           f == [i \in Generation |-> IF Moves /\ i = k THEN k - 1 ELSE i]
<1>5. ~ Moves => gen' = gen
  BY <1>1 DEF Logs!Shifted
<1>6. /\ Moves => gen'[k] = gen[k - 1]
      /\ Moves /\ log_kind # "worker" => gen'[k - 1] = gen[k - 1]
      /\ Moves /\ log_kind = "worker" => gen'[k - 1] = <<>>
      /\ \A i \in Generation \ {k, k - 1} : gen'[i] = gen[i]
      /\ gen' \in [Generation -> Seq(Nat)]
  BY <1>1, <1>2, <1>3, <1>4 DEF Logs!Shifted
<1>7. f \in [Generation -> Generation] /\ \A i \in Generation : f[i] = IF Moves /\ i = k THEN k - 1 ELSE i
  BY <1>3
<1>8. \A i \in Generation : gen'[i] # <<>> => gen'[i] = gen[f[i]]
  BY <1>5, <1>6, <1>7
<1>9. Moves /\ log_kind = "worker" => gen'[k - 1] = <<>>
  BY <1>6
<1>10. ASSUME NEW i \in Generation, NEW j \in Generation, i < j, gen'[i] # <<>>, gen'[j] # <<>>
       PROVE  f[i] <= f[j]
  BY <1>3, <1>7, <1>10 DEF Generation
<1>11. \A i \in Generation : IsRun(gen'[i]) /\ Len(gen'[i]) <= MaxLines
  <2>1. 0 <= MaxLines
    BY LogAssumption
  <2>2. IsRun(<<>>) /\ Len(<<>>) <= MaxLines
    BY <2>1, RunEmpty
  <2>3. ASSUME NEW i \in Generation PROVE IsRun(gen'[i]) /\ Len(gen'[i]) <= MaxLines
    <3>1. CASE gen'[i] = <<>>
      BY <2>2, <3>1
    <3>2. CASE gen'[i] # <<>>
      BY <1>7, <1>8, <3>2 DEF LogInv, LogFiles
    <3> QED
      BY <3>1, <3>2
  <2> QED
    BY <2>3
<1> HIDE DEF Moves, f
<1>12. /\ \A i \in Generation : gen'[i] # <<>> => Ending(gen'[i]) <= line
       /\ \A i, j \in Generation :
            i < j /\ gen'[i] # <<>> /\ gen'[j] # <<>> => Ending(gen'[j]) <= Ending(gen'[i])
  BY <1>6, <1>7, <1>8, <1>10, <1>11, LogFilesKept DEF LogInv
<1>13. LogFiles' /\ LogOrder'
  BY <1>1, <1>6, <1>11, <1>12 DEF LogInv, LogFiles, LogOrder
<1>14. LogPlace'
  <2>1. Spare(k)'
    <3>1. CASE ~ Moves
      BY <1>1, <1>3, <1>5, <3>1 DEF Spare, Moves
    <3>2. CASE Moves /\ log_kind = "worker"
      BY <1>1, <1>6, <3>2 DEF Spare
    <3>3. CASE Moves /\ log_kind # "worker"
      <4>1. k' + 1 = k /\ gen'[k' + 1] = gen'[k']
        BY <1>1, <1>3, <1>6, <3>3
      <4> QED
        BY <1>1, <3>3, <4>1 DEF Spare
    <3> QED
      BY <3>1, <3>2, <3>3
  <2>2. \A i \in Generation : gen'[i] # <<>> => Ending(gen'[i]) <= log[size]
    BY <1>2, <1>7, <1>8
  <2> QED
    BY <1>1, <1>2, <1>3, <2>1, <2>2 DEF LogPlace, Rotating
<1>15. LogClear'
  BY <1>1 DEF LogInv, LogClear
<1>16. ASSUME NEW l \in Logs!Retained \ Logs!Retained' PROVE Logs!Older(l)
  <2>1. \A i \in Generation : l \notin Logs!Lines(gen'[i])
    BY <1>1, <1>16, LostFrom
  <2>2. PICK o \in Generation : l \in Logs!Lines(gen[o])
    BY <1>1, <1>16, LostFrom
  <2>3. gen'[o] # gen[o]
    BY <2>1, <2>2
  <2>4. Moves /\ o = k
    BY <1>2, <1>3, <1>5, <1>6, <2>1, <2>2, <2>3
  <2>5. gen[k] # <<>> /\ gen'[k] = gen[k - 1]
    BY <1>6, <2>2, <2>4, RunEmpty
  <2>6. k = Generations
    <3> SUFFICES ASSUME k # Generations PROVE FALSE
      OBVIOUS
    <3>1. k + 1 \in Generation \ {k, k - 1}
      BY <1>2, <1>3 DEF Generation
    <3>2. gen[k + 1] = gen[k]
      BY <1>2, <2>5 DEF Spare
    <3> QED
      BY <1>6, <2>1, <2>2, <2>4, <3>1, <3>2
  <2>7. ASSUME NEW i \in Generation, gen'[i] # <<>> PROVE Ending(gen[k]) <= Ending(gen'[i])
    <3>1. f[i] \in Generation /\ f[i] < k
      BY <1>2, <1>3, <1>7, <2>4, <2>6 DEF Generation
    <3>2. gen'[i] = gen[f[i]]
      BY <1>8, <2>7
    <3> QED
      BY <1>2, <2>5, <2>7, <3>1, <3>2 DEF LogInv, LogOrder
  <2>8. \A i \in Generation : \A m \in Logs!Lines(gen'[i]) : l < m
    BY <1>2, <1>6, <1>11, <2>1, <2>2, <2>4, <2>7, OldestLost DEF LogInv
  <2> QED
    BY <2>8 DEF Logs!Older, Generation
<1> QED
  BY <1>1, <1>13, <1>14, <1>15, <1>16 DEF LogInv, Loses, Clears

LEMMA LogSnapshot == ASSUME LogInv, Logs!TakeSnapshot PROVE LogInv' /\ Loses /\ Clears
<1>1. /\ rotation = "shift" /\ k = 1 /\ rotation' = "persist"
      /\ snapshot' = Logs!Tailed(log, IF size > Len(log) THEN Len(log) ELSE size)
      /\ UNCHANGED <<log_kind, line, log, gen, k, size, clear, cleared>>
  BY DEF Logs!TakeSnapshot, Logs!clearVars, Logs!file
<1>2. /\ k \in Generation /\ size \in 1 .. Len(log) /\ Spare(k) /\ IsRun(log) /\ Len(log) \in Nat
      /\ \A i \in Generation : gen[i] # <<>> => Ending(gen[i]) <= log[size]
  BY <1>1 DEF LogInv, LogPlace, LogFiles, Rotating, IsRun
<1>3. snapshot' = Logs!Tailed(log, size)
  BY <1>1, <1>2
<1>4. IsRun(snapshot') /\ snapshot' # <<>> /\ Ending(snapshot') = log[size] /\ Len(snapshot') <= MaxLines
  BY <1>2, <1>3, RunTailed
<1>5. LogFiles' /\ LogOrder'
  BY <1>1 DEF LogInv, LogFiles, LogOrder
<1>6. LogPlace'
  <2>1. Spare(k)'
    BY <1>1, <1>2 DEF Spare
  <2> QED
    BY <1>1, <1>2, <1>4, <2>1 DEF LogPlace, Rotating
<1>7. LogClear'
  BY <1>1 DEF LogInv, LogClear
<1>8. Logs!Retained = Logs!Retained'
  BY <1>1 DEF Logs!Retained
<1> QED
  BY <1>1, <1>5, <1>6, <1>7, <1>8 DEF LogInv, Loses, Clears

LEMMA LogPersist == ASSUME LogInv, Logs!PersistFirst PROVE LogInv' /\ Loses /\ Clears
<1>1. /\ rotation = "persist"
      /\ IF log_kind = "worker" /\ gen[1] # <<>>
         THEN rotation' = "failed" /\ UNCHANGED gen
         ELSE rotation' = "truncate" /\ gen' = [gen EXCEPT ![1] = snapshot]
      /\ UNCHANGED <<log_kind, line, log, k, size, clear, cleared>>
  BY DEF Logs!PersistFirst, Logs!clearVars
<1>2. /\ k = 1 /\ 1 \in Generation /\ size \in 1 .. Len(log) /\ Spare(1) /\ IsRun(log)
      /\ IsRun(snapshot) /\ snapshot # <<>> /\ Ending(snapshot) = log[size] /\ Len(snapshot) <= MaxLines
      /\ \A i \in Generation : gen[i] # <<>> => Ending(gen[i]) <= log[size]
  BY <1>1 DEF LogInv, LogPlace, LogFiles, Rotating
<1>3. rotation' = "truncate" /\ gen' = [gen EXCEPT ![1] = snapshot]
  BY <1>1, <1>2 DEF Spare
<1>4. gen \in [Generation -> Seq(Nat)] /\ snapshot \in Seq(Nat) /\ log # <<>>
  <2>1. log # <<>>
    BY <1>2, RunEmpty
  <2> QED
    BY <1>2, <2>1 DEF LogInv, LogFiles, IsRun
<1>5. /\ gen' \in [Generation -> Seq(Nat)] /\ gen'[1] = snapshot
      /\ \A i \in Generation \ {1} : gen'[i] = gen[i]
  BY <1>2, <1>3, <1>4
<1>6. log[size] <= line
  <2>1. log[size] \in Nat /\ log[size] + (Len(log) - size) = line /\ Len(log) \in Nat
    BY <1>2, <1>4 DEF IsRun, LogInv, LogFiles
  <2> DEFINE a == log[size]
             len == Len(log)
  <2>2. size \in 1 .. len /\ a \in Nat /\ len \in Nat /\ a + (len - size) = line
    BY <1>2, <2>1
  <2>3. line \in Nat
    BY LogAssumption DEF LogInv, LogFiles
  <2> HIDE DEF a, len
  <2>4. a <= line
    BY <2>2, <2>3
  <2> QED
    BY <2>4 DEF a
<1>7. LogFiles'
  <2>1. \A i \in Generation : IsRun(gen'[i]) /\ Len(gen'[i]) <= MaxLines
                              /\ (gen'[i] # <<>> => Ending(gen'[i]) <= line)
    BY <1>2, <1>5, <1>6 DEF LogInv, LogFiles
  <2> QED
    BY <1>1, <1>5, <2>1 DEF LogInv, LogFiles
<1>8. LogOrder'
  <2>1. ASSUME NEW i \in Generation, NEW j \in Generation, i < j, gen'[i] # <<>>, gen'[j] # <<>>
        PROVE  Ending(gen'[j]) <= Ending(gen'[i])
    <3>1. j # 1 /\ gen'[j] = gen[j]
      BY <1>5, <2>1 DEF Generation
    <3>2. CASE i = 1
      BY <1>2, <1>5, <2>1, <3>1, <3>2
    <3>3. CASE i # 1
      BY <1>5, <2>1, <3>1, <3>3 DEF LogInv, LogOrder
    <3> QED
      BY <3>2, <3>3
  <2> QED
    BY <2>1 DEF LogOrder
<1>9. LogPlace'
  BY <1>3 DEF LogPlace, Rotating
<1>10. LogClear'
  BY <1>1 DEF LogInv, LogClear
<1>11. ASSUME NEW l \in Logs!Retained \ Logs!Retained' PROVE Logs!Older(l)
  <2>1. \A i \in Generation : l \notin Logs!Lines(gen'[i])
    BY <1>1, <1>11, LostFrom
  <2>2. l \in Logs!Lines(gen[1])
    BY <1>1, <1>5, <1>11, <2>1, LostFrom
  <2>3. gen[1] # <<>>
    BY <2>2, RunEmpty
  <2>4. Generations = 1
    <3> SUFFICES ASSUME Generations # 1 PROVE FALSE
      OBVIOUS
    <3>1. 1 + 1 \in Generation \ {1}
      BY LogAssumption DEF Generation
    <3>2. gen[1 + 1] = gen[1]
      BY <1>2, <2>3 DEF Spare
    <3> QED
      BY <1>5, <2>1, <2>2, <3>1, <3>2
  <2>5. ASSUME NEW i \in Generation PROVE Ending(gen[1]) <= Ending(gen'[i])
    BY <1>2, <1>5, <2>3, <2>4 DEF Generation
  <2>6. \A i \in Generation : IsRun(gen'[i])
    BY <1>7 DEF LogFiles
  <2>7. \A i \in Generation : \A m \in Logs!Lines(gen'[i]) : l < m
    BY <1>2, <1>5, <2>1, <2>2, <2>5, <2>6, OldestLost DEF LogInv
  <2> QED
    BY <2>7 DEF Logs!Older, Generation
<1> QED
  BY <1>1, <1>7, <1>8, <1>9, <1>10, <1>11 DEF LogInv, Loses, Clears

LEMMA LogTruncate == ASSUME LogInv, Logs!Truncate PROVE LogInv' /\ Loses /\ Clears
<1>1. /\ rotation = "truncate" /\ log' = <<>> /\ rotation' = "idle"
      /\ UNCHANGED <<log_kind, line, gen, k, size, snapshot, clear, cleared>>
  BY DEF Logs!Truncate, Logs!clearVars
<1>2. LogFiles' /\ LogOrder'
  BY <1>1, RunEmpty DEF LogInv, LogFiles, LogOrder
<1>3. LogPlace'
  BY <1>1 DEF LogPlace, Rotating
<1>4. LogClear'
  BY <1>1 DEF LogInv, LogClear
<1>5. \A l \in Logs!Retained \ Logs!Retained' : l \notin Logs!Lines(gen'[1])
  BY LogAssumption DEF Logs!Retained
<1> QED
  BY <1>1, <1>2, <1>3, <1>4, <1>5 DEF LogInv, Loses, Clears

LEMMA LogDies == ASSUME LogInv, Logs!MonitorDies PROVE LogInv' /\ Loses /\ Clears
<1>1. /\ rotation \notin {"idle", "failed"} /\ rotation' = "idle"
      /\ UNCHANGED <<log_kind, line, log, gen, k, size, clear, cleared>>
  BY DEF Logs!MonitorDies, Logs!clearVars, Logs!file
<1>2. LogFiles' /\ LogOrder'
  BY <1>1 DEF LogInv, LogFiles, LogOrder
<1>3. LogPlace'
  BY <1>1 DEF LogPlace, Rotating
<1>4. LogClear'
  BY <1>1 DEF LogInv, LogClear
<1>5. Logs!Retained = Logs!Retained'
  BY <1>1 DEF Logs!Retained
<1> QED
  BY <1>1, <1>2, <1>3, <1>4, <1>5 DEF LogInv, Loses, Clears

LEMMA LogBeginClear == ASSUME LogInv, Logs!BeginClear PROVE LogInv' /\ Loses /\ Clears
<1>1. /\ clear = 0 /\ clear' = 1 /\ cleared' = line
      /\ UNCHANGED <<log_kind, line, log, gen, rotation, k, size, snapshot>>
  BY DEF Logs!BeginClear, Logs!file
<1>2. LogFiles'
  <2>1. line \in Nat
    BY LogAssumption DEF LogInv, LogFiles
  <2>2. cleared' \in 0 .. line'
    BY <1>1, <2>1
  <2> QED
    BY <1>1, <2>2 DEF LogInv, LogFiles
<1>3. LogOrder'
  BY <1>1 DEF LogInv, LogOrder
<1>4. LogPlace'
  <2>1. \A i \in Generation : Spare(i) <=> Spare(i)'
    BY <1>1 DEF Spare
  <2>2. rotation \in {"shift", "persist"} => k \in Generation
    BY DEF LogInv, LogPlace, Rotating
  <2> QED
    BY <1>1, <2>1, <2>2 DEF LogInv, LogPlace
<1>5. LogClear'
  BY <1>1, LogAssumption DEF LogClear
<1>6. Logs!Retained = Logs!Retained'
  BY <1>1 DEF Logs!Retained
<1> QED
  BY <1>1, <1>2, <1>3, <1>4, <1>5, <1>6 DEF LogInv, Loses, Clears

LEMMA LogClearNext == ASSUME LogInv, Logs!ClearNext PROVE LogInv' /\ Loses /\ Clears
<1>1. /\ clear > 0 /\ Logs!ClearLocked
      /\ IF clear = 1 THEN log' = <<>> /\ UNCHANGED gen
         ELSE gen' = [gen EXCEPT ![clear - 1] = <<>>] /\ UNCHANGED log
      /\ clear' = (IF clear = Generations + 1 THEN 0 ELSE clear + 1)
      /\ UNCHANGED <<log_kind, line, rotation, k, size, snapshot, cleared>>
  BY DEF Logs!ClearNext
<1>2. clear \in 1 .. Generations + 1 /\ Generations \in Nat \ {0} /\ clear \in Nat
  BY <1>1, LogAssumption DEF LogInv, LogClear
<1>3. rotation = "idle"
  BY <1>1, <1>2 DEF Logs!ClearLocked, LogInv, LogClear
<1>4. log' = <<>>
  BY <1>1, <1>2 DEF LogInv, LogClear
<1>5. /\ gen' \in [Generation -> Seq(Nat)]
      /\ \A i \in Generation : gen'[i] = IF i = clear - 1 THEN <<>> ELSE gen[i]
  <2>1. gen \in [Generation -> Seq(Nat)] /\ <<>> \in Seq(Nat)
    BY DEF LogInv, LogFiles
  <2>2. CASE clear = 1
    BY <1>1, <2>1, <2>2 DEF Generation
  <2>3. CASE clear # 1
    BY <1>1, <1>2, <2>1, <2>3 DEF Generation
  <2> QED
    BY <2>2, <2>3
<1>6. LogFiles'
  <2>1. 0 <= MaxLines
    BY LogAssumption
  <2>2. \A i \in Generation : IsRun(gen'[i]) /\ Len(gen'[i]) <= MaxLines
                              /\ (gen'[i] # <<>> => Ending(gen'[i]) <= line)
    BY <1>5, <2>1, RunEmpty DEF LogInv, LogFiles
  <2> QED
    BY <1>1, <1>4, <1>5, <2>2, RunEmpty DEF LogInv, LogFiles
<1>7. LogOrder'
  BY <1>5 DEF LogInv, LogOrder
<1>8. LogPlace'
  BY <1>1, <1>3 DEF LogPlace, Rotating
<1>9. \A i \in Generation : i < clear => gen'[i] = <<>>
  <2> SUFFICES ASSUME NEW i \in Generation, i < clear PROVE gen'[i] = <<>>
    OBVIOUS
  <2>1. CASE i = clear - 1
    BY <1>5, <2>1
  <2>2. CASE i # clear - 1
    <3>1. clear >= 2 /\ i < clear - 1
      BY <1>2, <2>2 DEF Generation
    <3>2. gen[i] = <<>>
      BY <3>1 DEF LogInv, LogClear
    <3> QED
      BY <1>5, <2>2, <3>2
  <2> QED
    BY <2>1, <2>2
<1>10. LogClear'
  BY <1>1, <1>2, <1>3, <1>4, <1>9 DEF LogClear
<1>11. clear' = 0 => Logs!Retained' = {}
  <2> SUFFICES ASSUME clear' = 0 PROVE Logs!Retained' = {}
    OBVIOUS
  <2>1. clear = Generations + 1
    BY <1>1, <1>2
  <2>2. \A i \in Generation : gen'[i] = <<>>
    BY <1>2, <1>9, <2>1 DEF Generation
  <2> QED
    BY <1>4, <2>2, RunEmpty DEF Logs!Retained, Generation
<1> QED
  BY <1>1, <1>6, <1>7, <1>8, <1>10, <1>11 DEF LogInv, Loses, Clears

LEMMA LogNext ==
  ASSUME LogInv, [Logs!Next]_logs
  PROVE  LogInv' /\ [Loses /\ Clears]_(Logs!vars)
<1>1. CASE UNCHANGED logs
  <2>1. UNCHANGED Logs!vars
    BY <1>1 DEF logs, Logs!vars, Logs!file, Logs!clearVars
  <2>2. \A i : Spare(i) <=> Spare(i)'
    BY <1>1 DEF Spare, logs
  <2>3. LogFiles' /\ LogOrder' /\ LogClear'
    BY <1>1 DEF LogInv, LogFiles, LogOrder, LogClear, logs
  <2>4. LogPlace'
    BY <1>1, <2>2 DEF LogInv, LogPlace, logs
  <2> QED
    BY <2>1, <2>3, <2>4 DEF LogInv
<1>2. CASE Logs!Next
  BY <1>2, LogAppend, LogBegin, LogRemove, LogShift, LogSnapshot, LogPersist, LogTruncate, LogDies,
     LogBeginClear, LogClearNext DEF Logs!Next
<1> QED
  BY <1>1, <1>2

\* A log is kept whatever is rotated, dies or is cleared beside it: the
\* worker's rotation never fails, the generations stay bounded and in order,
\* only the oldest lines are lost, and a service starts with an empty history.
THEOREM LogsAlwaysKept == Spec => LogsKept
<1>1. Init => LogInv
  <2> SUFFICES ASSUME Init PROVE LogInv
    OBVIOUS
  <2>1. Logs!Init
    BY DEF Init
  <2>2. /\ line = 0 /\ log = <<>> /\ gen = [i \in Generation |-> <<>>] /\ rotation = "idle"
        /\ clear = 0 /\ cleared = 0
    BY <2>1 DEF Logs!Init, Generation
  <2>3. LogFiles
    <3>1. 0 <= MaxLines /\ MaxLine \in Nat
      BY LogAssumption
    <3>2. \A i \in Generation : gen[i] = <<>>
      BY <2>2
    <3> QED
      BY <2>2, <3>1, <3>2, RunEmpty DEF LogFiles
  <2>4. LogOrder
    BY <2>2 DEF LogOrder
  <2>5. LogPlace /\ LogClear
    BY <2>2, LogAssumption DEF LogPlace, LogClear, Rotating
  <2> QED
    BY <2>3, <2>4, <2>5 DEF LogInv
<1>2. LogInv /\ [Next]_vars => LogInv' /\ [Loses /\ Clears]_(Logs!vars)
  BY PartSteps, LogNext
<1>3. LogInv => Logs!TypeOK /\ Logs!RotationNeverFails /\ Logs!NewestFirst
  BY DEF LogInv, LogFiles, LogOrder, LogPlace, LogClear, Rotating, Generation, Ending,
     Logs!TypeOK, Logs!RotationNeverFails, Logs!NewestFirst
<1>4. LogInv => (focus = "logs" => Logs!TypeOK /\ Logs!RotationNeverFails /\ Logs!NewestFirst)
  BY <1>3
<1>5. [Loses /\ Clears]_(Logs!vars) =>
        [clear = 0 => \A l \in Logs!Retained \ Logs!Retained' :
           Logs!Older(l) \/ (rotation = "truncate" /\ l \notin Logs!Lines(gen'[1]))]_(Logs!vars)
  BY DEF Loses
<1>6. [Loses /\ Clears]_(Logs!vars) =>
        [clear > 0 /\ clear' = 0 => \A l \in Logs!Retained' : l > cleared]_(Logs!vars)
  BY DEF Clears
<1> QED
  BY <1>1, <1>2, <1>4, <1>5, <1>6, PTL
     DEF Spec, LogsKept, Logs!LosesOnlyOldest, Logs!HistoryCleared
=============================================================================
