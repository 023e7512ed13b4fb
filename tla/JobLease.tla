------------------------------ MODULE JobLease ------------------------------
(***************************************************************************)
(* The coordinator's job table: how a consumer's job is created against a  *)
(* reservation, leased to a contributor's model instance, renewed, failed, *)
(* retried, cancelled, reaped and settled.                                 *)
(*                                                                         *)
(* Every action below is one PostgreSQL transaction of one HTTP handler.   *)
(* Handlers serialise on the rows they lock (the job, the account, the     *)
(* node), so a transaction that commits is one step; one that returns an   *)
(* error rolls back and is a stuttering step.                              *)
(*                                                                         *)
(* Time is kept only as far as the SQL looks at it.  A lease is "live"     *)
(* while lease_expires_at lies ahead; it is "lapsing" once the wall clock  *)
(* has passed it but a transaction may still be running whose now(), fixed *)
(* when it began, lies before; it is "expired" for everyone afterwards.    *)
(*                                                                         *)
(* Source: crates/mindone-coordinator/src/routes/jobs.rs, settlement.rs,   *)
(* routes/openai_gateway.rs, routes/nodes_models.rs.                       *)
(***************************************************************************)
EXTENDS Settlement, FiniteSets

CONSTANTS
  User,          \* account holders: consumers and node owners
  Job,           \* one element per (user, idempotency key)
  Consumer,      \* Consumer[j]: the user a job is charged to
  BaseCost,      \* BaseCost[j]: billing_base_cost_micro, frozen at creation
  MaxMicro,      \* the largest amount an account column holds
  Node,          \* registered contributor nodes
  Instance,      \* published models, each served by one node
  Key,           \* idempotency keys a worker may put on a report
  MaxAttempts,   \* MaxAttempts[j]: 1 for a streaming job
  SpeedClass,    \* SpeedClass[j]: "fast", "standard" or "slow"
  Regulated,     \* the jobs whose route pins one attested instance
  Pin,           \* Pin[j]: that instance, for a regulated job
  GatewayJob,    \* the jobs the public gateway created and may cancel
  NodeOf,        \* NodeOf[i]: the node that serves an instance
  Owner,         \* Owner[n]: the user a node earns for
  Grant,         \* Grant[u]: the quota an account starts with
  Tier,          \* the tiers the quality loop may give the model
  Trust,         \* the trust classes a node may hold
  Limits,        \* the max_concurrent values a node policy may carry
  Beat,          \* the statuses a heartbeat may report
  Audited,       \* the instances the canary may quarantine
  None           \* SQL NULL

\* jobs.reserved_cost_micro: fixed when the job is created, as the High
\* deduction of the base cost its billing snapshot froze.
Cost(j) == Reservation(BaseCost[j])

ASSUME ReservationsAssumption ==
  /\ IsFiniteSet(User)
  /\ IsFiniteSet(Job)
  /\ MaxMicro \in Nat
  /\ Consumer \in [Job -> User]
  /\ BaseCost \in [Job -> Nat \ {0}]
  /\ \A j \in Job : Cost(j) \in 1 .. MaxMicro

\* One element for each micro that the jobs of S keep reserved on u's account.
Units(S, u) ==
  {p \in S \X (1 .. MaxMicro) : Consumer[p[1]] = u /\ p[2] <= Cost(p[1])}

\* The sum of reserved_cost_micro over the jobs of S charged to u.
ReservedBy(S, u) == Cardinality(Units(S, u))

ASSUME JobLeaseAssumption ==
  /\ MaxAttempts \in [Job -> Nat \ {0}]
  /\ SpeedClass \in [Job -> {"fast", "standard", "slow"}]
  /\ Regulated \subseteq Job
  /\ GatewayJob \subseteq Job \ Regulated
  /\ Pin \in [Regulated -> Instance]
  /\ NodeOf \in [Instance -> Node]
  /\ Owner \in [Node -> User]
  /\ Grant \in [User -> Nat]
  /\ Tier \subseteq PerformanceTier
  /\ Trust \subseteq TrustClass
  /\ Limits \subseteq Nat \ {0}
  /\ Beat \subseteq {"online", "paused", "draining"}
  /\ Audited \subseteq Instance
  /\ None \notin Instance
  /\ None \notin Key

VARIABLES
  \* jobs
  status,          \* jobs.status, "none" before the row exists
  attempt_count,   \* jobs.attempt_count
  instance,        \* jobs.model_instance_id
  lease,           \* where now() stands to jobs.lease_expires_at; only a leased
                   \* job has one that is looked at, else "none"
  available,       \* jobs.available_at <= now()
  \* job_attempts
  attempt_status,  \* status of attempt a of a job
  attempt_key,     \* result_idempotency_key of attempt a of a job
  \* quota_accounts, the network reserve and receipts
  spendable,
  reserved,
  reserve_balance,
  receipt,         \* what a job's receipt records, None without one
  \* nodes and model_instances
  node_status,
  max_concurrent,
  instance_status,
  quarantined,
  report           \* the attestation report a regulated job is bound to

jobVars == <<status, attempt_count, instance, lease, available>>
attemptVars == <<attempt_status, attempt_key>>
moneyVars == <<spendable, reserved, reserve_balance, receipt>>
nodeVars == <<node_status, max_concurrent>>
trustVars == <<quarantined, report>>
vars == <<jobVars, attemptVars, moneyVars, nodeVars, instance_status, trustVars>>

Status == {"none", "queued", "leased", "retry", "succeeded", "failed", "cancelled"}
Terminal == {"succeeded", "failed", "cancelled"}
LiveStatus == {"queued", "leased", "retry"}

LiveJobs == {j \in Job : status[j] \in LiveStatus}

\* The jobs finalize_draining_instance and unpublish_model look for.
LeasedOn(i) == {j \in Job : status[j] = "leased" /\ instance[j] = i}

-----------------------------------------------------------------------------
\* The available balance covers the reservation.
Affordable(j) ==
  spendable[Consumer[j]] - reserved[Consumer[j]] >= Cost(j)

\* Mutant of Release: no release.
ReleaseNothing(S) == reserved' = reserved

\* UPDATE quota_accounts SET reserved_micro = reserved_micro - cost WHERE
\* reserved_micro >= cost, once for each job of S; no row updated is an
\* error that rolls the transaction back.
Release(S) ==
  /\ \A u \in User : reserved[u] >= ReservedBy(S, u)
  /\ reserved' = [u \in User |-> reserved[u] - ReservedBy(S, u)]

\* finalize_draining_instance and the closing UPDATE of the reaper: the
\* draining instances of I that hold no lease once S has ended become
\* unpublished.
Finalized(I, S) ==
  [i \in Instance |->
     IF i \in I /\ instance_status[i] = "draining" /\ LeasedOn(i) \subseteq S
       THEN "unpublished"
       ELSE instance_status[i]]

\* UPDATE job_attempts SET status = mark ... WHERE attempt_number = count AND
\* status = 'leased': a row that is no longer leased is left as it is.
Closed(rows, count, mark) ==
  [a \in DOMAIN rows |->
     IF a = count /\ rows[a] = "leased" THEN mark ELSE rows[a]]

-----------------------------------------------------------------------------
(***************************************************************************)
(* What a transaction sees of the leases.  `seen' is the set of lapsing    *)
(* leases whose end lies before the transaction's now().                   *)
(***************************************************************************)
Lapsing == {j \in Job : status[j] = "leased" /\ lease[j] = "lapsing"}

ExpiredFor(j, seen) ==
  status[j] = "leased" /\ (lease[j] = "expired" \/ j \in seen)

\* The leases that count as load on node n.
ActiveOn(n, seen) ==
  {j \in Job : /\ status[j] = "leased"
               /\ NodeOf[instance[j]] = n
               /\ ~ ExpiredFor(j, seen)}

\* Mutant of WithinPolicy: one lease too many.
WithinPolicyOffByOne(n, seen, excluded) ==
  Cardinality(ActiveOn(n, seen) \ excluded) <= max_concurrent[n]

\* enforce_current_policy: the concurrency limit.  Temperature, memory and
\* tags can only reject as well, which is a stuttering step.
WithinPolicy(n, seen, excluded) ==
  Cardinality(ActiveOn(n, seen) \ excluded) < max_concurrent[n]

\* The regulated jobs that wait for their pinned node hold a slot of it.
PinnedWaiting(n) ==
  {j \in Regulated : status[j] \in {"queued", "retry"} /\ NodeOf[Pin[j]] = n}

\* The condition under which reap_invalid_regulated_jobs ends a waiting
\* regulated job.
RouteInvalid(j) ==
  \/ node_status[NodeOf[Pin[j]]] # "online"
  \/ instance_status[Pin[j]] # "published"
  \/ report[j] # "current"

\* regulated_lease_binding_valid
LeaseBindingValid(j) ==
  /\ node_status[NodeOf[instance[j]]] \in {"online", "paused", "draining"}
  /\ instance_status[instance[j]] \in {"published", "draining"}
  /\ report[j] = "current"
  /\ ~ quarantined[instance[j]]

\* Mutant of ExpiredTerminal: off by one on the last attempt.
ExpiredBeyondLast(seen) ==
  {j \in Job : ExpiredFor(j, seen) /\ attempt_count[j] > MaxAttempts[j]}

\* The jobs the two reapers may end.  SKIP LOCKED leaves out any row another
\* transaction holds, so a run of them ends an arbitrary part of these.
ExpiredTerminal(seen) ==
  {j \in Job : ExpiredFor(j, seen) /\ attempt_count[j] >= MaxAttempts[j]}

InvalidWaiting ==
  {j \in Regulated : status[j] \in {"queued", "retry"} /\ RouteInvalid(j)}

-----------------------------------------------------------------------------
(***************************************************************************)
(* Consumers                                                               *)
(***************************************************************************)

\* What create_regulated_job checks of the prepared route it consumes, with
\* check_reserved_capacity_and_policy.
RouteReady(j, seen) ==
  LET n == NodeOf[Pin[j]] IN
  /\ node_status[n] = "online"
  /\ instance_status[Pin[j]] = "published"
  /\ ~ quarantined[Pin[j]]
  /\ Cardinality(ActiveOn(n, seen) \cup PinnedWaiting(n)) < max_concurrent[n]

\* The part both ways of creating a job share: the reservation and the row.  A
\* second request with the same key finds the row and changes nothing.
InsertJob(j) ==
  /\ status[j] = "none"
  /\ Affordable(j)
  /\ reserved' = [reserved EXCEPT ![Consumer[j]] = @ + Cost(j)]
  /\ status' = [status EXCEPT ![j] = "queued"]
  /\ instance' = [instance EXCEPT ![j] = IF j \in Regulated THEN Pin[j] ELSE None]
  /\ available' = [available EXCEPT ![j] = TRUE]
  /\ report' = [report EXCEPT ![j] = IF j \in Regulated THEN "current" ELSE @]
  /\ UNCHANGED <<attempt_count, lease, attemptVars, spendable, reserve_balance,
                 receipt, nodeVars, instance_status, quarantined>>

\* create_job_authenticated
CreateJob(j) == j \notin Regulated /\ InsertJob(j)

\* create_regulated_job
CreateRegulatedJob(j, seen) ==
  /\ j \in Regulated
  /\ RouteReady(j, seen)
  /\ InsertJob(j)

\* The effect of reap_expired_terminal_leases on the jobs R and of
\* reap_invalid_regulated_jobs on the jobs X, as the state they leave.
ReapedStatus(R, X) ==
  [j \in Job |-> IF j \in R \cup X THEN "failed" ELSE status[j]]

ReapedCount(X) ==
  [j \in Job |-> IF j \in X THEN attempt_count[j] + 1 ELSE attempt_count[j]]

ReapedAttempts(R, X) ==
  [j \in Job |->
     IF j \in R THEN Closed(attempt_status[j], attempt_count[j], "expired")
     ELSE IF j \in X THEN [attempt_status[j] EXCEPT ![attempt_count[j] + 1] = "failed"]
     ELSE attempt_status[j]]

ReapedLease(R) == [j \in Job |-> IF j \in R THEN "none" ELSE lease[j]]

\* get_job: both reapers run in the transaction that reads the job.
GetJob(seen, R, X) ==
  /\ R \subseteq ExpiredTerminal(seen)
  /\ X \subseteq InvalidWaiting
  /\ Release(R \cup X)
  /\ status' = ReapedStatus(R, X)
  /\ attempt_count' = ReapedCount(X)
  /\ attempt_status' = ReapedAttempts(R, X)
  /\ lease' = ReapedLease(R)
  /\ instance_status' = Finalized(Instance, R)
  /\ UNCHANGED <<instance, available, attempt_key, spendable, reserve_balance,
                 receipt, nodeVars, trustVars>>

\* cancel_timed_out_job
CancelTimedOutJob(j) ==
  /\ j \in GatewayJob
  /\ status[j] \in LiveStatus
  /\ Release({j})
  /\ attempt_status' =
       IF status[j] = "leased"
         THEN [attempt_status EXCEPT ![j] = Closed(@, attempt_count[j], "failed")]
         ELSE attempt_status
  /\ status' = [status EXCEPT ![j] = "cancelled"]
  /\ lease' = [lease EXCEPT ![j] = "none"]
  /\ instance_status' = Finalized({instance[j]}, {j})
  /\ UNCHANGED <<attempt_count, instance, available, attempt_key, spendable,
                 reserve_balance, receipt, nodeVars, trustVars>>

-----------------------------------------------------------------------------
(***************************************************************************)
(* Workers                                                                 *)
(***************************************************************************)

\* Mutant of Claimable: no limit on attempts.
ClaimableBeyondLast(j, seen) ==
  (status[j] \in {"queued", "retry"} \/ ExpiredFor(j, seen)) /\ available[j]

\* Mutant of Claimable: failed jobs are claimed again.
ClaimableAfterFailure(j, seen) ==
  /\ status[j] \in {"queued", "retry", "failed"} \/ ExpiredFor(j, seen)
  /\ available[j] /\ attempt_count[j] < MaxAttempts[j]

\* The row filter of the candidate query: the job can be leased (again).
Claimable(j, seen) ==
  /\ \/ status[j] \in {"queued", "retry"}
     \/ ExpiredFor(j, seen)
  /\ available[j]
  /\ attempt_count[j] < MaxAttempts[j]

\* Mutant of RouteAllows: any instance will do.
RouteUnpinned(j, i) == j \in Regulated => report[j] # "lapsed"

\* A regulated job goes to its pinned instance, and only while the report it is
\* bound to is valid.
RouteAllows(j, i) == j \in Regulated => instance[j] = i /\ report[j] # "lapsed"

\* Mutant of SpeedAllows: every class shares a node.
SpeedSharesNode(j, load, n) == load < max_concurrent[n]

\* The speed classes: slow shares a node's slots, the others need it whole.
SpeedAllows(j, load, n) ==
  IF SpeedClass[j] = "slow" THEN load < max_concurrent[n] ELSE load = 0

\* The candidate query of claim_job, as far as the row it locks keeps it true,
\* X being the waiting jobs the reaper has just ended.  The ranking among
\* eligible instances rests on measurements, so any of them may come first.
Candidate(j, i, seen, R, X) ==
  LET n == NodeOf[i]
      load == Cardinality((ActiveOn(n, seen) \cup PinnedWaiting(n)) \ (X \cup {j}))
  IN /\ R \subseteq ExpiredTerminal(seen)
     /\ X \subseteq InvalidWaiting
     /\ j \notin X
     /\ node_status[n] = "online"
     /\ WithinPolicy(n, seen, {})
     /\ Claimable(j, seen)
     /\ RouteAllows(j, i)
     /\ SpeedAllows(j, load, n)

\* claim_job on the ordinary path: both reapers, then one job is leased.
\* Without a candidate the transaction still commits what the reapers did,
\* which is the effect of GetJob.
ClaimJob(j, i, seen, R, X) ==
  /\ Candidate(j, i, seen, R, X)
  /\ instance_status[i] = "published"
  /\ ~ quarantined[i]
  /\ Release(R \cup X)
  /\ status' = [ReapedStatus(R, X) EXCEPT ![j] = "leased"]
  /\ attempt_count' = [ReapedCount(X) EXCEPT ![j] = @ + 1]
  /\ attempt_status' =
       [ReapedAttempts(R, X) EXCEPT
          ![j] = [Closed(@, attempt_count[j], "expired")
                    EXCEPT ![attempt_count[j] + 1] = "leased"]]
  /\ instance' = [instance EXCEPT ![j] = i]
  /\ lease' = [ReapedLease(R) EXCEPT ![j] = "live"]
  /\ instance_status' = Finalized(Instance, R)
  /\ UNCHANGED <<available, attempt_key, spendable, reserve_balance, receipt,
                 nodeVars, trustVars>>

\* claim_job when the instance was quarantined or unpublished after the
\* candidate query: the handler answers NO_CONTENT but commits, and with it
\* the 'expired' it has already written to the job's previous attempt.
ClaimLosesInstance(j, i, seen, R, X) ==
  /\ Candidate(j, i, seen, R, X)
  /\ instance_status[i] # "published" \/ quarantined[i]
  /\ Release(R \cup X)
  /\ status' = ReapedStatus(R, X)
  /\ attempt_count' = ReapedCount(X)
  /\ attempt_status' =
       [ReapedAttempts(R, X) EXCEPT ![j] = Closed(@, attempt_count[j], "expired")]
  /\ lease' = ReapedLease(R)
  /\ instance_status' = [Finalized(Instance, R) EXCEPT ![i] = instance_status[i]]
  /\ UNCHANGED <<instance, available, attempt_key, spendable, reserve_balance,
                 receipt, nodeVars, trustVars>>

\* A handler of the node that holds j's lease, in a transaction that began
\* before the lease ended.
HoldsLease(j) == status[j] = "leased" /\ lease[j] \in {"live", "lapsing"}

\* Mutant of FreshReport: looks at the current attempt only.
FreshForAttempt(j, key) ==
  \A a \in DOMAIN attempt_key[j] : a = attempt_count[j] => attempt_key[j][a] # key

\* No attempt of the job has recorded this report yet.
FreshReport(j, key) == \A a \in DOMAIN attempt_key[j] : attempt_key[j][a] # key

\* renew_job
RenewJob(j, seen) ==
  LET n == NodeOf[instance[j]] IN
  /\ HoldsLease(j) /\ j \notin seen
  /\ node_status[n] \in {"online", "paused", "draining", "silent"}
  /\ j \in Regulated => LeaseBindingValid(j)
  /\ WithinPolicy(n, seen, {j})
  /\ lease' = [lease EXCEPT ![j] = "live"]
  /\ UNCHANGED <<status, attempt_count, instance, available, attemptVars,
                 moneyVars, nodeVars, instance_status, trustVars>>

\* fail_regulated_lease_attestation, reached from renew_job and from
\* complete_job when the hardware binding no longer holds.  complete_job asks
\* for it before it looks at the lease, so the lease may have expired.  An
\* attempt that is no longer leased is an internal error.
FailRegulatedLease(j) ==
  /\ j \in Regulated
  /\ status[j] = "leased"
  /\ ~ LeaseBindingValid(j)
  /\ attempt_status[j][attempt_count[j]] = "leased"
  /\ Release({j})
  /\ attempt_status' =
       [attempt_status EXCEPT ![j] = Closed(@, attempt_count[j], "failed")]
  /\ status' = [status EXCEPT ![j] = "failed"]
  /\ lease' = [lease EXCEPT ![j] = "none"]
  /\ instance_status' = Finalized({instance[j]}, {j})
  /\ UNCHANGED <<attempt_count, instance, available, attempt_key, spendable,
                 reserve_balance, receipt, nodeVars, trustVars>>

\* The checks of complete_job and of the tables it writes that stand between
\* a valid lease and its settlement at a given tier.
SettlementAccepted(j, tier) ==
  LET u == Consumer[j]
      deduction == UserDeduction(BaseCost[j], tier)
  IN /\ deduction <= Cost(j)
     /\ spendable[u] >= deduction
     /\ reserved[u] >= ReservedBy({j}, u)
     /\ reserved[u] - ReservedBy({j}, u) <= spendable[u] - deduction

\* complete_job
CompleteJob(j, key, tier, trust) ==
  LET u == Consumer[j]
      payee == Owner[NodeOf[instance[j]]]
      deduction == UserDeduction(BaseCost[j], tier)
      quota == NodeSpendableQuota(BaseCost[j], tier, trust)
      charged == [spendable EXCEPT ![u] = @ - deduction]
  IN /\ HoldsLease(j)
     /\ j \in Regulated => LeaseBindingValid(j)
     /\ FreshReport(j, key)
     /\ SettlementAccepted(j, tier)
     /\ Release({j})
     /\ spendable' = [charged EXCEPT ![payee] = @ + quota]
     /\ reserve_balance' = reserve_balance + ReserveInflow(BaseCost[j], tier, trust)
     /\ receipt' = [receipt EXCEPT ![j] =
          [deduction |-> deduction, quota |-> quota, payee |-> payee]]
     /\ status' = [status EXCEPT ![j] = "succeeded"]
     /\ lease' = [lease EXCEPT ![j] = "none"]
     /\ attempt_status' = [attempt_status EXCEPT ![j][attempt_count[j]] = "succeeded"]
     /\ attempt_key' = [attempt_key EXCEPT ![j][attempt_count[j]] = key]
     /\ instance_status' = Finalized({instance[j]}, {j})
     /\ UNCHANGED <<attempt_count, instance, available, nodeVars, trustVars>>

\* job_fail.  A report whose key some attempt already carries is a replay.
JobFail(j, key, retryable) ==
  /\ FreshReport(j, key)
  /\ HoldsLease(j)
  /\ attempt_status' =
       [attempt_status EXCEPT ![j] = Closed(@, attempt_count[j], "failed")]
  /\ attempt_key' =
       IF attempt_status[j][attempt_count[j]] = "leased"
         THEN [attempt_key EXCEPT ![j][attempt_count[j]] = key]
         ELSE attempt_key
  /\ IF retryable /\ attempt_count[j] < MaxAttempts[j]
       THEN /\ status' = [status EXCEPT ![j] = "retry"]
            /\ instance' = [instance EXCEPT ![j] = IF j \in Regulated THEN @ ELSE None]
            /\ available' = [available EXCEPT ![j] = FALSE]
            /\ UNCHANGED reserved
       ELSE /\ Release({j})
            /\ status' = [status EXCEPT ![j] = "failed"]
            /\ UNCHANGED <<instance, available>>
  /\ lease' = [lease EXCEPT ![j] = "none"]
  /\ instance_status' = Finalized({instance[j]}, {j})
  /\ UNCHANGED <<attempt_count, spendable, reserve_balance, receipt, nodeVars,
                 trustVars>>

-----------------------------------------------------------------------------
(***************************************************************************)
(* Nodes and model instances                                               *)
(***************************************************************************)

\* node_heartbeat: the status it derives and the policy it stores.
NodeHeartbeat(n, s, limit) ==
  /\ node_status' = [node_status EXCEPT ![n] = s]
  /\ max_concurrent' = [max_concurrent EXCEPT ![n] = limit]
  /\ UNCHANGED <<jobVars, attemptVars, moneyVars, instance_status, trustVars>>

\* register_node again: the policy is stored, and the node is offline until the
\* next heartbeat.
RegisterNode(n, limit) ==
  /\ node_status' = [node_status EXCEPT ![n] = "offline"]
  /\ max_concurrent' = [max_concurrent EXCEPT ![n] = limit]
  /\ UNCHANGED <<jobVars, attemptVars, moneyVars, instance_status, trustVars>>

\* publish_model
PublishModel(i) ==
  /\ instance_status' = [instance_status EXCEPT ![i] = "published"]
  /\ UNCHANGED <<jobVars, attemptVars, moneyVars, nodeVars, trustVars>>

\* unpublish_model
UnpublishModel(i) ==
  /\ instance_status' = [instance_status EXCEPT ![i] =
       IF LeasedOn(i) = {} THEN "unpublished" ELSE "draining"]
  /\ UNCHANGED <<jobVars, attemptVars, moneyVars, nodeVars, trustVars>>

-----------------------------------------------------------------------------
(***************************************************************************)
(* Time, silence and trust: what happens to the coordinator                *)
(***************************************************************************)

LeaseLapses(j) ==
  /\ status[j] = "leased" /\ lease[j] = "live"
  /\ lease' = [lease EXCEPT ![j] = "lapsing"]
  /\ UNCHANGED <<status, attempt_count, instance, available, attemptVars,
                 moneyVars, nodeVars, instance_status, trustVars>>

LeaseExpires(j) ==
  /\ status[j] = "leased" /\ lease[j] = "lapsing"
  /\ lease' = [lease EXCEPT ![j] = "expired"]
  /\ UNCHANGED <<status, attempt_count, instance, available, attemptVars,
                 moneyVars, nodeVars, instance_status, trustVars>>

BackoffEnds(j) ==
  /\ status[j] = "retry" /\ ~ available[j]
  /\ available' = [available EXCEPT ![j] = TRUE]
  /\ UNCHANGED <<status, attempt_count, instance, lease, attemptVars,
                 moneyVars, nodeVars, instance_status, trustVars>>

\* 90 seconds without a heartbeat
NodeFallsSilent(n) ==
  /\ node_status[n] \in {"online", "paused", "draining"}
  /\ node_status' = [node_status EXCEPT ![n] = "silent"]
  /\ UNCHANGED <<jobVars, attemptVars, moneyVars, max_concurrent,
                 instance_status, trustVars>>

\* The node attests again, or the report expires or is revoked.  A job stays
\* bound to the report it was created with.
ReportChanges(j, r) ==
  /\ status[j] \in LiveStatus
  /\ <<report[j], r>> \in {<<"current", "superseded">>, <<"current", "lapsed">>,
                          <<"superseded", "lapsed">>}
  /\ report' = [report EXCEPT ![j] = r]
  /\ UNCHANGED <<jobVars, attemptVars, moneyVars, nodeVars, instance_status,
                 quarantined>>

SetQuarantine(i) ==
  /\ i \in Audited
  /\ quarantined' = [quarantined EXCEPT ![i] = ~ @]
  /\ UNCHANGED <<jobVars, attemptVars, moneyVars, nodeVars, instance_status,
                 report>>

-----------------------------------------------------------------------------
Init ==
  /\ status = [j \in Job |-> "none"]
  /\ attempt_count = [j \in Job |-> 0]
  /\ instance = [j \in Job |-> None]
  /\ lease = [j \in Job |-> "none"]
  /\ available = [j \in Job |-> FALSE]
  /\ attempt_status = [j \in Job |-> [a \in 1 .. MaxAttempts[j] |-> "none"]]
  /\ attempt_key = [j \in Job |-> [a \in 1 .. MaxAttempts[j] |-> None]]
  /\ spendable = Grant
  /\ reserved = [u \in User |-> 0]
  /\ reserve_balance = 0
  /\ receipt = [j \in Job |-> None]
  /\ node_status = [n \in Node |-> "offline"]
  /\ max_concurrent \in [Node -> Limits]
  /\ instance_status = [i \in Instance |-> "published"]
  /\ quarantined = [i \in Instance |-> FALSE]
  /\ report = [j \in Job |-> "none"]

ConsumerNext ==
  \/ \E j \in Job : CreateJob(j)
  \/ \E j \in Regulated, seen \in SUBSET Lapsing : CreateRegulatedJob(j, seen)
  \/ \E seen \in SUBSET Lapsing, X \in SUBSET InvalidWaiting :
       \E R \in SUBSET ExpiredTerminal(seen) : GetJob(seen, R, X)
  \/ \E j \in Job : CancelTimedOutJob(j)

WorkerNext ==
  \/ \E seen \in SUBSET Lapsing, X \in SUBSET InvalidWaiting :
       \E R \in SUBSET ExpiredTerminal(seen), j \in Job, i \in Instance :
         ClaimJob(j, i, seen, R, X)
  \/ \E seen \in SUBSET Lapsing, X \in SUBSET InvalidWaiting :
       \E R \in SUBSET ExpiredTerminal(seen), j \in Job, i \in Instance :
         ClaimLosesInstance(j, i, seen, R, X)
  \/ \E j \in Job, seen \in SUBSET Lapsing : RenewJob(j, seen)
  \/ \E j \in Job : FailRegulatedLease(j)
  \/ \E j \in Job, key \in Key, tier \in Tier, trust \in Trust :
       CompleteJob(j, key, tier, trust)
  \/ \E j \in Job, key \in Key, retryable \in BOOLEAN : JobFail(j, key, retryable)

FleetNext ==
  \/ \E n \in Node, s \in Beat, limit \in Limits : NodeHeartbeat(n, s, limit)
  \/ \E n \in Node, limit \in Limits : RegisterNode(n, limit)
  \/ \E i \in Instance : PublishModel(i)
  \/ \E i \in Instance : UnpublishModel(i)

EnvironmentNext ==
  \/ \E j \in Job : LeaseLapses(j)
  \/ \E j \in Job : LeaseExpires(j)
  \/ \E j \in Job : BackoffEnds(j)
  \/ \E n \in Node : NodeFallsSilent(n)
  \/ \E j \in Regulated, r \in {"superseded", "lapsed"} : ReportChanges(j, r)
  \/ \E i \in Instance : SetQuarantine(i)

Next == ConsumerNext \/ WorkerNext \/ FleetNext \/ EnvironmentNext

Spec == Init /\ [][Next]_vars

\* Time passes, and somebody keeps polling: every get_job and every claim_job,
\* whoever sends it, runs the reapers over all jobs.  Workers and nodes are
\* under no obligation.
ReapAll ==
  \E seen \in SUBSET Lapsing : GetJob(seen, ExpiredTerminal(seen), InvalidWaiting)

Fairness ==
  /\ \A j \in Job : WF_vars(LeaseLapses(j)) /\ WF_vars(LeaseExpires(j))
  /\ \A j \in Job : WF_vars(BackoffEnds(j))
  /\ WF_vars(ReapAll)

FairSpec == Spec /\ Fairness

-----------------------------------------------------------------------------
(***************************************************************************)
(* Safety                                                                  *)
(***************************************************************************)
TypeOK ==
  /\ status \in [Job -> Status]
  /\ attempt_count \in [Job -> Nat]
  /\ instance \in [Job -> Instance \cup {None}]
  /\ lease \in [Job -> {"none", "live", "lapsing", "expired"}]
  /\ available \in [Job -> BOOLEAN]
  /\ DOMAIN attempt_status = Job /\ DOMAIN attempt_key = Job
  /\ \A j \in Job :
       /\ attempt_status[j] \in
            [1 .. MaxAttempts[j] -> {"none", "leased", "succeeded", "failed", "expired"}]
       /\ attempt_key[j] \in [1 .. MaxAttempts[j] -> Key \cup {None}]
       /\ status[j] = "leased" => instance[j] \in Instance
  /\ spendable \in [User -> Nat]
  /\ reserved \in [User -> Nat]
  /\ reserve_balance \in Nat
  /\ receipt \in [Job -> {None} \cup [deduction : Nat, quota : Nat, payee : User]]
  /\ node_status \in [Node -> {"online", "paused", "draining", "silent", "offline"}]
  /\ max_concurrent \in [Node -> Limits]
  /\ instance_status \in [Instance -> {"published", "draining", "unpublished"}]
  /\ quarantined \in [Instance -> BOOLEAN]
  /\ report \in [Job -> {"none", "current", "superseded", "lapsed"}]

\* The reservation of an account is at all times exactly what its unfinished
\* jobs reserved: whichever of result, failure, reaper, cancellation or lost
\* attestation ends a job releases its reservation, and only one of them does
\* (reserved_micro against reserved_cost_micro of the jobs rows).
ReservationExact ==
  \A u \in User : reserved[u] = ReservedBy(LiveJobs, u)

\* No account has more reserved than it holds (the CHECK of quota_accounts), so
\* the available balance that get_account shows is never negative.
Solvent == \A u \in User : reserved[u] <= spendable[u]

\* A lease can always be settled: whatever tier the quality loop has given the
\* model since the job was created, and whatever the consumer's other jobs
\* did, complete_job meets neither its internal error (deduction above the
\* reservation), nor insufficient_quota, nor a CHECK of quota_accounts.
SettlementNeverRefused ==
  \A j \in Job : status[j] = "leased" =>
    \A tier \in PerformanceTier : SettlementAccepted(j, tier)

\* The attempt rows tell the same story as the job row: exactly the attempts
\* up to attempt_count exist, only the last can be leased or succeeded, the
\* last of a leased job is leased or, after a claim that lost its instance,
\* expired, and an attempt has succeeded exactly when the job has.
AttemptsMatchJob ==
  \A j \in Job :
    /\ attempt_count[j] <= MaxAttempts[j]
    /\ \A a \in 1 .. MaxAttempts[j] :
         /\ attempt_status[j][a] = "none" <=> a > attempt_count[j]
         /\ attempt_status[j][a] = "leased" => status[j] = "leased" /\ a = attempt_count[j]
         /\ status[j] = "leased" /\ a = attempt_count[j] =>
              attempt_status[j][a] \in {"leased", "expired"}
         /\ attempt_status[j][a] = "succeeded" <=>
              status[j] = "succeeded" /\ a = attempt_count[j]

\* A worker's report, however often it is delivered, is applied to one attempt
\* at most (result_idempotency_key).
ReportAppliedOnce ==
  \A j \in Job : \A a, b \in 1 .. MaxAttempts[j] :
    attempt_key[j][a] # None /\ attempt_key[j][a] = attempt_key[j][b] => a = b

\* A job waits for a retry because a failure report was accepted, and the
\* attempt it failed carries the key of that report, so that the worker's
\* second delivery of it is recognised as a replay.
RetryKeepsReport ==
  \A j \in Job : status[j] = "retry" => attempt_key[j][attempt_count[j]] # None

\* A regulated job never leaves the instance its route was attested for.
RegulatedStaysPinned ==
  \A j \in Regulated : status[j] \in LiveStatus => instance[j] = Pin[j]

-----------------------------------------------------------------------------
(***************************************************************************)
(* What a step may not do                                                  *)
(***************************************************************************)

\* A job that has ended stays as it ended, with its attempts and its receipt:
\* late results, failure reports, reapers and cancellations change nothing.
TerminalIsFinal ==
  [][\A j \in Job : status[j] \in Terminal =>
       UNCHANGED <<status[j], attempt_count[j], attempt_status[j],
                   attempt_key[j], receipt[j]>>]_vars

LiveLeasesOn(n) ==
  {j \in Job : status[j] = "leased" /\ lease[j] = "live" /\ NodeOf[instance[j]] = n}

\* A lease that begins to run, by claim_job or by a renew_job that began before
\* the lease ran out and committed after its slot was given away, never
\* brings its node above the max_concurrent of its policy.
CapacityRespected ==
  [][\A n \in Node :
       ~ (LiveLeasesOn(n)' \subseteq LiveLeasesOn(n)) =>
         Cardinality(LiveLeasesOn(n)') <= max_concurrent[n]]_vars

\* A fast or standard job is handed only to a node no other lease runs on.
WholeNodeForFast ==
  [][\A j \in Job, n \in Node :
       /\ attempt_count'[j] > attempt_count[j]
       /\ status'[j] = "leased" /\ NodeOf[instance'[j]] = n
       /\ SpeedClass[j] # "slow"
       => LiveLeasesOn(n)' = {j}]_vars

-----------------------------------------------------------------------------
(***************************************************************************)
(* The promise about money                                                 *)
(***************************************************************************)
PhaseOf(s) ==
  CASE s = "none"                  -> "none"
    [] s \in LiveStatus            -> "held"
    [] s = "succeeded"             -> "charged"
    [] s \in {"failed", "cancelled"} -> "returned"

Escrow == INSTANCE JobEscrow WITH
  phase <- [j \in Job |-> PhaseOf(status[j])],
  balance <- spendable,
  reserve <- reserve_balance

\* Whatever leases, retries, reapers, cancellations and attestation failures
\* do, a job's money is put in escrow once and once leaves it, charged for at
\* most the reservation or returned whole, and no account promises more than
\* it holds.
ImplementsEscrow == Escrow!Spec

-----------------------------------------------------------------------------
(***************************************************************************)
(* Progress, under FairSpec                                                *)
(***************************************************************************)

\* A lease that ran out on the last attempt ends the job, although its worker
\* never speaks again: some transaction reaps it.
ExhaustedLeaseEnds ==
  \A j \in Job :
    (/\ status[j] = "leased" /\ lease[j] = "expired"
     /\ attempt_count[j] >= MaxAttempts[j]) ~> (status[j] \in Terminal)

\* Once the report a regulated job is bound to is no longer valid the job is
\* ended and its reservation released, wherever it stood ("if the report or
\* the bound node becomes invalid after the route is consumed ... release the
\* reservation", above reap_invalid_regulated_jobs).
LapsedReportEndsJob ==
  \A j \in Regulated :
    (status[j] \in LiveStatus /\ report[j] = "lapsed") ~> (status[j] \in Terminal)
=============================================================================
