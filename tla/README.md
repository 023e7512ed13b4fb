# MindOne: a verification project

MindOne is a network in which contributors serve language models from their own
machines and consumers pay for inference in *quota*. A coordinator (an HTTP
service on PostgreSQL) takes jobs, leases them to contributors' nodes, relays
the output and settles the price. This directory holds TLA+ specifications of
it: the life of a job and its money, who may do what, prices, ledgers and
judgements, the contributor's worker, and what happens on a user's machine.

`PROJECT.json` lists components, runs, mutants, hazards, findings, theorems and,
under `map`, the source lines behind every definition.

## 1. The system

| Component | State it keeps | Operations | Hard part |
| --- | --- | --- | --- |
| Job lifecycle (`routes/jobs.rs`, `settlement.rs`) | `jobs`, `job_attempts` | create, claim, renew, result, fail, cancel, two reapers | seven ways to end a job, any order, retries, expiring leases, late and repeated reports |
| Routing (`routes/jobs.rs`, `mindone-accounting/routing.rs`) | none of its own | choose a model, rank nodes | a job goes only to the node ranked first, when that one asks |
| Quota accounts and settlement (`settlement.rs`, `fixed.rs`) | `quota_accounts`, receipts, network reserve | reserve, settle, release | price fixed at creation, tier at settlement; one account under several jobs |
| Model instances (`routes/nodes_models.rs`, `settlement.rs`) | `model_instances.status` | publish, unpublish, drain, finalise | decisions by subqueries over other rows at READ COMMITTED |
| Nodes (`routes/nodes_models.rs`) | `nodes`, policies, metrics | register, heartbeat, statistics | policy changes under running leases; pauses with hysteresis; answers put together from several queries |
| Stream log (`routes/jobs.rs`) | `job_stream_events` | append, validate, read | duplicated uploads, validation outside the settlement transaction, three unsynchronised reads |
| Public gateway (`routes/openai_gateway.rs`) | a job and, in memory, the response | run, poll, write, time out | the deadline races the result; the client goes away |
| Regulated jobs and attestation (`routes/regulated_jobs.rs`, `attestation*.rs`) | prepared routes, reports, challenges | prepare, consume, attest | a report can lapse in every state of a job; slots promised twice |
| Hidden evaluations (`routes/evaluations.rs`) | challenges, budgets, quarantine | issue, lease, judge, sweep | budgets under separate locks; replicas of different versions |
| Billing, quality, tiers (`mindone-accounting`, `quality.rs`, `operator_*.rs`) | profiles, scores, events | quote, freeze, record, classify | limits of i64; a cohort re-ranked by concurrent events |
| Ledger, reserve, governance | hash chains, reserve | append, grant, release, report | head extended by concurrent writers; lock order; idempotency |
| Anti-abuse (`anti_abuse.rs`) | observations, decisions | assess, weigh | counts read without locks |
| Authentication (`auth*.rs`, `api_keys.rs`; CLI `auth.rs`, `vault.rs`) | sessions, devices, the vault | device flow, refresh, revoke | racing refreshes, lost answers, crashes between files |
| Coordinator service (`main.rs`, `lib.rs`, `db.rs`, `config.rs`) | key bindings, rate windows | start, prepare, sweep, limit | several processes on one database |
| Worker (`mindone-cli/share.rs`) | slots, tasks, state file, logs | claim, infer, stream, renew, submit, publish, stop | retries of what may already have been done; reused process ids |
| Consumer proxy (`quota.rs`, `e2ee.rs`) | a shared session, requests | create, relay, seal, open | one refresh token for concurrent requests |
| Local service (`serve*.rs`, `mindone-engine/process.rs`) | processes, state and status files | run, stop, erase | concurrent starts; clients that leave |
| Engines and models (`mindone-engine`, `model.rs`) | registry, caches, files | install, download, verify, deploy, delete | crashes between file operations; files replaced meanwhile |
| Sandbox (`mindone-sandbox`) | launch plans | probe, plan, isolate | the host changes between probe and launch |
| Terminal (`tui.rs`) | screen, dialogs | draw, read, run | keys that arrive while a dialog asks |

How they interact: consumers and workers never meet; they call the coordinator
over HTTP. Handlers share nothing but the database, where they serialise on row
locks. A worker polls `claim_job`, streams events with `append_job_stream_event`,
renews its lease and ends with `job_result` or `job_fail`. No background task
ends ordinary jobs: **every `get_job` and `claim_job` runs both reapers** over the
whole table in its own transaction. The gateway is an in-process client: it
creates a job as the API key's owner and polls the stream log. On a user's
machine, commands, the worker and the proxies meet in files: the vault, the
registries, the state files of services.

What makes the parts correct is stated with each module; the list of what is
hard to test is `hazards` in `PROJECT.json`, each with its line and properties.

## 2. The modules

Job and money:

| Module | What it is |
| --- | --- |
| `Settlement` | the integer arithmetic of one settlement, with the code's rounding |
| `JobEscrow` | abstract: a job's money is held once and leaves once, for any costs and any measure of what is held |
| `JobLease` | the job table, one action per transaction of each handler, and what unfinished jobs keep reserved (`ReservedBy`) |
| `InstanceDrain` | one instance, statement by statement, with row locks |
| `JobStream` | one streaming job from the worker to the gateway's client |
| `Routing` | which node a waiting job goes to: the query of `claim_job`, with the accounting library's order as its reference |

The service around them:

| Module | What it is |
| --- | --- |
| `Replicas` | processes that start, bind their keys, protect rows, sweep and stop on one database |
| `RateLimit` | the bounded table of windows, charged by requests that wait for its lock |
| `AuthSessions` | device flow, rotating tokens, the vault and everybody who refreshes |
| `Attestation` | challenge, evidence, verdict and the key record of the node |
| `RegulatedRoute` | prepared routes, statement by statement, beside claims and attestations |
| `AntiAbuse` | the assessment before a creation, committed or rolled back with it |

Prices, ledgers, judgements:

| Module | What it is |
| --- | --- |
| `Billing` | profiles, quotes, what is frozen with a job or a route, its recalculation and settlement |
| `LedgerChain` | settlements, grants and releases extending hash chains under their locks, and the public report |
| `Evaluation` | hidden challenges with their budgets, reserve, arbitration and quarantine |
| `ModelQuality` | quality events of a cohort, its ranks and tiers |
| `NodeHonor` | the statistics and honours of a node, read by unsynchronised queries, checked again by the CLI |

The contributor's worker:

| Module | What it is |
| --- | --- |
| `ShareWorker` | main loop, slots, tasks, submissions with retries |
| `WorkerStream` | one inference: the engine's events, the accumulator, the uploads, and the coordinator's own checks of them |
| `ThermalPause` | sensors, heartbeats and the two pause flags |
| `ShareControl` | publish and unpublish, state file, process identity |
| `LogRotation` | renamed and copied generations, with crashes |

The user's machine:

| Module | What it is |
| --- | --- |
| `EngineInstall`, `VersionOrder`, `ArchiveExtract` | installing engines, which is newest, unpacking |
| `ServeProcess`, `ServeProxy` | the local service and the erasure of its slot |
| `ModelStore`, `ModelBundle`, `ModelFile` | downloads and deletions, sharded models shard by shard and name by name, what a file must look like |
| `QuotaProxy`, `RegulatedRequest` | the consumer's proxy on a shared session, sealed requests |
| `Sandbox` | how an engine gets into its isolation |
| `Tui` | the interactive terminal |

`MCJobLease` gives `JobLease` its constants. `MCCoordinator`, `MCWorker`, `MCAccess`,
`MCEconomy` and `MCClient` each check several parts in one run: the variable
`focus`, chosen in `Init` and never changed, picks the part that runs; the others
stay in one initial state. Constants of the parts that are proved about are
constants of these modules too, with assumptions where a proof needs them, and
get their values in the `.cfg`. The parts of such a run do not interact: composition
in the proper sense is where a module holds both sides (`JobStream`: worker,
database, gateway, client; `ShareWorker` and `WorkerStream`: worker and
coordinator; `AuthSessions` and `Attestation`: CLI and service; `QuotaProxy`,
`RegulatedRequest`, `ServeProcess`, `ThermalPause`, `RegulatedRoute`). A property of a
composite run is the conjunction of what its comment says, and has several
mutants, at least one for each part.

The header comment of every module names its source and its abstractions. The
ones that need more words:

### JobLease

Each variable is a column: `status`, `attempt_count`, `instance`, `available` of
`jobs`; `attempt_status`, `attempt_key` of `job_attempts`; `spendable`, `reserved`
of `quota_accounts`; `reserve_balance`, `receipt`; `node_status`, `max_concurrent`;
`instance_status`, `quarantined`; `report` is what has become of the attestation
report a regulated job was bound to.

| Action | Code |
| --- | --- |
| `CreateJob`, `CreateRegulatedJob` (both `InsertJob`) | `create_job_authenticated`, `create_regulated_job` |
| `GetJob` | `get_job`, with `reap_expired_terminal_leases` and `reap_invalid_regulated_jobs` |
| `ClaimJob`, `ClaimLosesInstance` | `claim_job`, where it leases and where it finds the instance gone after writing `expired` |
| `RenewJob`, `FailRegulatedLease` | `renew_job`, `fail_regulated_lease_attestation` |
| `CompleteJob`, `JobFail` | `complete_job`, `job_fail` |
| `CancelTimedOutJob` | the gateway's `cancel_timed_out_job` |
| `NodeHeartbeat`, `RegisterNode`, `PublishModel`, `UnpublishModel` | the handlers of the same name |
| `LeaseLapses`, `LeaseExpires`, `BackoffEnds`, `NodeFallsSilent`, `ReportChanges`, `SetQuarantine` | time, silence, attestation and the canary |

Abstractions:

* A committed transaction is one step, because handlers lock the job, account
  and node rows they change; a transaction that returns an error rolls back and
  is a stuttering step. Where one row's lock does not cover the decision (the
  instance), `InstanceDrain` goes down to statements.
* PostgreSQL's `now()` is the start of the transaction. A lease is `live`, then
  `lapsing` (over by the wall clock, but open transactions may have begun
  before), then `expired`. `seen` is the set of lapsing leases a transaction sees
  as over. Without this, the renewal that revives a lease whose slot was given
  away could not be asked about.
* `SKIP LOCKED` and `LIMIT 100` let a reaper end any part of what it may end: `R`
  and `X` are arbitrary subsets.
* Tier and trust at settlement, the status a heartbeat derives, and the ranking
  among eligible instances are free choices, so that every behaviour of the
  measuring code is covered (`ModelQuality`, `ThermalPause`, `Routing` make them).
* `ClaimLosesInstance` leaves the status of the lost instance as it found it.
* Temperature, memory, tags, anti-abuse and payload validation can only refuse,
  which is stuttering; they are in modules of their own. Leases of hidden
  evaluations are not counted as load here (`Evaluation`, `Routing`).

### JobEscrow

`phase` is none, held, charged or returned. `Hold` needs the balance to cover the
job beside everything held; `Charge` takes at most the reservation and splits it
between a payee and the reserve; `Return` gives back whole. The mapping is
`PhaseOf(status)`, `spendable`, `reserve_balance`. `reserved` does not appear on
the abstract side: that the code's counter agrees with the held jobs is what the
refinement has to use. `Cost` and `ReservedBy` are parameters of the abstract
module: `JobLease` gives it its own.

### InstanceDrain

READ COMMITTED: a statement sees what is committed when it starts; an `UPDATE`
that waited for a row looks again at that row, not at the subquery over other
tables. `claiming[j]`, `closing[j]`, `unpublishing`, `sweeping` are the statement
each transaction has reached, `sharing` the holders of `FOR SHARE`. A closing
transaction stands for result, failure, reaper, cancellation or lost attestation.
`overtaken` is a history variable: `publish_model` came between the moment a
finalising `UPDATE` matched the row and the moment it got the lock.

### JobStream

The coordinator's rows, the worker, the gateway's `GatewayStreamState` and the
client. `posted` is every upload ever sent: each may still arrive, again or late.
`ReadJob`, `ReadRows` and `ReadState` are the three reads of
`read_job_stream_authenticated`, with anything in between. `ValidateJobResult` is
apart from `CompleteJob`, as in `job_result`. A streaming job has one attempt. Two
simplifications are exact here: renewal is the lease staying live; a completion
that began before the lease ended and locks the row after it equals one made
while the lease was live, since only refused uploads lie between. `Replayed` is
the comparison that tells a repeated upload from a conflicting one.

### Routing

`Cohort(j)` is the inner query of `claim_job`: the hard filters, then one instance
per node. `SortKey` is its `ORDER BY`. `ReferenceOrder` is `rank_contribution_candidates`
of the accounting library, written from its own code, and `RoutedFairly` compares
the two on every claim. `MayClaim` is the guard of a claim, which `SomeoneIsServed`
names: it needs that the query's filters imply `enforce_current_policy`, which counts
otherwise. Nodes have been seen just now:
with different ages of heartbeats, two nodes near the window may take turns as
the selected one. Prepared routes count like hidden challenges and are left out.

### Statement-level modules

`InstanceDrain`, `RegulatedRoute`, `LedgerChain`, `Evaluation` (claims), `Replicas`
(preparation), `Attestation`, `ModelQuality` and `NodeHonor` go below the transaction,
because there the decision depends on rows that are not locked, or on the order
in which they are. Everywhere the rule is the same: a statement sees what is
committed when it starts; after a wait the locked row is read again, a subquery
over other tables is not.

## 3. What TLC checks

| Run | Parts and bounds | Shows |
| --- | --- | --- |
| `job_lease_money` | 2 jobs (one with 2 attempts, one a gateway job), 2 nodes, one owned by the consumer, 2 report keys, 2 tiers | reservations exact, settlement never refused, attempts and receipts consistent, reports applied once, escrow implemented |
| `job_lease_capacity` | 3 jobs, 1 node, limit 1 or 2 changing at any heartbeat or registration | no lease begins above the policy; a fast job gets a whole node |
| `job_lease_regulated` | a regulated job pinned to an audited instance, an ordinary one, 1 node, 2 instances, with fairness | the job stays pinned; exhausted leases end |
| `coordinator` | drain: 3 jobs; stream: 4 events in pages of 2; service: 2 replicas, 5 configurations, 2 stored jobs, 2 challenges; limiter: 2 handlers, 2 keys; with fairness | no lease after unpublishing, draining ends; the client gets the log once, in order, whole; replicas agree on keys; limits hold; overdue challenges end |
| `worker` | 1 job leased up to twice, 2 slots, 2 tries; streams of 2 choices, up to 5 events, token counts up to 3 where 1 is authorised for the prompt and 1 for each choice; 5 temperatures around a limit of 75; 3 processes on 2 PIDs; logs of 3 generations of 2 lines, 8 lines written; with fairness | every lease is reported as it ended, submissions end; what is uploaded is what was accepted, and is accepted unless the engine counts more tokens than it was asked for; no claim above the limit; only the worker is signalled; no line lost before its time |
| `access` | 2 worker tasks, 2 polls, 1 command, 3 token generations; 2 attestations judged by 2 handlers; 2 routes, 2 transactions, 1 slot; 3 users, one of whom creates twice, 2 creations under way at a time, their 4 counts read one by one | one live session, no token set back; one verdict per challenge, no deadlock; routes used once, promises kept; what is assessed after a commit never weighs more than it |
| `economy` | 2 users, 3 settlements, a grant, a release; 40 profiles; 2 nodes, 3 entries; 2 models, 4 events; 4 nodes; 3 jobs on 3 nodes | chains end at their accounts, money conserved, no deadlock; every accepted price can be settled; budgets kept; tiers do not flap; answers consistent and private; routing as the library orders, nobody passed over |
| `client` | 2 installations, two Ollama versions of which one contains the other, archives of up to 4 entries, 2 commands with 2 starts, killed at any step, 3 local requests, 1 download of 1 of 2 models and 2 deletions, a deployment of 2 shards (one at a time; the theorem is about any number), 2 network requests (one streamed in pages of 1), 3 attestations of which 2 are allowed, the terminal | only verified engines and models run, as far as a probe can tell versions apart; every process is accounted for unless its command is killed or its state replaced; slots start clean after clients that stayed; records match files; consumers get their own answer |
| `job_lease_regulated_lapse`, `instance_drain_republish`, `job_stream_notice`, `regulated_route_promise` | as small as shows it | section 5 |

The bounds. Two jobs of one account suffice for two reservations to meet on it;
a third is needed only where slots run out. Two attempts reach every branch on
`attempt_count`: a first, a last, and a report that meets the next attempt. Two
keys tell a repeated report from a new one. Base costs of 1 and 2 micro are where
rounding is worst: the deduction at tier low of 1 micro is 1, at high 2, and the
node's share rounds to 0 or 1. Four events in pages of two give a full page, a
half page and the limit on events. Two handlers, tasks, replicas or transactions
suffice where the question is who overtakes whom; the rows they meet on are
single. Token generations, retries, crashes and changes are bounded by named
constants, large enough for an old token, a second retry, a crash in recovery.
Limits of integers (`Billing`, `ModelFile`) are scaled down together with the
units, so that both the smallest and the largest accepted values occur. In
`Routing` the cohort that enables contribution is 2 of 3 nodes instead of 5.

Symmetry is used in `access`, on the worker's tasks and on polls, and in `client`, on
installations, commands of the local service and deletions, which are each
interchangeable; neither run has a liveness property.

`CHECK_DEADLOCK FALSE` is set where a part may come to its end (a stream, a
submission, a report, a bill); it stays on for the job table.

Fairness.

* `JobLease`: leases lapse and expire and backoffs end, because time passes; and
  somebody keeps polling (`ReapAll`), since every read and every claim of anybody
  runs the reapers. Workers, nodes and owners owe nothing. `main.rs` starts a
  sweeper for hidden evaluations only, so nothing stronger is justified.
* `InstanceDrain`: a transaction that has begun goes on, sweeps keep coming, and
  PostgreSQL queues the waiters of a row, so that one of the finalising `UPDATE`s
  that keep waiting gets the lock: one strong fairness condition over all of them.
  Nobody has to claim, close or unpublish.
* `JobStream`: the gateway's task runs, its deadline passes, leases expire and are
  reaped. No node has to claim the job and no worker to go on.
* `Replicas`: a process that serves goes on sweeping, as its background task does.
* `ShareWorker`: its loop and the submission of each slot go on; answers may be
  lost for ever.

Every property of a passing run has a mutant, the composite ones several: an
operator beside the original that changes it as a plausible bug would (a dropped
guard, an off-by-one, a missing release, a lock taken too late), under which TLC
finds the property violated.

## 4. What TLAPS proves

Six modules, one for each group of runs. Every theorem is about the
specification that the runs check, for all values of the constants; `PROJECT.json`
lists the results. The strengthened invariants are what is worth reading: they say
why the code is right.

### `JobLease_proofs`, for any finite sets of jobs and users, any nodes, instances, keys

* `TypeCorrect` - `TypeOK`. Balances staying natural numbers is not about types
  alone: it needs that a release never exceeds what is reserved and that a
  node's share never exceeds the deduction (`ReserveNeverPays`).
* `ReservationsExact`, `AlwaysSolvent`. The inductive invariant is `TypeOK /\
  ReservationExact /\ Solvent`; neither of the last two is inductive alone, since
  a settlement keeps an account solvent only because what remains reserved is
  exactly what the other unfinished jobs reserved. `ReservedBy` counts the *units*
  reserved, as a cardinality, so that additivity (`ReservedByDifference`,
  `ReservedByAdd`) follows from the theorems on finite sets, without induction.
* `SettlementAlwaysPossible` - from the same invariant and
  `DeductionWithinReservation`: no tier's deduction exceeds the High one.
* `JobLeaseImplementsEscrow` - every step maps to `Hold`, `Charge`, `Return` or a
  stutter; the guard of `Hold` follows from `Affordable` only through
  `ReservationExact`.
* `AttemptsAlwaysMatch` - strengthened by `AttemptHistory`: no attempts before the
  row exists, fewer than the maximum while waiting, at least one while leased or
  succeeded. `EndedJobsAreFinal` - from `EndedIsKept`, action by action.
* `ReportsAppliedOnce`, `RegulatedAlwaysPinned` - inductive beside the types: a key
  enters only where no attempt has it (`FreshKeyOnce`), and no action writes the
  instance of a regulated job but to its own.
* `CapacityAlwaysRespected`, `FastAlwaysAlone` - action properties. Only a claim and a
  renewal let a lease run that did not (`LeaseBegins`), one at a time, and both count
  first; whatever their clock calls over, every lease that runs is among those they
  count (`LiveIsActive`), so that the bound holds although a lapsing lease that a
  claim did not count can be renewed after it.

### `Coordinator_proofs`

* `NoLeaseOnceUnpublished` - strengthened by `SharedLock`: the holders of the shared
  lock are the claims that have it, and while there are any the instance is
  published and `unpublish_model` has not begun.
* `LeasesKeepInstance` - strengthened by `Conclusions`: what a count, a sweep or a
  closing transaction has concluded about leases stays true until it commits,
  unless a republication overtook it.
* `StreamAlwaysSound` - `StreamInv`: the log is an interval of sequences with its
  marker last (`LogSound`); what was written to the client and what is pending is
  its beginning (`ShownSound`); what a read has seen of the rows and of the job is
  still true of the log (`ReadSound`), since a log only grows and an ended job's does
  not; a result stands on a closed log (`EndSound`). Closed logs are told from open
  ones by cardinality, as the code does with its `COUNT` and `MAX`.
* `ReplicasAlwaysAgree` - what the database holds is under one key, and a process
  that serves has compared itself with exactly that.
* `ServiceAlwaysSound` - with the rate limiter, the whole of `ServiceSound`. A bound
  on what any stretch of time lets through is no invariant of the table, which
  forgets windows that have ended; so `LimiterInv` gives every request let through a
  place (`Placed`): the number of requests that its key has paid for since is
  bounded by the window that counts now, or by that one and the one before, or no
  later request is near enough to share a stretch with it. The induction over the
  list of requests is an induction over its latest element. Proving it corrected
  the property: requests wait for the lock after they have read the time, so the
  stretch in which no more than two windows' worth passes is shorter than a window
  by the waits at its two ends, and a refusal may look back one wait further; the
  bound for a whole window, which a small instance satisfied, fails with three
  waiting requests. The history `evicted` also missed a window that made room for
  the other key of its own request.

### `Worker_proofs`

* `ClaimsAlwaysBelowLimit` - `ThermalInv`: a node is online only by a heartbeat whose
  reading was below the limit, whatever the flags of the loop and its tasks say.
* `LeasesAlwaysReported` - `ShareInv`: a slot has one owner, a task's attempt and its
  submission agree with what the coordinator settled, and a failure is never under
  way for an attempt whose result was sent and not refused.
* `StreamAlwaysForwarded` - `WholeAnswer`, `InOrder`, `Returned`: the upload task's
  queue continues what was uploaded; a result is built only from an accumulator
  that is full and whose events have all been acknowledged. That its usage is within
  what the job was authorised for (`complete_job` refuses more) is proved of an engine
  that reports no more than it was asked for, which the history `obeyed` remembers:
  `Counted` bounds what the accumulator has added up by the choices that have ended.
* `WorkerAlwaysControlled` - `ControlInv`: start markers are never used again, so the
  comparison before a signal identifies a process although PIDs are; every live
  worker is known to the command that started it or to the state file, unless
  `publish` was killed before it wrote the identity (`unrecorded`).
* `LogsAlwaysKept` - `LogInv`: every file is a run of consecutive lines, no generation
  ends after a newer one, what is being rotated is newer than all of them, and a
  file that a rename or a copy overwrites is empty, the oldest, or also the next.

### `Access_proofs`

* `AttestationAlwaysSound` - a submission that has passed the row lock knows the
  challenge's state until it commits; a key is verified only beside a verified report.
* `RouteAlwaysUsedOnce`, `PromisesAlwaysKept` - `RoutesInv`: which locks a transaction
  holds at each statement (`LocksSound`) and what its reads have established under
  them (`ChecksHold`). A route is bound to the report that the unlocked query for
  candidates read, which the node may have replaced by then; that no job runs under
  such a route is due to the creation alone, which reads the node's report again.
* `SessionsAlwaysSafe`, `VaultAlwaysForward` - `SessionsInv` says who knows the present
  tokens: the vault, or one process that is about to store them (`TokensSound`).
* `WeightsAlwaysFall` - counts of observations only grow, so each of the four that a
  creation reads, whenever it does, is at least what any decision known when it began
  had read (`known`, a history variable); by monotonicity of cardinality. Creations of
  one user under different keys may overlap, and of two that do nothing is said.

### `Economy_proofs`

* `EvaluationAlwaysSound` - `HiddenInv`: a claim that has counted holds the lock of
  the reserve, so that the entries it found free still are, and its node has no
  other challenge; counts only fall otherwise (`CountsFall`). The reserve for
  newcomers is an action property (`ReserveHolds`), from the same invariant.
* `PricesAlwaysHold` - the profile frozen with a job or a route is one that was
  accepted; a base cost is at least 3, each of its three parts being rounded up to
  at least 1, so that the node's share and the reserve's are positive at every tier.
  Which profile is the newest exists only because versions are never given again.
* `QualityAlwaysSound` - `ModelsInv`: an event's key is looked up and inserted under
  one row lock, and the rows a re-ranking writes are the ones it read under theirs;
  hysteresis keeps a tier while the score stays.

* `NodesAlwaysRankedFairly` - the whole of `NodesRankedFairly`, for any cohort, thresholds,
  scores and policies. `HonorInv`: without a commit what was read still is, and the
  groups of ties, in the order of their values, count every contributor at its midrank
  (`GroupsCount`); the window of days decides a long streak as the whole history does.
  `RoutingInv`: a first candidate exists because the five keys are compared one after
  the other and the last tells nodes apart (`SomeoneIsTop`); a midrank of the query is
  the library's (`MidranksAgree`), and near the best score is near every score;
  a filter that passes implies the check of the policy
  (`FitWithin`), so the first waiting job an instance is selected for can be claimed.

* `LedgerAlwaysSound` - the whole of `LedgerSound`. `LedgerInv` adds what a running
  transaction has locked, read and is about to write to the chains; a row it has
  locked is as it read it. The sums are over finite sets (`MapThenSumSet` of the
  community modules), about which the library states nothing: the section on sums
  proves that they do not depend on the order in which elements are taken, and
  that one element more adds its own value, by a least counterexample instead of an
  induction rule. Money is then conserved because each committed transaction adds
  entries that cancel. No circle of waiting transactions exists, of whatever length:
  locks are taken in one order of rows, so the least row that one of them
  wants would have to be wanted by a holder of a greater one.

### `Client_proofs`

* `ConsumersAlwaysServed` - `QuotaInv`: the request that refreshes is the writer of the
  lock and was refused for the token that is still in memory, so that nobody's
  refresh spends another's; what was shown is the log up to the cursor.
  `RegulatedInv`: a verified route binds an allowed report, and a job carries the
  request sealed to its key until the program that holds it has answered.
* `SlotAlwaysStartsClean`, `StopsAlwaysConfirmed` - `ProxyInv`: one request at a time is
  between the gate and its cleanup, the flag `required` is set whenever the slot may
  hold tokens of a request whose client stayed until its response began, and the
  status file lags behind only after a failed write. Requests whose client left before
  that (`left_behind`) are outside both: see `ServeProxy!EveryInferenceErased` in section 5.
* `InstalledAlwaysAsProbed` - a conjunct of `RecordsMatchFiles`, from `EngineInv`: a file
  in the cache is damaged or one of the archives of its name, the probe refuses those
  that do not mention the version, and the version lock is held from there up to the
  record. What may be registered as a release is therefore `TakenFor` it: itself and the
  releases of its archive's name whose version contains its own. Which do is a constant
  that the proof leaves open; the releases and their kinds are those of `MCClient`, the
  number of commands is any.
* `RecordsAlwaysMatchFiles` - `StoreInv` (one deletion at a time behind the registry's
  lock), `EngineInv`, and `BundleInv`: while no two deploys have overlapped, every
  shard of the staging directory is whole under its own name once a deploy has
  passed it, and a partial name that remains is one of a deploy that was killed.
* `ModelsAlwaysTrusted` - a record is written from the report of a download, from the
  report of a verification, and by a deletion that takes itself back. `TrustInv` says
  that each of the three holds the checksum of the download of that very id (`LoadSound`,
  `VerifySound`, `RestoreSound`), also where it writes long after it read; an id given to
  a download is one that no record, verification or deletion still holds. `FilesInv`: a path that is taken, and the
  handle of a download that receives, name a file that was written. `ReaderInv`: the
  comparison of the file's identity after the hash is what makes the parsed and the
  hashed content one.
* `ProcessesAlwaysAccounted` - `ServiceInv`: how much of a start exists and runs at each
  step of the command that holds it, that no two commands hold one start, and that a
  recorded one is complete. A running process is held by its command, described by the
  state file, or of a start in `lost`: one whose state a command for another start
  replaced or removed, or whose command was killed before it had written the state or
  between removing it and dropping its guards.
* `IsolationAlwaysStated` - `IsolationInv`, platform by platform: what the plan of a
  profile states is what the steps of the start put in force, or the start fails.
* `ServicesAlwaysAccounted` - the whole of `ServiceAccounted`, from `StopsAlwaysConfirmed`,
  `ProcessesAlwaysAccounted`, `IsolationAlwaysStated` and `ConfirmedAlwaysRun`.
* `ConfirmedAlwaysRun` - `ScreenInv`: while a dialog asks nothing changes its line, and
  the guard of the terminal is active exactly while the screen is the program's.
  What command a line means (`CommandPath`) stays opaque to the proof.

The assumptions, all named and evaluated by TLC: in `JobLease`,
`ReservationsAssumption` (finite sets; positive base costs whose reservations fit
`MaxMicro`) and `JobLeaseAssumption` (types). In the modules that compose parts they
say only of what type a constant is, which sets are finite, which limits are
positive, and that a value standing for "none" is not a member of the set it is
added to: `AttestationAssumption`, `SessionAssumption`, `RouteAssumption`,
`RiskAssumption` (`MCAccess`); `StreamAssumption`, `ServiceAssumption`, `LimiterAssumption`
(`MCCoordinator`); `SlotAssumption`, `ThermalAssumption`, `ShareAssumption`,
`ControlAssumption`, `StreamAssumption`, `LogAssumption` (`MCWorker`);
`EngineAssumption`, `BundleAssumption`, `ServiceAssumption`, `RequestAssumption`,
`QuotaAssumption` (`MCClient`); `EvaluationAssumption`, `BillingAssumption`,
`QualityAssumption`, `LedgerAssumption`, `HonorAssumption` and `RoutingAssumption`
(`MCEconomy`). The last two also say that a history of days goes back further than a
long streak, that the milestones end above the greatest contribution, that the window
of near-equal scores is at most the whole score, and that a cohort has two nodes at
least.

Only model-checked:

* liveness (`ExhaustedLeaseEnds`, `DrainingEnds`, `StreamEnds`, `SubmissionEnds`,
  `OverdueEnds`), which this prover does not do;
* what recursive functions and folds over sequences compute, which needs induction
  over data: `ReadAsWritten`, that is `VersionOrder`, `ArchiveExtract`, the overlap of
  tensors that `ModelFile` sums up, and the words the terminal quotes
  (`QuotedWordsKept`).

## 5. Disagreements found

Each of these is a run that expects a violation; `PROJECT.json` quotes the sentence
of the repository it contradicts.

* `job_lease_regulated_lapse` - a regulated job whose lease ran out with attempts
  left, and whose report lapsed, falls between the two reapers and the claim.
* `instance_drain_republish` - a finalising `UPDATE` that waited while the instance
  was republished, leased and drained again unpublishes it under the lease.
* `job_stream_notice` - at the deadline a client can be told that its job was
  cancelled and its quota released although the job was settled.
* `regulated_route_promise` - two preparations of a route count before either
  commits and promise one slot twice; the comment beside the query says that the
  lock prevents it.

Further ones are stated as definitions, which TLC refutes in the same models, and
have no run of their own:

* `InstanceDrain!LastLeaseFinalizes` (`docs/API.md`:316) - two closings that see each
  other's lease leave the instance draining; only a later sweep ends it, not "the
  same transaction".
* `JobStream!GatewayJobEnds` (`docs/API.md`:62) - the gateway's deadline lives in the
  response body; a client that disconnects before the job is claimed leaves it and
  its reservation.
* `JobLease!RetryKeepsReport` (`docs/CLI_COMPLIANCE.md`:165) - a claim that loses its
  instance commits `expired` on the old attempt; a failure report waiting for the
  row is then accepted, but its `UPDATE` matches nothing and its key is lost.
* `ThermalPause!ResumesOnlyCool` (`docs/API.md`:263) - another reason to pause
  overwrites the temperature's, and the node resumes just below the limit.
* `ShareWorker!EveryInferenceErased` (`docs/SECURITY.md`:60) - an inference that fails
  before it has a response gives its slot back without an erase.
* `ServeProxy!EveryInferenceErased` (the same sentence, for slot 0 of the local
  service) - a client that leaves before the response begins makes the server drop the
  handler, and with it the cleanup; what the engine computed stays in the slot, and no
  erase is required, until the next inference has ended. `SlotStartsClean` and the
  confirmation of a stop are about the other requests.
* `EngineInstall!InstalledIsRelease` (`docs/INSTALL.md`:160 - 161) - the probe looks for
  the version anywhere in what the engine prints (`install.rs`:1096), so when another
  installation replaces the archive between its verification and its extraction, the
  files of 0.1.10 pass for 0.1.1. `InstalledAsProbed` is what is checked and proved.
* `AntiAbuse!BlocksCounted` (`docs/API.md`:96) - the record of a block is rolled back
  with the creation it refuses, so the report cannot count it.
* `AuthSessions!KeptForRetry` - after a lost answer to the refresh of a logout the
  kept credentials cannot be used to try again.
* `ServeProcess!NeverUnmanaged` (`process.rs`:213 - 215) - of two `serve run` at a time
  both find no state and a free port; the second's state replaces the first's, and
  removing it later leaves the first service running with nothing to stop it by. A
  `serve run` that is killed before it has written the state leaves its children with
  none: the guard that would stop them is dropped by a return, not by a signal.
  `NoOrphan` is about every service but these, which `lost` remembers.
* `ModelBundle!RegisteredDeletable` (`download.rs`:181 - 199, `model.rs`:836 - 846) - a
  deploy killed between linking a shard and removing its partial name leaves both;
  the next deploy takes the shard as finished and registers the directory with the
  stray name, and `model delete` then refuses it as holding an unregistered entry.
  Nothing keeps two deploys of a bundle apart either: they share one staging
  directory, and of those `RegisteredWhole` says nothing.
* `Routing!CongestedByPolicy` (`docs/adr/0003-routing-and-tier.md`) - free slots are
  `max_concurrent` less the work counted only for slow jobs; for the others a node
  counts as one slot at most, so contribution decides earlier than documented.

Behaviour worth knowing, where no document says otherwise: of two instances of
one model on one node only the one with the lower id is ever selected, and jobs
wait for its worker even if only the other's is running; the statistics of a node
fail with an internal error when a receipt commits between their queries
(`nodes_models.rs`:538 - 660), which `NodeHonor` has as a refusal; the consumer's
proxy uses a fresh key after a lost answer to a creation (`quota.rs`:707), so the
first job may run beside the second; a dialog of the terminal can be hidden in a
small window and still takes keys (`tui.rs`:1240); the worker only checks that an
engine's token counts fit their type, so that one which reports more than the job was
authorised for is refused with 400 by `complete_job` (`settlement.rs`:220 - 234) and its
answer, already computed and streamed, ends as a failure; of two creations of one user
that overlap, the one committed later may weigh more (`anti_abuse.rs`:486 - 490 locks
user and key, not the user).

## 6. Not modelled, and the plan

Not modelled: cryptography and system calls, which are taken as documented; what
an external verifier checks inside its evidence; Glicko-2's floating-point
iteration, of which the direction is kept; the scoring of a hidden answer and
password hashing, which are free verdicts; execution fingerprints, on whose verdict
no decision rests; argument parsing, configuration files, hardware probes, the
model catalogue, diagnostics, output formats, and the common library, which are
sequential and keep no protocol state; suggestions to the owner (`optimize.rs`);
the SLA report, a read-only query; limits on the bytes and fields of a payload,
except where a stream or a result is judged by two sides (`WorkerStream`).

Open, in this order:

1. Proofs: the parts of `ReadAsWritten`, once their folds are restated as functions of
   an index.
2. An abstract specification for `LedgerChain` (an account is the sum of its history)
   and one for `ShareWorker` (a lease is answered once), as `JobEscrow` is for jobs.
3. The unary wait of the gateway beside `JobStream`; `Routing` with heartbeats of
   different ages, and its progress under fairness.

## 7. Running it

    tlc -workers 2 -config JobLease_money.cfg MCJobLease
    tlc -workers 2 -config MCCoordinator.cfg MCCoordinator
    tlc -workers 2 -config MCEconomy.cfg MCEconomy
    tlapm JobLease_proofs.tla

and likewise for the other pairs listed under `runs`. Distinct states: `job_lease_money`
about 80,000, `coordinator` 360,000, `worker` 400,000, `access` 1,350,000, `economy`
870,000, `client` 1,030,000; each takes two to four minutes on two cores, the others
seconds. The proofs: `Client_proofs` and `Economy_proofs` fifteen to twenty minutes each,
the others two to five.
