------------------------------- MODULE Routing -------------------------------
(***************************************************************************)
(* Which node a waiting job goes to.  A worker asks for work for its       *)
(* instance and gets the first waiting job for which that instance is the  *)
(* one selected: instances that may not take the job are filtered out, one *)
(* instance is left per node, and the nodes are ordered by the speed class *)
(* of the job, by recent contribution among near-equals while demand       *)
(* exceeds the free slots, by score, and by id.                            *)
(*                                                                         *)
(* The selection is one SQL query in claim_job; the accounting library has *)
(* the same order as a function, the reference here.                       *)
(*                                                                         *)
(* Scores are scaled down: Unit stands for 1,000,000.  A metrics row is    *)
(* [rtt, tps, reported, fits, errors]: fits says that the temperature and  *)
(* the video memory satisfy the node's policy.                             *)
(*                                                                         *)
(* Source: crates/mindone-coordinator/src/routes/jobs.rs,                  *)
(* crates/mindone-accounting/src/routing.rs.                               *)
(***************************************************************************)
EXTENDS Integers, Sequences, FiniteSets, FiniteSetsExt

CONSTANTS
  RJob,           \* 1 .. n, in the order of priority and creation
  Kinds,          \* for each job, the requests it may be:
                  \*  [speed, tags, pinned, context, max_attempts]; pinned: a
                  \*  Regulated job's instance
  Instance,       \* 1 .. n
  Facts,          \* for each instance, [node, model, tags]
  NodeFacts,      \* for each node, [trust, max_concurrent, reject_tags, limited]; limited:
                  \*  the policy limits the temperature or the video memory
  ModelFacts,     \* for each model, [quality, cost, context]
  FirstMetrics,   \* for each node, its metrics row or none
  Beats,          \* metrics rows a heartbeat may bring
  FirstEarned,    \* for each node, its contribution of the last 30 days
  MinCohort, NearNumerator, NearDenominator, Unit, MaxRtt,
  MaxChanges, NoRow

VARIABLES
  rjob,      \* for each job, [status, kind, model, at, attempts]
  metrics,   \* for each node, its latest row
  held,      \* nodes with a hidden challenge; a prepared route counts in the same way
  earned,    \* for each node, its contribution
  changes,   \* failures, lapses, heartbeats and holds so far, bounded by MaxChanges
  chosen     \* what the claim decided on, when the last step was one

rvars == <<rjob, metrics, held, earned, changes, chosen>>

Node == DOMAIN NodeFacts
NodeOf(i) == Facts[i].node

-----------------------------------------------------------------------------
(***************************************************************************)
(* select_model                                                            *)
(***************************************************************************)
\* An online, published instance whose node does not reject a tag.
Accepts(i, tags) == NodeFacts[NodeOf(i)].reject_tags \cap tags = {}

Servers(m, tags) == {i \in Instance : Facts[i].model = m /\ Accepts(i, tags)}

RoutableModels(k) ==
  {m \in DOMAIN ModelFacts : ModelFacts[m].context >= k.context /\ Servers(m, k.tags) # {}}

\* The best share of the tags that one instance of the model has, in Units.
IntentMatch(m, tags) ==
  IF tags = {} THEN Unit
  ELSE Max({(Cardinality(tags \cap Facts[i].tags) * Unit) \div Cardinality(tags)
            : i \in Servers(m, tags)})

\* rank_models: half quality, three tenths intent, less a fifth of the cost,
\* where the dearest model that is routable costs 1 and the cheapest 0.
ModelScore(m, ms, tags) ==
  LET low == Min({ModelFacts[x].cost : x \in ms})
      span == Max({ModelFacts[x].cost : x \in ms}) - low
      cost == IF span = 0 THEN 0 ELSE ((ModelFacts[m].cost - low) * Unit) \div span
  IN 5 * ModelFacts[m].quality + 3 * IntentMatch(m, tags) - 2 * cost

SelectModel(k) ==
  LET ms == RoutableModels(k) IN
  Min({m \in ms : \A x \in ms : ModelScore(x, ms, k.tags) <= ModelScore(m, ms, k.tags)})

-----------------------------------------------------------------------------
(***************************************************************************)
(* The candidates of a job                                                 *)
(***************************************************************************)
Ready(j) ==
  /\ rjob[j].status \in {"queued", "lapsed"}
  /\ rjob[j].attempts < rjob[j].kind.max_attempts

\* Other jobs that hold a slot of the node, with hidden challenges.
ActiveCount(n, j) ==
  Cardinality({x \in RJob \ {j} :
      \/ rjob[x].status = "leased" /\ NodeOf(rjob[x].at) = n
      \/ /\ rjob[x].status = "queued" /\ rjob[x].kind.pinned # NoRow
         /\ NodeOf(rjob[x].kind.pinned) = n})
    + Cardinality({n} \cap held)

Metric(n, field, default) == IF metrics[n] = NoRow THEN default ELSE metrics[n][field]

\* What the coordinator counts, and what the node reports if that is more.
Occupied(n, j) == Max({ActiveCount(n, j), Metric(n, "reported", 0)})

\* Mutant of HasRoom: trusts the node's report alone.
HasRoomReported(n, j, speed) ==
  IF speed = "slow" THEN Metric(n, "reported", 0) < NodeFacts[n].max_concurrent
  ELSE Metric(n, "reported", 0) = 0

\* A slow job takes any slot; the others only an idle node.
HasRoom(n, j, speed) ==
  IF speed = "slow" THEN Occupied(n, j) < NodeFacts[n].max_concurrent
  ELSE Occupied(n, j) = 0

\* The hard filters of the query.  A node that has reported nothing passes the
\* limit on the round trip and no limit on temperature or memory.
Eligible(i, n, j, k) ==
  /\ Facts[i].model = rjob[j].model
  /\ k.pinned \in {NoRow, i}
  /\ Accepts(i, k.tags)
  /\ Metric(n, "rtt", NoRow) # NoRow => Metric(n, "rtt", NoRow) \in 1 .. MaxRtt
  /\ HasRoom(n, j, k.speed)
  /\ NodeFacts[n].limited => Metric(n, "fits", FALSE)

TrustScore(trust) ==
  CASE trust = "enhanced" -> 100 [] trust = "standard" -> 85
    [] trust = "limited" -> 70 [] trust = "experimental" -> 40 [] OTHER -> 30

\* routing_score, of nodes seen just now: the freshness is the same for all.
Score(n, occupied, rtt) ==
  25 * TrustScore(NodeFacts[n].trust) + 20 * Unit
  + 15 * (IF rtt = NoRow THEN 0 ELSE Unit - (rtt * Unit) \div MaxRtt)
  + 15 * Min({Metric(n, "tps", 0), Unit})
  + 15 * Max({0, Unit - (occupied * Unit) \div NodeFacts[n].max_concurrent})
  + 10 * Max({0, Unit - Metric(n, "errors", Unit \div 2)})

\* server_free_slots: what the node reports does not count.
FreeSlots(n, active, speed) ==
  IF speed = "slow" THEN Max({0, NodeFacts[n].max_concurrent - active})
  ELSE IF active = 0 THEN 1 ELSE 0

Candidate(i, n, j) ==
  [instance |-> i, node |-> n, tps |-> Metric(n, "tps", 0), active |-> ActiveCount(n, j),
   score |-> Score(n, Occupied(n, j), Metric(n, "rtt", NoRow)),
   slots |-> FreeSlots(n, ActiveCount(n, j), rjob[j].kind.speed), earned |-> earned[n]]

\* DISTINCT ON (node_id): the first eligible instance stands for its node.
FirstOfNode(eligible) == {i \in eligible : \A x \in eligible : NodeOf(x) = NodeOf(i) => i <= x}

Cohort(j) ==
  UNION {{Candidate(i, NodeOf(i), j) : i \in FirstOfNode(eligible)} :
         eligible \in {{i \in Instance : Eligible(i, NodeOf(i), j, rjob[j].kind)}}}

-----------------------------------------------------------------------------
(***************************************************************************)
(* The order of the candidates c of a job                                  *)
(***************************************************************************)
\* Jobs that wait for the same model, with the same tags and mode.
ReadyDemand(j) ==
  Cardinality({x \in RJob :
      /\ Ready(x) /\ rjob[x].model = rjob[j].model /\ rjob[x].kind.tags = rjob[j].kind.tags
      /\ (rjob[x].kind.pinned = NoRow) = (rjob[j].kind.pinned = NoRow)})

Congested(c, j) ==
  /\ Cardinality(c) >= MinCohort
  /\ ReadyDemand(j) > MapThenSumSet(LAMBDA r : r.slots, c)

\* The SQL's midrank: RANK() - 1 candidates earned less.
ContributionPercentile(c, r) ==
  ((2 * Cardinality({x \in c : x.earned < r.earned})
     + Cardinality({x \in c : x.earned = r.earned}) - 1) * Unit)
    \div (2 * (Cardinality(c) - 1))

\* Mutant of NearBest: no limit on how far behind the best score.
NearAny(score, best) == TRUE

NearBest(score, best) == score * NearDenominator >= best * NearNumerator

\* ORDER BY, descending, NULLS LAST; the last key orders by id.
SortKey(c, r, best, congested, speed) ==
  <<IF speed = "fast" THEN r.tps ELSE 0, IF speed = "slow" THEN r.active ELSE 0,
    IF congested /\ NearBest(r.score, best) THEN ContributionPercentile(c, r) ELSE 0 - 1,
    r.score, 0 - r.node>>

Ranked(c, best, congested, speed) ==
  {[instance |-> r.instance, key |-> SortKey(c, r, best, congested, speed)] : r \in c}

BestScore(c) == Max({0} \cup {r.score : r \in c})

Precedes(a, b) ==
  \E p \in DOMAIN a : a[p] > b[p] /\ \A q \in 1 .. p - 1 : a[q] = b[q]

Top(k) == {r.instance : r \in {x \in k : \A y \in k \ {x} : Precedes(x.key, y.key)}}

\* Mutant of Selected: ranks the instances that may not take the job as well.
SelectedUnfiltered(j) ==
  UNION {Top(k) : k \in {Ranked(c, BestScore(c), Congested(c, j), rjob[j].kind.speed) :
    c \in {{Candidate(i, NodeOf(i), j) : i \in {x \in Instance : Facts[x].model = rjob[j].model}}}}}

\* LIMIT 1 of the ranking: the instance selected, if any.
Selected(j) ==
  UNION {Top(k) : k \in {Ranked(c, BestScore(c), Congested(c, j), rjob[j].kind.speed) :
    c \in {Cohort(j)}}}

-----------------------------------------------------------------------------
(***************************************************************************)
(* Operations                                                              *)
(***************************************************************************)
\* create_job: the model is chosen now, the node when a worker asks.
CreateJob(j, k) ==
  /\ rjob[j].status = "new"
  /\ k.pinned = NoRow => RoutableModels(k) # {}
  /\ rjob' = [rjob EXCEPT ![j].status = "queued", ![j].kind = k,
        ![j].model = IF k.pinned = NoRow THEN SelectModel(k) ELSE Facts[k.pinned].model]
  /\ chosen' = NoRow /\ UNCHANGED <<metrics, held, earned, changes>>

\* enforce_current_policy: leases and hidden challenges, not what only waits.
WithinPolicy(n, tags) ==
  /\ NodeFacts[n].reject_tags \cap tags = {}
  /\ Cardinality({x \in RJob : rjob[x].status = "leased" /\ NodeOf(rjob[x].at) = n})
       + Cardinality({n} \cap held) < NodeFacts[n].max_concurrent
  /\ NodeFacts[n].limited => Metric(n, "fits", FALSE)

\* The instance selected for each waiting job.
Offers == [j \in RJob |-> IF Ready(j) THEN Selected(j) ELSE {}]

\* Mutant of MayClaim: only the first of all waiting jobs.
MayClaimOldest(offers, i, j) ==
  i \in offers[j] /\ \A x \in 1 .. j - 1 : ~ Ready(x)

\* Of the waiting jobs for which an instance is selected, it gets the first.
MayClaim(offers, i, j) ==
  /\ i \in offers[j] /\ \A x \in 1 .. j - 1 : i \notin offers[x]
  /\ WithinPolicy(NodeOf(i), rjob[j].kind.tags)

\* claim_job for an instance.
ClaimJob(i) ==
  \E offers \in {Offers}, j \in RJob :
    /\ MayClaim(offers, i, j)
    /\ rjob' = [rjob EXCEPT ![j].status = "leased", ![j].at = i, ![j].attempts = @ + 1]
    /\ \E c \in {Cohort(j)} :
         chosen' = [speed |-> rjob[j].kind.speed, instance |-> i, cohort |-> c,
                    congested |-> Congested(c, j), shared |-> ActiveCount(NodeOf(i), j)]
    /\ UNCHANGED <<metrics, held, earned, changes>>

\* A settlement writes a receipt, which counts for the node at once.
Settle(j) ==
  /\ rjob[j].status = "leased"
  /\ rjob' = [rjob EXCEPT ![j].status = "done"]
  /\ earned' = [earned EXCEPT ![NodeOf(rjob[j].at)] = @ + 1]
  /\ chosen' = NoRow /\ UNCHANGED <<metrics, held, changes>>

\* A failure is reported: the job waits for a retry, or has used up its attempts.
Fail(j) ==
  /\ rjob[j].status = "leased" /\ changes < MaxChanges
  /\ rjob' = [rjob EXCEPT ![j].status =
       IF rjob[j].attempts < rjob[j].kind.max_attempts THEN "queued" ELSE "failed"]
  /\ changes' = changes + 1
  /\ chosen' = NoRow /\ UNCHANGED <<metrics, held, earned>>

\* The lease runs out: the job may be leased again, or has used up its attempts.
Lapse(j) ==
  /\ rjob[j].status = "leased" /\ changes < MaxChanges
  /\ rjob' = [rjob EXCEPT ![j].status =
       IF rjob[j].attempts < rjob[j].kind.max_attempts THEN "lapsed" ELSE "failed"]
  /\ changes' = changes + 1
  /\ chosen' = NoRow /\ UNCHANGED <<metrics, held, earned>>

Heartbeat(n, row) ==
  /\ changes < MaxChanges /\ metrics[n] # row
  /\ metrics' = [metrics EXCEPT ![n] = row]
  /\ changes' = changes + 1
  /\ chosen' = NoRow /\ UNCHANGED <<rjob, held, earned>>

\* A hidden challenge is leased on an idle node, and ends.
Hold(n) ==
  /\ changes < MaxChanges /\ n \notin held
  /\ \A j \in RJob : ActiveCount(n, j) = 0
  /\ held' = held \cup {n}
  /\ changes' = changes + 1
  /\ chosen' = NoRow /\ UNCHANGED <<rjob, metrics, earned>>

ReleaseHold(n) ==
  /\ n \in held
  /\ held' = held \ {n}
  /\ chosen' = NoRow /\ UNCHANGED <<rjob, metrics, earned, changes>>

-----------------------------------------------------------------------------
Init ==
  /\ rjob = [j \in RJob |->
       [status |-> "new", kind |-> NoRow, model |-> NoRow, at |-> NoRow, attempts |-> 0]]
  /\ metrics = FirstMetrics /\ held = {} /\ earned = FirstEarned
  /\ changes = 0 /\ chosen = NoRow

Next ==
  \/ \E j \in RJob : (\E k \in Kinds[j] : CreateJob(j, k)) \/ Settle(j) \/ Fail(j) \/ Lapse(j)
  \/ \E i \in Instance : ClaimJob(i)
  \/ \E n \in Node : (\E row \in Beats : Heartbeat(n, row)) \/ Hold(n) \/ ReleaseHold(n)

Spec == Init /\ [][Next]_rvars

-----------------------------------------------------------------------------
(***************************************************************************)
(* The reference: rank_contribution_candidates                             *)
(***************************************************************************)
SumOf(f, S) == MapThenSumSet(LAMBDA x : f[x], S)

\* contribution_midrank_percentiles, from the sorted frequencies.
MidrankPercentile(c, r) ==
  LET frequency == [v \in {x.earned : x \in c} |-> Cardinality({x \in c : x.earned = v})]
      lower == SumOf(frequency, {x.earned : x \in {y \in c : y.earned < r.earned}})
  IN ((2 * lower + frequency[r.earned] - 1) * Unit) \div (2 * (Cardinality(c) - 1))

ReferenceKey(c, r, congested) ==
  <<IF congested /\ \A x \in c : r.score * NearDenominator >= x.score * NearNumerator
      THEN MidrankPercentile(c, r) ELSE 0 - 1,
    r.score, 0 - r.node>>

\* The order of rank_contribution_candidates.
ReferenceOrder(r, x) ==
  Precedes(ReferenceKey(chosen.cohort, r, chosen.congested),
           ReferenceKey(chosen.cohort, x, chosen.congested))

(***************************************************************************)
(* A job of the standard class goes to the candidate the library's order   *)
(* puts first.  Contribution decides only while demand exceeds the slots   *)
(* of a cohort that is large enough, and never brings a node in front of   *)
(* one whose score is better by more than the window.  Work of the fast    *)
(* and standard classes starts on a node where nothing else is counted,    *)
(* and no node holds more than its limit, whatever it reports.             *)
(***************************************************************************)
RoutedFairly ==
  /\ chosen # NoRow =>
       /\ chosen.speed = "standard" =>
            \E r \in chosen.cohort : \A x \in chosen.cohort :
              /\ r.instance = chosen.instance
              /\ x # r => ReferenceOrder(r, x)
              /\ r.score * NearDenominator >= x.score * NearNumerator
              /\ ~ chosen.congested => r.score >= x.score
       /\ chosen.speed # "slow" => chosen.shared = 0
  /\ \A n \in Node :
       Cardinality({j \in RJob : rjob[j].status = "leased" /\ NodeOf(rjob[j].at) = n})
         <= NodeFacts[n].max_concurrent

(***************************************************************************)
(* No job is passed over: while some node could take a waiting job, some   *)
(* worker would get one if it asked.  A job whose own candidates are all busy or  *)
(* barred keeps no other waiting, and the instance selected is never one   *)
(* that may not take the job or that the check of the policy refuses.      *)
(***************************************************************************)
SomeoneIsServed ==
  (\E j \in RJob : Ready(j) /\ Cohort(j) # {}) =>
    \E offers \in {Offers}, i \in Instance, j \in RJob : MayClaim(offers, i, j)

(***************************************************************************)
(* "server_counted_free_slots ... max_concurrent" less the work counted:   *)
(* docs/adr/0003-routing-and-tier.md.  Does not hold: for a job that is    *)
(* not slow a node counts as one slot at most.                             *)
(***************************************************************************)
CongestedByPolicy ==
  \A j \in RJob :
    (Ready(j) /\ Congested(Cohort(j), j)) =>
      ReadyDemand(j) > MapThenSumSet(
        LAMBDA r : NodeFacts[r.node].max_concurrent - r.active, Cohort(j))
=============================================================================
