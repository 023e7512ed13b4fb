------------------------------ MODULE MCEconomy ------------------------------
(***************************************************************************)
(* Prices, ledgers and judgements: billing profiles, the hash-chained      *)
(* ledgers, hidden evaluations, the quality of models, the standing of     *)
(* nodes and the routing that rewards it, checked side by side.  focus     *)
(* picks the part that runs, the others stay in their initial states.      *)
(***************************************************************************)
EXTENDS Integers, FiniteSets, Sequences

CONSTANTS
  User, Command, LedgerTx, InitialQuota, ReciprocalBlock, None,
  Evaluated, AccountOf, Entry, CatalogHourly, AccountHourly, NodeHourly, KeptEntries,
  FailureThreshold, RecoveryThreshold, MaxChallenges,
  ProfileRequest, Authorization, MaxMicro, TokensPerUnit, MicrosPerSecond, MibMicrosPerGibSecond,
  QualityTx, Model, Statement, Ratings, MinSamples, ColdStartK, FirstSamples, FirstScore,
  HonorNode, Asked, Threshold, Granularity, LongStreak, Milestone, MaxContribution, FirstHistory,
  FirstShares, Gain, MaxCommits,
  RJob, Kinds, Instance, Facts, NodeFacts, ModelFacts, FirstMetrics, Beats, FirstEarned,
  MinCohort, NearNumerator, NearDenominator, Unit, MaxRtt, MaxChanges

VARIABLES
  focus,
  ledger, account, recorded, receipts, ltx, row_lock, refused, report,
  profiles, lapsed, bill,
  challenges, claiming, free_entries, reserve_lock, catalog_ok, canary, latest,
  quality, events, audits, expired, qtx, event_lock, rows_lock, seen_tiers,
  contribution, daily, asking, view, honor, commits,
  rjob, metrics, held, earned, changes, chosen

\* Two users that serve each other's jobs, a third job at half weight, a grant,
\* and a release that may be asked for again.
Settle(job, consumer, node, weight) ==
  [kind |-> "settle", key |-> job, consumer |-> consumer, node |-> node, base |-> 5,
   tier |-> "medium", trust |-> "standard", precreate |-> weight]
Commands ==
  {Settle("j1", 1, 2, 10), Settle("j2", 2, 1, 10), Settle("j3", 1, 2, 5),
   [kind |-> "grant", key |-> "g", user |-> 2, amount |-> 7],
   [kind |-> "release", key |-> "r", amount |-> 1]}
Ledgers == INSTANCE LedgerChain WITH Nobody <- None
\* Users are numbers in the order of their ids; a settlement has passed the
\* checks of its job, the amount of a grant or a release is what was sent.
ASSUME LedgerAssumption ==
  /\ User \subseteq Nat /\ IsFiniteSet(User)
  /\ \A c \in Command :
       \/ /\ c.kind = "settle" /\ c.consumer \in User /\ c.node \in User /\ c.base \in Nat
          /\ c.tier \in {"high", "medium", "low"}
          /\ c.trust \in {"enhanced", "standard", "unverified"}
          /\ c.precreate \in 0 .. 10
       \/ c.kind = "grant" /\ c.user \in User /\ c.amount \in Int
       \/ c.kind = "release" /\ c.amount \in Int
  /\ InitialQuota \in Nat /\ ReciprocalBlock \in Nat
  /\ None \notin LedgerTx

\* Profiles at the smallest and near the largest values that are accepted, and
\* a second version.
Grid ==
  [max_in : {9}, max_out : {1, 20}, fixed : {0}, gpu : {1, 90}, vram : {1, 12},
   token_rate : {1, 60}, gpu_rate : {1, 70}, vram_rate : {1, 25}]
PricedRequests ==
  [key : {"k1"}, version : {1}, profile : Grid] \cup
  [key : {"k1", "k2"}, version : {1, 2},
   profile : [max_in : {9}, max_out : {20}, fixed : {0}, gpu : {9}, vram : {12},
              token_rate : {60}, gpu_rate : {7}, vram_rate : {2}]]
Authorizations == [input : {0, 9}, output : {1, 20}]
Prices == INSTANCE Billing
\* The fields are i64.
ProfileFields == {"max_in", "max_out", "fixed", "gpu", "vram", "token_rate", "gpu_rate", "vram_rate"}
ASSUME BillingAssumption ==
  /\ \A r \in ProfileRequest : r.version \in Int /\ \A f \in ProfileFields : r.profile[f] \in Int
  /\ \A a \in Authorization : a.input \in Int /\ a.output \in Int
  /\ MaxMicro \in Nat /\ TokensPerUnit \in Nat \ {0}
  /\ MicrosPerSecond \in Nat \ {0} /\ MibMicrosPerGibSecond \in Nat \ {0}

\* Two nodes of one account.
OneAccount == <<"a", "a">>
Hidden == INSTANCE Evaluation WITH Node <- Evaluated, Reserve <- KeptEntries
ASSUME EvaluationAssumption ==
  /\ IsFiniteSet(Entry) /\ Entry \subseteq Nat \ {0}
  /\ CatalogHourly \in Nat /\ AccountHourly \in Nat /\ NodeHourly \in Nat
  /\ KeptEntries \in Nat

\* Two models with equal scores, in the band where the rank decides the tier.
Evidence(key, model, kind, value, samples, signed) ==
  [key |-> key, model |-> model, kind |-> kind, value |-> value, samples |-> samples,
   signed |-> signed]
QualityStatements ==
  {Evidence(1, "m1", "score", 40, 1, TRUE), Evidence(2, "m2", "blind", "loss", 0, FALSE),
   Evidence(2, "m2", "score", 10, 1, TRUE), Evidence(3, "m2", "score", 20, 2, FALSE)}
Models == INSTANCE ModelQuality WITH NoTx <- None
ASSUME QualityAssumption ==
  /\ \A s \in Statement :
       /\ s.model \in Model /\ s.kind \in {"score", "blind"} /\ s.samples \in Nat
       /\ s.kind = "score" => s.value \in Nat
  /\ Ratings \subseteq Nat /\ FirstSamples \subseteq Nat /\ FirstScore \in Nat
  /\ MinSamples \in Nat /\ ColdStartK \in Nat \ {0}
  /\ None \notin QualityTx

\* Four nodes, so that bands hold two and midranks are thirds; two with a long
\* streak, the second of which has none today.
History ==
  <<<<"clean", "clean", "clean", "failed">>, <<"none", "clean", "clean", "clean">>,
    <<"clean", "clean", "failed", "clean">>, <<"none", "none", "none", "none">>>>
Honors == INSTANCE NodeHonor
\* Contributions are i64, the first milestone above the greatest overflows; a day
\* is told apart by its attempts, and the history goes back as far as the streak.
ASSUME HonorAssumption ==
  /\ IsFiniteSet(HonorNode) /\ Asked \in HonorNode
  /\ Threshold \in Nat \ {0} /\ Granularity \in Nat \ {0} /\ LongStreak \in Nat \ {0}
  /\ IsFiniteSet(Milestone) /\ Milestone \subseteq Nat
  /\ MaxContribution \in Nat /\ \E m \in Milestone : m > MaxContribution
  /\ FirstShares \subseteq 0 .. MaxContribution /\ Gain \subseteq Nat
  /\ FirstHistory \in [HonorNode -> Seq({"none", "clean", "failed"})]
  /\ \A n \in HonorNode : Len(FirstHistory[n]) > LongStreak

\* Three nodes: two of nearly equal scores, the second with two instances of one
\* model, and a third that has earned most and scores too low to profit from it.
Request(speed, tags, pinned, attempts) ==
  [speed |-> speed, tags |-> tags, pinned |-> pinned, context |-> 2, max_attempts |-> attempts]
Row(rtt, tps, reported, fits, errors) ==
  [rtt |-> rtt, tps |-> tps, reported |-> reported, fits |-> fits, errors |-> errors]
JobKinds ==
  <<{Request("standard", {}, None, 2), Request("standard", {}, 1, 2)},
    {Request("standard", {}, None, 2), Request("slow", {}, None, 1)},
    {Request("fast", {}, None, 2), Request("slow", {"code"}, None, 1)}>>
InstanceFacts ==
  <<[node |-> 1, model |-> 1, tags |-> {}], [node |-> 2, model |-> 1, tags |-> {}],
    [node |-> 3, model |-> 1, tags |-> {}], [node |-> 1, model |-> 2, tags |-> {"code"}],
    [node |-> 2, model |-> 1, tags |-> {}]>>
FactsOfNodes ==
  <<[trust |-> "standard", max_concurrent |-> 2, reject_tags |-> {}, limited |-> TRUE],
    [trust |-> "standard", max_concurrent |-> 1, reject_tags |-> {}, limited |-> FALSE],
    [trust |-> "limited", max_concurrent |-> 1, reject_tags |-> {"code"}, limited |-> TRUE]>>
FactsOfModels ==
  <<[quality |-> 80, cost |-> 5, context |-> 4], [quality |-> 70, cost |-> 9, context |-> 2]>>
RowsBefore == <<Row(10, 50, 0, TRUE, 0), Row(10, 55, 0, TRUE, 0), Row(10, 50, 0, TRUE, 0)>>
RowsToCome == {Row(None, 60, 1, TRUE, 50), Row(10, 60, 0, FALSE, 0)}
EarnedBefore == <<1, 0, 3>>
Routes == INSTANCE Routing WITH NoRow <- None
\* Every node takes one job at least; what a heartbeat reports was validated; the
\* window of near-equal scores is a share of the best one.
ReportedRow(row) ==
  /\ row.rtt # None => row.rtt \in Nat
  /\ row.tps \in Nat /\ row.reported \in Nat /\ row.errors \in Nat
ASSUME RoutingAssumption ==
  /\ IsFiniteSet(RJob) /\ RJob = 1 .. Cardinality(RJob)
  /\ IsFiniteSet(Instance) /\ Instance \subseteq Nat
  /\ \A i \in Instance : Facts[i].node \in DOMAIN NodeFacts
  /\ DOMAIN NodeFacts \subseteq Nat /\ DOMAIN FirstMetrics = DOMAIN NodeFacts
  /\ \A n \in DOMAIN NodeFacts :
       /\ NodeFacts[n].max_concurrent \in Nat \ {0}
       /\ FirstMetrics[n] # None => ReportedRow(FirstMetrics[n])
  /\ \A row \in Beats : ReportedRow(row)
  /\ MinCohort \in Nat \ {0, 1} /\ Unit \in Nat \ {0} /\ MaxRtt \in Nat \ {0}
  /\ NearNumerator \in Nat /\ NearDenominator \in Nat /\ NearNumerator <= NearDenominator

ledgers == <<ledger, account, recorded, receipts, ltx, row_lock, refused, report>>
prices == <<profiles, lapsed, bill>>
hidden == <<challenges, claiming, free_entries, reserve_lock, catalog_ok, canary, latest>>
models == <<quality, events, audits, expired, qtx, event_lock, rows_lock, seen_tiers>>
honors == <<contribution, daily, asking, view, honor, commits>>
routing == <<rjob, metrics, held, earned, changes, chosen>>
vars == <<focus, ledgers, prices, hidden, models, honors, routing>>

Init ==
  /\ focus \in {"ledgers", "prices", "hidden", "models", "honors", "routing"}
  /\ Ledgers!Init /\ Prices!Init /\ Hidden!Init /\ Models!Init /\ Honors!Init /\ Routes!Init
  /\ focus # "honors" => contribution = [n \in HonorNode |-> 0]

Next ==
  /\ UNCHANGED focus
  /\ \/ focus = "ledgers" /\ Ledgers!Next /\ UNCHANGED <<prices, hidden, models, honors, routing>>
     \/ focus = "prices" /\ Prices!Next /\ UNCHANGED <<ledgers, hidden, models, honors, routing>>
     \/ focus = "hidden" /\ Hidden!Next /\ UNCHANGED <<ledgers, prices, models, honors, routing>>
     \/ focus = "models" /\ Models!Next /\ UNCHANGED <<ledgers, prices, hidden, honors, routing>>
     \/ focus = "honors" /\ Honors!Next /\ UNCHANGED <<ledgers, prices, hidden, models, routing>>
     \/ focus = "routing" /\ Routes!Next /\ UNCHANGED <<ledgers, prices, hidden, models, honors>>

Spec == Init /\ [][Next]_vars

-----------------------------------------------------------------------------
\* However settlements, grants, releases and their retries are interleaved,
\* every ledger is a chain that ends at its account, money is neither made nor
\* lost, no entry is built on a stale head, no two transactions wait for each
\* other, loops are weighed by what committed before, and a transparency report
\* describes one moment.
LedgerSound ==
  focus = "ledgers" =>
    /\ Ledgers!LedgersBalance /\ Ledgers!LocksSuffice
    /\ Ledgers!LoopsWeighed /\ Ledgers!ReportConsistent

\* A job created on an accepted profile can be settled at every tier and trust,
\* whatever profiles came since.
PricesHold == focus = "prices" => Prices!BillsSettle

\* A hidden challenge ends once and counts once, no entry is shown twice, no hour
\* has more of them than its limits allow, and the last entries of the private
\* catalog go to newcomers.
EvaluationSound ==
  /\ [](focus = "hidden" => Hidden!TypeOK /\ Hidden!OneOutcome /\ Hidden!BudgetKept)
  /\ Hidden!ReserveForNewcomers

\* No quality event is lost or applied twice, and a model's tier does not flap
\* with the events of others.
QualitySound == focus = "models" => Models!EventsAccounted /\ Models!NoFlapping

\* The standing of a node and the leaderboard agree, and keep the privacy of small
\* groups whatever commits while they are read.  A job goes to the node that the
\* order of the accounting library puts first, and none is passed over.
NodesRankedFairly ==
  /\ focus = "honors" => Honors!AnswersConsistent /\ Honors!QuietAnswersExact
  /\ focus = "routing" => Routes!RoutedFairly /\ Routes!SomeoneIsServed
=============================================================================
