------------------------------ MODULE NodeHonor ------------------------------
(***************************************************************************)
(* GET /v1/nodes/{id}/stats: the owner of a node asks for its standing     *)
(* among the contributors and for the anonymous leaderboard of the network.*)
(* The answer is put together from five queries on the pool, outside any   *)
(* transaction, while receipts and attempts are committed between them;    *)
(* `mindone share stats' checks it again before it is shown.               *)
(*                                                                         *)
(* A day of attempts is "none", "clean" or "failed"; daily[n][1] is today. *)
(*                                                                         *)
(* Source: crates/mindone-coordinator/src/routes/nodes_models.rs, lines    *)
(* 396 - 892, and crates/mindone-cli/src/share.rs, lines 1298 - 1617.      *)
(***************************************************************************)
EXTENDS Naturals, Sequences, FiniteSets, FiniteSetsExt

CONSTANTS
  HonorNode,      \* the nodes of the network
  Asked,          \* the node whose stats are asked for
  Threshold,      \* CONTRIBUTION_RANK_PRIVACY_THRESHOLD
  Granularity,    \* NETWORK_HONOR_COUNT_GRANULARITY
  LongStreak,     \* the 100 days of ZeroFailure100Days
  Milestone,      \* CONTRIBUTION_MILESTONE_BASE_MICRO and its multiples by ten
  MaxContribution,\* i64::MAX
  FirstHistory,   \* attempts before the first query
  FirstShares, Gain, MaxCommits  \* bounds: contributions, and commits among the queries

VARIABLES
  contribution,   \* the sum of a node's receipts
  daily,          \* job_attempts of a node, by day
  asking,         \* the next query of the handler
  view,           \* what it has read
  honor,          \* the answer
  commits         \* commits since the first query

vars == <<contribution, daily, asking, view, honor, commits>>
tables == <<contribution, daily>>

NoValue == <<>>
SumOf(f, S) == MapThenSumSet(LAMBDA x : f[x], S)
Bands == {1, 5, 10, 25, 50}

-----------------------------------------------------------------------------
(***************************************************************************)
(* What the queries return                                                 *)
(***************************************************************************)
Cohort == {n \in HonorNode : contribution[n] > 0}
Lower(c) == Cardinality({n \in Cohort : contribution[n] < c})
Tied(c) == Cardinality({n \in Cohort : contribution[n] = c})

\* The sizes of the groups of equal contributions, the smallest first.
TieGroups ==
  LET values == {contribution[n] : n \in Cohort} IN
  [i \in 1 .. Cardinality(values) |->
     Tied(CHOOSE v \in values : Cardinality({w \in values : w < v}) = i - 1)]

\* zero_failure_streak of the days given: today counts once it has an attempt.
ZeroFailureStreak(days) ==
  LET first == IF days[1] # "none" THEN 1 ELSE 2
      clean == {k \in 0 .. Len(days) : first + k - 1 <= Len(days) /\
                  \A i \in first .. first + k - 1 : days[i] = "clean"}
  IN IF \A i \in DOMAIN days : days[i] = "none" THEN NoValue ELSE <<Max(clean)>>

\* Mutant of Window: 100 days.
WindowShort(days) == SubSeq(days, 1, LongStreak)

\* The last 101 days.
Window(days) == SubSeq(days, 1, LongStreak + 1)

\* network_zero_failure_100_days_nodes
ZeroFailureNodes ==
  Cardinality({n \in Cohort :
    LET streak == ZeroFailureStreak(Window(daily[n]))
    IN streak # NoValue /\ streak[1] >= LongStreak})

-----------------------------------------------------------------------------
(***************************************************************************)
(* What is made of them                                                    *)
(***************************************************************************)
\* contribution_midrank_percentile as a fraction, twice each part.
MidrankPercentile(cohort, lower, tied) ==
  IF cohort = 1 THEN [num |-> 1, den |-> 2]
  ELSE [num |-> 2 * lower + tied - 1, den |-> 2 * (cohort - 1)]

\* individual_contribution_rank_label and the test in top_ranked_nodes.
InBand(percentile, band) == percentile.num * 100 >= percentile.den * (100 - band)

Before(groups, i) == SumOf(groups, 1 .. i - 1)

\* Mutant of TopRankedNodes: counts whole ranks, not midranks.
TopRankedLowest(cohort, groups, band) ==
  SumOf(groups,
    {i \in DOMAIN groups :
       InBand([num |-> 2 * Before(groups, i), den |-> 2 * (cohort - 1)], band)})

\* top_ranked_nodes
TopRankedNodes(cohort, groups, band) ==
  SumOf(groups,
    {i \in DOMAIN groups :
       InBand(MidrankPercentile(cohort, Before(groups, i), groups[i]), band)})

\* Mutant of Quantized: rounds up.
QuantizedUp(nodes) ==
  LET bound == ((nodes + Granularity - 1) \div Granularity) * Granularity
  IN IF bound >= Threshold THEN bound ELSE 0

\* push_quantized_honor_entry: 0 stands for no entry.
Quantized(nodes) ==
  LET bound == (nodes \div Granularity) * Granularity
  IN IF bound >= Threshold THEN bound ELSE 0

Suppressed == [suppressed |-> TRUE, cohort |-> 0, bands |-> [b \in Bands |-> 0],
               contributor |-> 0, zero_failure |-> 0]

\* network_honor_leaderboard, NoValue for its internal error.
NetworkHonorLeaderboard(cohort, groups, zero) ==
  IF zero > cohort \/ Before(groups, Len(groups) + 1) # cohort THEN NoValue
  ELSE IF cohort < Threshold THEN <<Suppressed>>
  ELSE <<[suppressed |-> FALSE, cohort |-> cohort,
          bands |-> [b \in Bands |-> Quantized(TopRankedNodes(cohort, groups, b))],
          contributor |-> Quantized(cohort), zero_failure |-> Quantized(zero)]>>

\* Mutant of ContributionMilestones: the next milestone may be the value itself.
MilestonesReached(c) ==
  LET next == Min({m \in Milestone : m >= c})
  IN IF next > MaxContribution THEN NoValue
     ELSE <<[previous |-> Max({0} \cup {m \in Milestone : m < c}), next |-> next]>>

\* contribution_milestones: none once the next one overflows.
ContributionMilestones(c) ==
  LET next == Min({m \in Milestone : m > c})
  IN IF next > MaxContribution THEN NoValue
     ELSE <<[previous |-> Max({0} \cup {m \in Milestone : m <= c}), next |-> next]>>

-----------------------------------------------------------------------------
(***************************************************************************)
(* node_stats and node_honor_stats, one query at a time                    *)
(***************************************************************************)
Fails == asking' = "failed" /\ UNCHANGED <<view, honor>>

\* node_stats: the node's own sum.
ReadNode ==
  /\ asking = "node"
  /\ view' = [view EXCEPT !.own = contribution[Asked]]
  /\ asking' = "rank"
  /\ UNCHANGED <<tables, honor, commits>>

\* The rank of that sum among the contributors of now.
ReadRank ==
  LET cohort == Cardinality(Cohort)
      lower == Lower(view.own)
      tied == Tied(view.own)
      ranked == Asked \in Cohort /\ cohort >= Threshold
  IN /\ asking = "rank"
     /\ IF ranked /\ (tied = 0 \/ lower + tied > cohort) THEN Fails
        ELSE /\ view' = [view EXCEPT !.cohort = cohort, !.percentile =
                           IF ranked THEN <<MidrankPercentile(cohort, lower, tied)>> ELSE NoValue]
             /\ asking' = "ties" /\ UNCHANGED honor
     /\ UNCHANGED <<tables, commits>>

ReadTies ==
  /\ asking = "ties"
  /\ view' = [view EXCEPT !.groups = TieGroups]
  /\ asking' = "daily"
  /\ UNCHANGED <<tables, honor, commits>>

ReadDaily ==
  /\ asking = "daily"
  /\ view' = [view EXCEPT !.streak = ZeroFailureStreak(daily[Asked])]
  /\ asking' = "zero"
  /\ UNCHANGED <<tables, honor, commits>>

\* The last query, left out for a small cohort, and the answer.
ReadZeroFailures ==
  LET zero == IF view.cohort >= Threshold THEN ZeroFailureNodes ELSE 0
      board == NetworkHonorLeaderboard(view.cohort, view.groups, zero)
  IN /\ asking = "zero"
     /\ IF board = NoValue THEN Fails
        ELSE /\ honor' = <<[percentile |-> view.percentile, own |-> view.own,
                            cohort |-> IF view.cohort >= Threshold THEN view.cohort ELSE 0,
                            milestones |-> ContributionMilestones(view.own),
                            streak |-> view.streak, board |-> board[1]]>>
             /\ asking' = "answered" /\ UNCHANGED view
     /\ UNCHANGED <<tables, commits>>

-----------------------------------------------------------------------------
(***************************************************************************)
(* Commits among the queries                                               *)
(***************************************************************************)
Committing == asking \notin {"answered", "failed"} /\ commits < MaxCommits /\ commits' = commits + 1

\* complete_job: a receipt and a succeeded attempt of today.
JobSettles(n, gain) ==
  /\ Committing /\ contribution[n] + gain <= MaxContribution
  /\ contribution' = [contribution EXCEPT ![n] = @ + gain]
  /\ daily' = [daily EXCEPT ![n][1] = IF @ = "failed" THEN @ ELSE "clean"]
  /\ UNCHANGED <<asking, view, honor>>

AttemptFails(n) ==
  /\ Committing
  /\ daily' = [daily EXCEPT ![n][1] = "failed"]
  /\ UNCHANGED <<contribution, asking, view, honor>>

\* Midnight, UTC.
DayPasses ==
  /\ Committing
  /\ daily' = [n \in HonorNode |-> <<"none">> \o SubSeq(daily[n], 1, Len(daily[n]) - 1)]
  /\ UNCHANGED <<contribution, asking, view, honor>>

Init ==
  /\ contribution \in [HonorNode -> FirstShares]
  /\ daily = FirstHistory
  /\ asking = "node" /\ honor = NoValue /\ commits = 0
  /\ view = [own |-> 0, cohort |-> 0, percentile |-> NoValue, groups |-> <<>>, streak |-> NoValue]

Next ==
  \/ ReadNode \/ ReadRank \/ ReadTies \/ ReadDaily \/ ReadZeroFailures
  \/ \E n \in HonorNode : AttemptFails(n) \/ \E gain \in Gain : JobSettles(n, gain)
  \/ DayPasses

Spec == Init /\ [][Next]_vars

-----------------------------------------------------------------------------
(***************************************************************************)
(* What the command line accepts                                           *)
(***************************************************************************)
\* contribution_progress
ContributionProgress(h) ==
  h.milestones # NoValue =>
    h.milestones[1].previous <= h.own /\ h.own < h.milestones[1].next

\* honor_observation
HonorObservation(h) ==
  /\ h.percentile # NoValue => h.percentile[1].num <= h.percentile[1].den
  /\ ContributionProgress(h)

\* network_honor_leaderboard_human
LeaderboardShown(b) ==
  LET entries == {b.bands[p] : p \in Bands} \cup {b.contributor, b.zero_failure}
  IN IF b.suppressed THEN b.cohort = 0 /\ entries = {0}
     ELSE /\ b.cohort >= Threshold
          /\ \A e \in entries \ {0} : e >= Threshold /\ e <= b.cohort /\ e % Granularity = 0

-----------------------------------------------------------------------------
Quiet == commits = 0
Reference(band) ==
  Cardinality({n \in Cohort :
    InBand(MidrankPercentile(Cardinality(Cohort), Lower(contribution[n]), Tied(contribution[n])), band)})

(***************************************************************************)
(* Whatever is committed between the queries, an answer that is given is   *)
(* one the command line accepts, it shows nothing of a cohort or of a band *)
(* below the privacy threshold, and its bands are nested.                  *)
(***************************************************************************)
AnswersConsistent ==
  honor # NoValue =>
    LET h == honor[1] IN
    /\ HonorObservation(h) /\ LeaderboardShown(h.board)
    /\ h.board.suppressed = (h.cohort = 0)
    /\ h.board.suppressed => h.percentile = NoValue
    /\ \A p, q \in Bands : p <= q => h.board.bands[p] <= h.board.bands[q]
    /\ \A p \in Bands : h.board.bands[p] <= h.board.contributor

(***************************************************************************)
(* Without a commit between the queries there is an answer, the board      *)
(* counts in each band the nodes that are told they belong to it, and a    *)
(* node belongs to the long streaks exactly when it is told so.            *)
(***************************************************************************)
QuietAnswersExact ==
  Quiet =>
    /\ asking # "failed"
    /\ (honor # NoValue /\ ~ honor[1].board.suppressed) =>
         /\ \A p \in Bands : honor[1].board.bands[p] = Quantized(Reference(p))
         /\ honor[1].board.zero_failure =
              Quantized(Cardinality({n \in Cohort :
                LET streak == ZeroFailureStreak(daily[n])
                IN streak # NoValue /\ streak[1] >= LongStreak}))
=============================================================================
