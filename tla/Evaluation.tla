----------------------------- MODULE Evaluation -----------------------------
(***************************************************************************)
(* Hidden evaluation.  A node that asks for work may be given a challenge  *)
(* that looks like any job: a public canary, or an entry of the private    *)
(* catalog, of which each account, device and node gets only so many an    *)
(* hour and the last ones go to newcomers.  A challenge ends once, by its  *)
(* result, its failure or the expiry of its lease, and its outcome counts  *)
(* once for the instance's quarantine and once in the arbitration.         *)
(*                                                                         *)
(* Every node has one device and one published instance.  A claim holds    *)
(* the node's row from its first statement on (claim_job), so a node has   *)
(* one claim at a time; the reserve lock is held to the end of the claim.  *)
(* Handlers of a challenge lock its row first and are atomic here; the     *)
(* end of a draining instance, which they attempt last, is InstanceDrain's.*)
(*                                                                         *)
(* Source: routes/evaluations.rs, private_evaluation_catalog.rs, lib.rs.   *)
(***************************************************************************)
EXTENDS Naturals, Sequences, FiniteSets

CONSTANTS
  Node,              \* nodes, each with its device and instance
  AccountOf,         \* AccountOf[n]: the node's owner
  Entry,             \* entries of the private catalog (numbers), all for one model
  CatalogHourly, AccountHourly, NodeHourly,  \* the hourly limits
  Reserve,           \* global_reserve_entries
  FailureThreshold,  \* QUARANTINE_FAILURE_THRESHOLD
  RecoveryThreshold, \* RECOVERY_PASS_THRESHOLD
  MaxChallenges      \* bound on the challenges issued

VARIABLES
  challenges,        \* the challenges, in the order they were issued
  claiming,          \* claiming[n]: the statement the node's claim has reached
  free_entries,      \* free_entries[n]: the entries a claim has found available
  reserve_lock,      \* the claims that hold the reserve lock
  catalog_ok,        \* the catalog's signature, window and contents are valid
  canary,            \* canary[n]: the instance's row of canary state
  latest             \* latest[n]: the last verdict on the instance's authenticity

vars == <<challenges, claiming, free_entries, reserve_lock, catalog_ok, canary, latest>>
claims == <<claiming, free_entries, reserve_lock>>
outcomes == <<canary, latest>>

Canary == 0
Challenge == DOMAIN challenges
Private(c) == challenges[c].entry # Canary
Leased(c) == challenges[c].status = "leased"

-----------------------------------------------------------------------------
(***************************************************************************)
(* What an outcome does                                                    *)
(***************************************************************************)
\* record_instance_canary_signal: failures in a row quarantine, passes in a
\* row recover.
CanarySignal(n, passed) ==
  LET old == canary[n]
      passes == IF passed /\ old.quarantined THEN old.passes + 1 ELSE 0
      failures == IF passed THEN 0 ELSE old.failures + 1
      quarantined == IF passed THEN old.quarantined /\ passes < RecoveryThreshold
                               ELSE old.quarantined \/ failures >= FailureThreshold
  IN [failures |-> failures,
      passes |-> IF quarantined THEN passes ELSE 0,
      quarantined |-> quarantined]

\* record_private_authenticity_arbitration: the instance's verdict beside the
\* latest ones of the others.
Arbitration(n, passed) ==
  LET others == {m \in Node \ {n} : latest[m] # "none"}
      failing == {m \in others : latest[m] = "failed"}
  IN IF others = {} THEN "pending"
     ELSE IF passed /\ failing = {} THEN "corroborated" ELSE "disputed"

\* The row, the lifecycle events, the arbitration and the signal of one outcome.
Completes(c, status, passed) ==
  LET n == challenges[c].node IN
  /\ challenges' = [challenges EXCEPT
       ![c].status = status, ![c].signals = @ + 1,
       ![c].verdict = IF Private(c) THEN Arbitration(n, passed) ELSE "none"]
  /\ canary' = [canary EXCEPT ![n] = CanarySignal(n, passed)]
  /\ latest' = IF Private(c) THEN [latest EXCEPT ![n] = IF passed THEN "passed" ELSE "failed"]
                             ELSE latest

\* Mutant of CompleteExpiredFailure: the row is not read again under its lock.
CompleteUnlocked(c) == Completes(c, "failed", FALSE)

\* complete_expired_failure
CompleteExpiredFailure(c) ==
  /\ Leased(c) /\ challenges[c].over
  /\ Completes(c, "failed", FALSE)

-----------------------------------------------------------------------------
(***************************************************************************)
(* Claims                                                                  *)
(***************************************************************************)
\* The instance has no challenge under way and none that is cooling down.
Candidate(n) ==
  \A c \in Challenge : challenges[c].node = n => ~ Leased(c) /\ challenges[c].age # "cooling"

\* maybe_claim_hidden_job: the node's stale challenges are expired first
\* (expire_stale_challenges, one step each); then a draw, and a candidate.
BeginClaim(n) ==
  /\ claiming[n] = "idle" /\ Len(challenges) < MaxChallenges
  /\ ~ \E c \in Challenge : challenges[c].node = n /\ Leased(c) /\ challenges[c].over
  /\ Candidate(n)
  /\ claiming' = [claiming EXCEPT ![n] = "drawn"]
  /\ UNCHANGED <<challenges, free_entries, reserve_lock, catalog_ok, outcomes>>

\* available_private_entries: entries that no challenge was ever issued for.
Unissued == Entry \ {challenges[c].entry : c \in Challenge}

\* Mutant of LockPrivateGlobalReserve: the lock is not taken.
CountUnlocked(n) ==
  /\ claiming[n] = "drawn" /\ catalog_ok
  /\ free_entries' = [free_entries EXCEPT ![n] = Unissued]
  /\ claiming' = [claiming EXCEPT ![n] = "counted"]
  /\ UNCHANGED <<challenges, reserve_lock, catalog_ok, outcomes>>

\* lock_private_global_reserve, then the availability of every entry.
LockPrivateGlobalReserve(n) ==
  /\ claiming[n] = "drawn" /\ catalog_ok /\ reserve_lock = {}
  /\ reserve_lock' = {n}
  /\ free_entries' = [free_entries EXCEPT ![n] = Unissued]
  /\ claiming' = [claiming EXCEPT ![n] = "counted"]
  /\ UNCHANGED <<challenges, catalog_ok, outcomes>>

\* count_private_issued_scope: private challenges of the last hour in a scope.
IssuedIn(scope) ==
  Cardinality({c \in Challenge : Private(c) /\ challenges[c].age # "old" /\ challenges[c].node \in scope})

AccountNodes(n) == {m \in Node : AccountOf[m] = AccountOf[n]}

\* The account, device or node has had an entry of this catalog before.
Seen(n) == \E c \in Challenge : Private(c) /\ challenges[c].node \in AccountNodes(n)

\* Mutant of PrivateBudgetAllows: one more than the limit.
BudgetAllowsOneMore(n) ==
  /\ IssuedIn(Node) < CatalogHourly
  /\ IssuedIn(AccountNodes(n)) < AccountHourly
  /\ IssuedIn({n}) <= NodeHourly
  /\ ~ \E c \in Challenge : Private(c) /\ challenges[c].age = "cooling"
                            /\ challenges[c].node \in AccountNodes(n)
  /\ Reserve = 0 \/ Cardinality(free_entries[n]) > Reserve \/ ~ Seen(n)

\* private_budget_allows_claim, under the rows of all four scopes, and
\* private_budget_snapshot_allows.
PrivateBudgetAllows(n) ==
  /\ IssuedIn(Node) < CatalogHourly
  /\ IssuedIn(AccountNodes(n)) < AccountHourly
  /\ IssuedIn({n}) < NodeHourly
  /\ ~ \E c \in Challenge : Private(c) /\ challenges[c].age = "cooling"
                            /\ challenges[c].node \in AccountNodes(n)
  /\ Reserve = 0 \/ Cardinality(free_entries[n]) > Reserve \/ ~ Seen(n)

\* insert_challenge_claim: ON CONFLICT DO NOTHING, and the "issued" event.
Issues(n, entry) ==
  /\ challenges' = Append(challenges,
       [node |-> n, entry |-> entry, status |-> "leased", over |-> FALSE, age |-> "cooling",
        signals |-> 0, verdict |-> "none"])
  /\ claiming' = [claiming EXCEPT ![n] = "idle"]
  /\ free_entries' = [free_entries EXCEPT ![n] = {}]
  /\ reserve_lock' = reserve_lock \ {n}
  /\ UNCHANGED <<catalog_ok, outcomes>>

\* Entries differ in their names only: the lowest stands for the one drawn.
IssuePrivate(n) ==
  /\ claiming[n] = "counted" /\ PrivateBudgetAllows(n)
  /\ \E entry \in free_entries[n] \cap Unissued :
       /\ \A other \in free_entries[n] \cap Unissued : entry <= other
       /\ Issues(n, entry)

\* Every other way ends with a public canary.
IssueCanary(n) ==
  /\ \/ claiming[n] = "drawn" /\ ~ catalog_ok
     \/ claiming[n] = "counted"
        /\ (free_entries[n] \cap Unissued = {} \/ ~ PrivateBudgetAllows(n))
  /\ Issues(n, Canary)

\* The claim is rolled back.
ClaimFails(n) ==
  /\ claiming[n] # "idle"
  /\ claiming' = [claiming EXCEPT ![n] = "idle"]
  /\ free_entries' = [free_entries EXCEPT ![n] = {}]
  /\ reserve_lock' = reserve_lock \ {n}
  /\ UNCHANGED <<challenges, catalog_ok, outcomes>>

-----------------------------------------------------------------------------
(***************************************************************************)
(* Handlers of a challenge                                                 *)
(***************************************************************************)
\* What a node may send: in the form of a chat completion by the model that was
\* asked for, with a usage that adds up and is reported alike, or not; within
\* the authorised tokens or not; the expected answer or not.
Answer == [formed : BOOLEAN, usage : {"none", "within", "above"}, right : BOOLEAN]

\* validate_and_extract_output: anything else is an error that changes nothing.
ValidateAndExtractOutput(a) == a.formed /\ a.usage = "within"

\* submitted_answer_matches: the hash or the keyed commitment of the trimmed text.
SubmittedAnswerMatches(a) == a.right

SubmitHiddenJobResult(c, a) ==
  /\ Leased(c) /\ ~ challenges[c].over
  /\ ValidateAndExtractOutput(a)
  /\ LET passed == SubmittedAnswerMatches(a)
     IN Completes(c, IF passed THEN "succeeded" ELSE "failed", passed)
  /\ UNCHANGED <<claims, catalog_ok>>

SubmitHiddenJobFailure(c) ==
  /\ Leased(c) /\ ~ challenges[c].over
  /\ Completes(c, "failed", FALSE)
  /\ UNCHANGED <<claims, catalog_ok>>

\* A submission, a renewal, a claim or the sweep finds the lease run out.
ExpireHiddenJob(c) ==
  /\ CompleteExpiredFailure(c)
  /\ UNCHANGED <<claims, catalog_ok>>

\* renew_hidden_job: a lease never outlives its catalog.
RenewHiddenJob(c) ==
  /\ Leased(c) /\ challenges[c].over = FALSE
  /\ Private(c) => catalog_ok
  /\ UNCHANGED vars

LeaseOver(c) ==
  /\ Leased(c) /\ ~ challenges[c].over
  /\ challenges' = [challenges EXCEPT ![c].over = TRUE]
  /\ UNCHANGED <<claims, catalog_ok, outcomes>>

\* The cooldown and the hour pass, for the oldest first; nothing counts the
\* canaries of an hour.
Ages(c) ==
  /\ challenges[c].age = "cooling" \/ (challenges[c].age = "hour" /\ Private(c))
  /\ \A d \in 1 .. (c - 1) :
       /\ challenges[d].age # "cooling"
       /\ challenges[c].age = "hour" /\ Private(d) => challenges[d].age = "old"
  /\ challenges' = [challenges EXCEPT ![c].age = IF @ = "cooling" THEN "hour" ELSE "old"]
  /\ UNCHANGED <<claims, catalog_ok, outcomes>>

\* load_private_evaluation_catalog reads the directory for every claim: the
\* operator may replace the catalog, and its window ends.
CatalogChanges ==
  /\ catalog_ok' = ~ catalog_ok
  /\ UNCHANGED <<challenges, claims, outcomes>>

Init ==
  /\ challenges = <<>>
  /\ claiming = [n \in Node |-> "idle"] /\ free_entries = [n \in Node |-> {}]
  /\ reserve_lock = {} /\ catalog_ok = TRUE
  /\ canary = [n \in Node |-> [failures |-> 0, passes |-> 0, quarantined |-> FALSE]]
  /\ latest = [n \in Node |-> "none"]

Next ==
  \/ \E n \in Node : BeginClaim(n) \/ LockPrivateGlobalReserve(n) \/ IssuePrivate(n)
                     \/ IssueCanary(n) \/ ClaimFails(n)
  \/ \E c \in Challenge : \/ \E a \in Answer : SubmitHiddenJobResult(c, a)
                          \/ SubmitHiddenJobFailure(c) \/ ExpireHiddenJob(c)
                          \/ RenewHiddenJob(c) \/ LeaseOver(c) \/ Ages(c)
  \/ CatalogChanges

Spec == Init /\ [][Next]_vars

-----------------------------------------------------------------------------
TypeOK ==
  /\ \A c \in Challenge :
       /\ challenges[c].node \in Node
       /\ challenges[c].entry \in Entry \cup {Canary}
       /\ challenges[c].status \in {"leased", "succeeded", "failed"}
       /\ challenges[c].verdict \in {"none", "pending", "corroborated", "disputed"}
  /\ claiming \in [Node -> {"idle", "drawn", "counted"}]
  /\ \A n \in Node : canary[n].quarantined \in BOOLEAN

\* However results, failures, late submissions and sweeps race, a challenge
\* ends once and its outcome is counted once; an instance has one at a time,
\* and an entry is never shown twice.
OneOutcome ==
  \A c, d \in Challenge :
    /\ challenges[c].signals = (IF Leased(c) THEN 0 ELSE 1)
    /\ (c # d /\ Private(c)) => challenges[c].entry # challenges[d].entry
    /\ (c # d /\ Leased(c) /\ Leased(d)) => challenges[c].node # challenges[d].node

\* No hour has more private challenges than the limits of catalog, account and
\* node allow, although claims of several nodes count at the same time.
BudgetKept ==
  /\ IssuedIn(Node) <= CatalogHourly
  /\ \A n \in Node :
       IssuedIn(AccountNodes(n)) <= AccountHourly /\ IssuedIn({n}) <= NodeHourly

\* The last entries of the catalog go to accounts that have seen none of it,
\* counted when the entry is issued and not when the claim looked.
ReserveForNewcomers ==
  [][\A n \in Node : (Len(challenges') > Len(challenges) /\ challenges'[Len(challenges')].node = n
                      /\ challenges'[Len(challenges')].entry # Canary)
       => (Cardinality(Unissued) > Reserve \/ ~ Seen(n))]_vars
=============================================================================
