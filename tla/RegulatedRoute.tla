--------------------------- MODULE RegulatedRoute ---------------------------
(***************************************************************************)
(* Prepared routes of one attested node.  A consumer prepares a route,     *)
(* seals its request for the node's report and creates the job with it;    *)
(* beside it the node claims other work, attests again, or its instance is *)
(* quarantined.  JobLease takes preparation and creation as given; here    *)
(* they are the statements of their transactions, at READ COMMITTED: a     *)
(* statement counts what was committed when it started, also if it then    *)
(* waits for a row lock, while the row it locked is read as it is then.    *)
(*                                                                         *)
(* Source: routes/regulated_jobs.rs, routes/evaluations.rs (the canary     *)
(* lock), routes/jobs.rs (claim_job), routes/attestation_routes.rs.        *)
(***************************************************************************)
EXTENDS Naturals, FiniteSets

CONSTANTS
  Route,          \* idempotency keys; one of a preparation names its route
  Tx,             \* transactions under way at a time
  MaxConcurrent,  \* the node's slots
  MaxReports,     \* bound on attestations
  Free            \* no holder

VARIABLES
  route,          \* route[r]: "none", "prepared", "expired", "consumed"
  route_over,     \* route[r] has reached its expires_at
  route_report,   \* route_report[r]: the report the route is bound to
  job_route,      \* job_route[k]: the route of the job created under key k
  other_work,     \* leases and hidden work on the node
  report,         \* the node's current report
  trusted,        \* the node is online and its trust has not expired
  quarantined,    \* the instance is quarantined
  key_lock,       \* key_lock[d][k]: who holds the advisory lock of key k in
                  \* the domain d of preparations or creations
  route_lock,     \* route_lock[r]: who holds the route's row
  node_lock,      \* who holds the node's row and its policy's
  canary_lock,    \* who holds the instance's canary lock
  tx              \* tx[t]: kind, key, route, statement reached, the report of the
                  \* candidate and the slots counted

vars == <<route, route_over, route_report, job_route, other_work, report, trusted,
          quarantined, key_lock, route_lock, node_lock, canary_lock, tx>>
rows == <<route, route_over, route_report, job_route, other_work>>
node == <<report, trusted, quarantined>>
locks == <<key_lock, route_lock, node_lock, canary_lock>>

Domain == {"prepare", "create"}

Ready == [kind |-> "none", key |-> Free, route |-> Free, pc |-> "idle", report |-> 0, seen |-> 0]

\* The slots taken by prepared routes (but r), waiting regulated jobs, leases
\* and hidden work.
ReservedCount(without) ==
  other_work
  + Cardinality({r \in Route \ without : route[r] = "prepared" /\ ~ route_over[r]})
  + Cardinality({k \in Route : job_route[k] # Free})

Released(t) ==
  /\ key_lock' = [d \in Domain |->
       [k \in Route |-> IF key_lock[d][k] = t THEN Free ELSE key_lock[d][k]]]
  /\ route_lock' = [r \in Route |-> IF route_lock[r] = t THEN Free ELSE route_lock[r]]
  /\ node_lock' = IF node_lock = t THEN Free ELSE node_lock
  /\ canary_lock' = IF canary_lock = t THEN Free ELSE canary_lock
  /\ tx' = [tx EXCEPT ![t] = Ready]

At(t, pc) == tx[t].pc = pc
Goes(t, pc) == tx' = [tx EXCEPT ![t].pc = pc]

-----------------------------------------------------------------------------
\* prepare_regulated_job and create_regulated_job begin with the advisory lock
\* of user and key.
Begin(t, kind, k, r) ==
  /\ At(t, "idle") /\ key_lock[kind][k] = Free
  /\ kind = "prepare" => r = k
  /\ key_lock' = [key_lock EXCEPT ![kind][k] = t]
  /\ tx' = [tx EXCEPT ![t] =
       [Ready EXCEPT !.kind = kind, !.key = k, !.route = r, !.pc = "begun"]]
  /\ UNCHANGED <<rows, node, route_lock, node_lock, canary_lock>>

\* prepare: the user's overdue routes are expired; a key that has its route is
\* answered, or refused once the route was used.
PrepareAgain(t) ==
  /\ At(t, "begun") /\ tx[t].kind = "prepare"
  /\ route[tx[t].route] # "none"
  /\ \A r \in Route : (route_over[r] /\ route[r] = "prepared") => route_lock[r] = Free
  /\ route' = [r \in Route |-> IF route_over[r] /\ route[r] = "prepared" THEN "expired"
                                                                      ELSE route[r]]
  /\ Released(t)
  /\ UNCHANGED <<route_over, route_report, job_route, other_work, node>>

\* The query for candidates locks nothing: trusted, not quarantined, with a free
\* slot.  The row that is kept holds the report as it is now.
SelectCandidate(t) ==
  /\ At(t, "begun") /\ tx[t].kind = "prepare"
  /\ route[tx[t].route] = "none"
  /\ IF trusted /\ ~ quarantined /\ ReservedCount({}) < MaxConcurrent
       THEN /\ tx' = [tx EXCEPT ![t].pc = "counting", ![t].report = report]
            /\ UNCHANGED locks
       ELSE Released(t)
  /\ UNCHANGED <<rows, node>>

\* create: a key that has its job is answered.
CreateAgain(t) ==
  /\ At(t, "begun") /\ tx[t].kind = "create"
  /\ job_route[tx[t].key] # Free
  /\ Released(t)
  /\ UNCHANGED <<rows, node>>

\* create locks the route and checks it with the node and the report as they
\* are then.
LockRoute(t) ==
  LET r == tx[t].route IN
  /\ At(t, "begun") /\ tx[t].kind = "create"
  /\ job_route[tx[t].key] = Free /\ route_lock[r] = Free
  /\ IF /\ route[r] = "prepared" /\ ~ route_over[r]
        /\ trusted /\ ~ quarantined /\ route_report[r] = report
       THEN /\ Goes(t, "counting")
            /\ route_lock' = [route_lock EXCEPT ![r] = t]
            /\ UNCHANGED <<key_lock, node_lock, canary_lock>>
       ELSE Released(t)
  /\ UNCHANGED <<rows, node>>

\* check_reserved_capacity_and_policy starts: its sub-queries count now.
CountSlots(t) ==
  /\ At(t, "counting")
  /\ tx' = [tx EXCEPT ![t].pc = "waiting",
                      ![t].seen = ReservedCount(IF tx[t].kind = "create" THEN {tx[t].route} ELSE {})]
  /\ UNCHANGED <<rows, node, locks>>

\* Mutant of LockNode: the expected report is not passed on.
LockNodeAnyReport(t) ==
  /\ At(t, "waiting") /\ node_lock = Free
  /\ IF trusted /\ tx[t].seen < MaxConcurrent
       THEN /\ Goes(t, "locked")
            /\ node_lock' = t
            /\ UNCHANGED <<key_lock, route_lock, canary_lock>>
       ELSE Released(t)
  /\ UNCHANGED <<rows, node>>

\* ... and has locked the node's row, whose columns are read as they are now.
LockNode(t) ==
  /\ At(t, "waiting") /\ node_lock = Free
  /\ IF /\ trusted /\ tx[t].seen < MaxConcurrent
        /\ tx[t].kind = "create" => route_report[tx[t].route] = report
       THEN /\ Goes(t, "locked")
            /\ node_lock' = t
            /\ UNCHANGED <<key_lock, route_lock, canary_lock>>
       ELSE Released(t)
  /\ UNCHANGED <<rows, node>>

\* Mutant of LockCanary: the state is read without the lock.
ReadCanary(t) ==
  /\ At(t, "locked")
  /\ IF ~ quarantined
       THEN Goes(t, "cleared") /\ UNCHANGED locks
       ELSE Released(t)
  /\ UNCHANGED <<rows, node>>

\* instance_canary_quarantined: the lock, then the state.
LockCanary(t) ==
  /\ At(t, "locked") /\ canary_lock = Free
  /\ IF ~ quarantined
       THEN /\ Goes(t, "cleared")
            /\ canary_lock' = t
            /\ UNCHANGED <<key_lock, route_lock, node_lock>>
       ELSE Released(t)
  /\ UNCHANGED <<rows, node>>

\* The route is bound to the candidate's report, whatever the node has now.
CommitPrepare(t) ==
  LET r == tx[t].route IN
  /\ At(t, "cleared") /\ tx[t].kind = "prepare"
  /\ route' = [route EXCEPT ![r] = "prepared"]
  /\ route_report' = [route_report EXCEPT ![r] = tx[t].report]
  /\ Released(t)
  /\ UNCHANGED <<route_over, job_route, other_work, node>>

\* Mutant of CommitCreate: the rows of the last UPDATE are not counted.
CommitUncounted(t) ==
  LET r == tx[t].route IN
  /\ At(t, "cleared") /\ tx[t].kind = "create"
  /\ route' = [route EXCEPT ![r] = IF @ = "prepared" /\ ~ route_over[r] THEN "consumed" ELSE @]
  /\ job_route' = [job_route EXCEPT ![tx[t].key] = r]
  /\ Released(t)
  /\ UNCHANGED <<route_over, route_report, other_work, node>>

\* The job is inserted and the route used up, unless it has just expired.
CommitCreate(t) ==
  LET r == tx[t].route IN
  /\ At(t, "cleared") /\ tx[t].kind = "create"
  /\ IF route[r] = "prepared" /\ ~ route_over[r]
       THEN /\ route' = [route EXCEPT ![r] = "consumed"]
            /\ job_route' = [job_route EXCEPT ![tx[t].key] = r]
       ELSE UNCHANGED <<route, job_route>>
  /\ Released(t)
  /\ UNCHANGED <<route_over, route_report, other_work, node>>

\* An error on the way: the transaction is rolled back.
RollBack(t) ==
  /\ ~ At(t, "idle")
  /\ Released(t)
  /\ UNCHANGED <<rows, node>>

-----------------------------------------------------------------------------
\* claim_job locks the node first and counts after it.
ClaimWork ==
  /\ node_lock = Free /\ trusted
  /\ ReservedCount({}) < MaxConcurrent
  /\ other_work' = other_work + 1
  /\ UNCHANGED <<route, route_over, route_report, job_route, node, locks, tx>>

EndWork ==
  /\ other_work > 0
  /\ other_work' = other_work - 1
  /\ UNCHANGED <<route, route_over, route_report, job_route, node, locks, tx>>

RouteExpires(r) ==
  /\ route[r] = "prepared" /\ ~ route_over[r]
  /\ route_over' = [route_over EXCEPT ![r] = TRUE]
  /\ UNCHANGED <<route, route_report, job_route, other_work, node, locks, tx>>

\* submit_attestation binds another report to the node's row.
AttestAgain ==
  /\ node_lock = Free /\ report < MaxReports
  /\ report' = report + 1 /\ trusted' = TRUE
  /\ UNCHANGED <<rows, quarantined, locks, tx>>

TrustEnds ==
  /\ node_lock = Free /\ trusted
  /\ trusted' = FALSE
  /\ UNCHANGED <<rows, report, quarantined, locks, tx>>

\* record_instance_canary_signal
Quarantine ==
  /\ canary_lock = Free
  /\ quarantined' = ~ quarantined
  /\ UNCHANGED <<rows, report, trusted, locks, tx>>

-----------------------------------------------------------------------------
Init ==
  /\ route = [r \in Route |-> "none"]
  /\ route_over = [r \in Route |-> FALSE]
  /\ route_report = [r \in Route |-> 0]
  /\ job_route = [k \in Route |-> Free]
  /\ other_work = 0
  /\ report = 1 /\ trusted = TRUE /\ quarantined = FALSE
  /\ key_lock = [d \in Domain |-> [k \in Route |-> Free]]
  /\ route_lock = [r \in Route |-> Free]
  /\ node_lock = Free /\ canary_lock = Free
  /\ tx = [t \in Tx |-> Ready]

Next ==
  \/ \E t \in Tx :
       \/ \E kind \in Domain, k \in Route, r \in Route : Begin(t, kind, k, r)
       \/ PrepareAgain(t) \/ SelectCandidate(t) \/ CreateAgain(t) \/ LockRoute(t)
       \/ CountSlots(t) \/ LockNode(t) \/ LockCanary(t)
       \/ CommitPrepare(t) \/ CommitCreate(t) \/ RollBack(t)
  \/ \E r \in Route : RouteExpires(r)
  \/ ClaimWork \/ EndWork \/ AttestAgain \/ TrustEnds \/ Quarantine

Spec == Init /\ [][Next]_vars

-----------------------------------------------------------------------------
TypeOK ==
  /\ route \in [Route -> {"none", "prepared", "expired", "consumed"}]
  /\ job_route \in [Route -> Route \cup {Free}]
  /\ other_work \in Nat /\ report \in 1 .. MaxReports
  /\ {node_lock, canary_lock} \subseteq Tx \cup {Free}
  /\ \A t \in Tx : tx[t].kind \in {"none", "prepare", "create"}

\* A route becomes one job, and a job exists only for a route that was used up,
\* whatever is retried and however preparations and creations overlap.
RouteUsedOnce ==
  \A r \in Route :
    Cardinality({k \in Route : job_route[k] = r}) = (IF route[r] = "consumed" THEN 1 ELSE 0)

\* A route may be bound to a report that the node has replaced since the query that
\* chose it, but no job is created under one: its report is still the node's when the
\* job is inserted.  The request was sealed for the key of that report and no other
\* can open it.
CreatedUnderReport ==
  [][\A k \in Route : (job_route'[k] # job_route[k]) => (route_report[job_route'[k]] = report)]_vars

\* Nothing is prepared or created on an instance that is already quarantined
\* when the transaction commits.
QuarantineHolds ==
  [][quarantined =>
       /\ job_route' = job_route
       /\ \A r \in Route : (route'[r] = "prepared") => (route[r] = "prepared")]_vars

\* Concurrent preparations do not promise one slot twice.
SlotsPromisedOnce == ReservedCount({}) <= MaxConcurrent
=============================================================================
