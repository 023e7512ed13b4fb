------------------------------ MODULE AntiAbuse ------------------------------
(***************************************************************************)
(* The assessment that precedes the creation of a job.  It runs in the     *)
(* transaction of the creation: its observation and its decision are       *)
(* committed with the job, or rolled back with it.  Counts are read        *)
(* without locks, one query after the other: an observation that is not    *)
(* committed yet is not counted.  Only creations under one key exclude one *)
(* another: the user's account is locked after the assessment.             *)
(*                                                                         *)
(* Scores are percentages.  The window of 24 hours does not end.           *)
(*                                                                         *)
(* Source: crates/mindone-coordinator/src/anti_abuse.rs, routes/jobs.rs,   *)
(* routes/governance.rs.                                                   *)
(***************************************************************************)
EXTENDS Integers, Sequences, FiniteSets

CONSTANTS
  User, JobKey,
  KeysOf,            \* KeysOf[u]: bound on the keys of a user's creations
  DeviceOf,          \* DeviceOf[u]: the device the user works on
  Network,           \* what a connection may show: [proxy, header, prefix, asn]
  RequireNetwork,    \* production
  DeviceBlock, IpShared, IpLarge, AsnShared, AsnLarge,
  LoopEmerging, LoopBlock,
  Newcomer,          \* users that register their device during the run
  LoopUser, MaxLoop, \* bounds on the settled requests of a loop
  MaxOpen,           \* bound on the creations under way at a time
  None

VARIABLES
  device,        \* device[u]: the user's registered key
  observations,  \* abuse_network_observations
  decisions,     \* decisions[u]: abuse_decisions of the user, in the order of their commits;
                 \*  history: known, how many there were when the assessment began
  loop,          \* loop[u]: requests of the user's strongest reciprocal edge
  creating,      \* creating[u][key]: the creation under way and the counts it has read
  blocked        \* users whose creation was answered with anti_abuse_blocked

vars == <<device, observations, decisions, loop, creating, blocked>>

-----------------------------------------------------------------------------
(***************************************************************************)
(* Signals and scores                                                      *)
(***************************************************************************)
\* TrustedNetworkSignal::from_connection: the header counts only when it comes
\* from a trusted proxy, which must send it.
FromConnection(n) ==
  IF n.proxy THEN (IF n.header THEN [prefix |-> n.prefix, asn |-> n.asn] ELSE None)
  ELSE [prefix |-> n.peer, asn |-> n.asn]

Sum(parts) == LET low(n) == IF n > 100 THEN 100 ELSE n IN low(parts[1] + parts[2] + parts[3] + parts[4])

DeviceRisk(count) == IF count >= DeviceBlock THEN 100 ELSE IF count = 2 THEN 35 ELSE 0

\* Mutant of IpRisk: the smaller threshold is tried first.
IpRiskSmallFirst(count) ==
  IF count = None THEN 0 ELSE IF count = IpShared THEN 25 ELSE IF count > IpLarge THEN 40 ELSE 0

IpRisk(count) ==
  IF count = None THEN 0 ELSE IF count >= IpLarge THEN 40 ELSE IF count >= IpShared THEN 25 ELSE 0

AsnRisk(count) ==
  IF count = None THEN 0 ELSE IF count >= AsnLarge THEN 20 ELSE IF count >= AsnShared THEN 10 ELSE 0

LoopRisk(count) == IF count >= LoopBlock THEN 100 ELSE IF count >= LoopEmerging THEN 35 ELSE 0

\* deterministic_decision: one hard signal blocks; two independent ones block
\* together; the network's operator only adds to a score.
DeterministicDecision(devices, ip, asn, requests) ==
  LET missing == RequireNetwork /\ ip = None
      risk == Sum(<<DeviceRisk(devices), IF missing THEN 100 ELSE IpRisk(ip), AsnRisk(asn),
                    LoopRisk(requests)>>)
      independent == Cardinality({i \in 1 .. 3 :
                       <<DeviceRisk(devices), IpRisk(ip), LoopRisk(requests)>>[i] \in 1 .. 99})
      hard == devices >= DeviceBlock \/ missing \/ requests >= LoopBlock
  IN IF hard \/ (independent >= 2 /\ risk >= 70) THEN 0
     ELSE IF risk >= 25 THEN 5 ELSE 10

-----------------------------------------------------------------------------
(***************************************************************************)
(* Operations                                                              *)
(***************************************************************************)
Users(rows) == {r.user : r \in rows}

\* The counts of the four queries as they are committed now, with the
\* transaction's own observation.
Counts(u, signal) ==
  LET seen == observations \cup (IF signal = None THEN {} ELSE {[user |-> u, signal |-> signal]})
  IN <<Cardinality({v \in User : device[v] = device[u]}),
       IF signal = None THEN None
         ELSE Cardinality(Users({o \in seen : o.signal.prefix = signal.prefix})),
       IF signal = None THEN None ELSE IF signal.asn = None THEN None
         ELSE Cardinality(Users({o \in seen : o.signal.asn = signal.asn})),
       loop[u]>>

\* assess_before_create_in_transaction begins under the lock of user and key, and
\* nothing keeps the user's other keys out.  A key that was decided is answered from
\* its row when the request is the same one.
BeginAssessment(u, key, n) ==
  /\ key \in KeysOf[u] /\ creating[u][key] = None /\ device[u] # None
  /\ Cardinality({c \in User \X JobKey : creating[c[1]][c[2]] # None}) < MaxOpen
  /\ \A i \in DOMAIN decisions[u] : decisions[u][i].key # key
  /\ creating' = [creating EXCEPT ![u][key] =
       [signal |-> FromConnection(n), read |-> 0, counts |-> <<0, 0, 0, 0>>,
        known |-> Len(decisions[u])]]
  /\ UNCHANGED <<device, observations, decisions, loop, blocked>>

Assessed(u, key) == creating[u][key] # None /\ creating[u][key].read = 4

\* The next query reads its count.
ReadCount(u, key) ==
  LET c == creating[u][key] IN
  /\ c # None /\ ~ Assessed(u, key)
  /\ creating' = [creating EXCEPT ![u][key] =
       [c EXCEPT !.read = @ + 1,
                 !.counts = [@ EXCEPT ![c.read + 1] = Counts(u, c.signal)[c.read + 1]]]]
  /\ UNCHANGED <<device, observations, decisions, loop, blocked>>

Weight(c) == DeterministicDecision(c.counts[1], c.counts[2], c.counts[3], c.counts[4])
Ends(u, key) == creating' = [creating EXCEPT ![u][key] = None]

\* A blocked creation is an error: its transaction is rolled back.
RefuseBlocked(u, key) ==
  /\ Assessed(u, key) /\ Weight(creating[u][key]) = 0
  /\ blocked' = blocked \cup {u}
  /\ Ends(u, key)
  /\ UNCHANGED <<device, observations, decisions, loop>>

\* The rest of create_job, whose commit is the assessment's too.
CommitCreation(u, key) ==
  LET c == creating[u][key] IN
  /\ Assessed(u, key) /\ Weight(c) > 0
  /\ observations' = observations
       \cup (IF c.signal = None THEN {} ELSE {[user |-> u, signal |-> c.signal]})
  /\ decisions' = [decisions EXCEPT ![u] =
       Append(@, [key |-> key, signal |-> c.signal, weight |-> Weight(c), known |-> c.known])]
  /\ Ends(u, key)
  /\ UNCHANGED <<device, loop, blocked>>

\* The connection is lost, or no model, no profile or no quota: rolled back as well.
CreationFails(u, key) ==
  /\ creating[u][key] # None
  /\ Ends(u, key)
  /\ UNCHANGED <<device, observations, decisions, loop, blocked>>

\* The user's device key is registered.
RegisterDevice(u) ==
  /\ device[u] = None
  /\ device' = [device EXCEPT ![u] = DeviceOf[u]]
  /\ UNCHANGED <<observations, decisions, loop, creating, blocked>>

\* record_settled_edge, in both directions.
SettledInLoop(u) ==
  /\ u \in LoopUser /\ loop[u] < MaxLoop
  /\ loop' = [loop EXCEPT ![u] = @ + 1]
  /\ UNCHANGED <<device, observations, decisions, creating, blocked>>

-----------------------------------------------------------------------------
Init ==
  /\ device = [u \in User |-> IF u \in Newcomer THEN None ELSE DeviceOf[u]]
  /\ observations = {} /\ blocked = {}
  /\ decisions = [u \in User |-> <<>>]
  /\ loop = [u \in User |-> 0]
  /\ creating = [u \in User |-> [key \in JobKey |-> None]]

Next ==
  \E u \in User :
    \/ \E key \in JobKey :
         \/ \E n \in Network : BeginAssessment(u, key, n)
         \/ ReadCount(u, key) \/ RefuseBlocked(u, key) \/ CommitCreation(u, key)
         \/ CreationFails(u, key)
    \/ RegisterDevice(u) \/ SettledInLoop(u)

Spec == Init /\ [][Next]_vars

-----------------------------------------------------------------------------
(***************************************************************************)
(* As long as nothing is forgotten a user's risk only grows: a job whose   *)
(* assessment began when an earlier one from the same network had been     *)
(* committed is never weighed higher than that one, whatever others commit *)
(* between the queries of either.  Two creations of a user that overlap    *)
(* may be committed in the other order of their weights.                   *)
(***************************************************************************)
WeightsOnlyFall ==
  \A u \in User : \A i, j \in DOMAIN decisions[u] :
    (i <= decisions[u][j].known /\ decisions[u][i].signal = decisions[u][j].signal)
      => decisions[u][j].weight <= decisions[u][i].weight

(***************************************************************************)
(* "Server-authoritative decision=block decisions in the window"           *)
(* (docs/API.md): the report counts a decision for every user that was     *)
(* blocked.                                                                *)
(***************************************************************************)
BlocksCounted ==
  \A u \in blocked : \E i \in DOMAIN decisions[u] : decisions[u][i].weight = 0
=============================================================================
