---------------------------- MODULE Access_proofs ----------------------------
(***************************************************************************)
(* Theorems about attestation, regulated routes, sessions and the          *)
(* assessment of abuse, for every number of attempts, handlers, routes,    *)
(* transactions, tasks, commands and users.                                *)
(*                                                                         *)
(* Each part has an inductive invariant of its own; a part that does not   *)
(* run stays as it is, so the invariants hold whichever part is in focus.  *)
(***************************************************************************)
EXTENDS MCAccess, Sequences, FiniteSetTheorems, TLAPS

\* A step of the whole is a step of each part or leaves it alone.
LEMMA PartSteps ==
  ASSUME [Next]_vars
  PROVE  /\ [Sessions!Next]_sessions /\ [Hardware!Next]_hardware
         /\ [Routes!Next]_routes /\ [Assessments!Next]_assessments
  BY DEF Next, vars

-----------------------------------------------------------------------------
(***************************************************************************)
(* Attestation.  A submission holds its challenge's row from the moment it *)
(* found it pending, so nobody else judges it, expires it or unpublishes   *)
(* the instance under the verifier.                                        *)
(***************************************************************************)
SubmissionPc ==
  {"idle", "begun", "locked", "verifying", "accepted", "refused", "reported", "failed"}
Held == {"locked", "verifying", "accepted", "refused"}

HardwareType ==
  /\ Hardware!TypeOK
  /\ challenge_over \in [Attempt -> BOOLEAN]
  /\ verdicts \in [Attempt -> Nat]
  /\ submission \in [Handler -> [of : Attempt \cup {NoAttempt}, pc : SubmissionPc,
                                 fresh : BOOLEAN]]

\* What a submission relies on while it waits and while it works.
SubmissionsSound ==
  /\ \A h \in Handler :
       /\ submission[h].pc # "idle" => submission[h].of \in Attempt
       /\ submission[h].pc \in Held => challenge[submission[h].of] = "pending"
       /\ submission[h].pc = "reported" => challenge[submission[h].of] = "verified"
       /\ submission[h].pc \in {"verifying", "accepted"} => instance_up
  /\ \A g, h \in Handler :
       submission[g].pc \in Held /\ submission[h].pc \in Held
         /\ submission[g].of = submission[h].of => g = h

\* A challenge is asked for once, and judged once.
ChallengesSound ==
  \A a \in Attempt :
    /\ attest[a] \in {"idle", "prepared"} =>
         challenge[a] = "none" /\ \A h \in Handler : submission[h].of # a
    /\ challenge[a] \in {"none", "pending"} => verdicts[a] = 0
    /\ verdicts[a] <= 1

KeySound == key_record.verified =>
  key_record.attempt \in Attempt /\ challenge[key_record.attempt] = "verified"

HardwareInv == HardwareType /\ SubmissionsSound /\ ChallengesSound /\ KeySound

\* Every step keeps the types.
LEMMA HardwareTypeNext ==
  HardwareInv /\ [Hardware!Next]_hardware => HardwareType'
<1> SUFFICES ASSUME HardwareType, SubmissionsSound, [Hardware!Next]_hardware PROVE HardwareType'
  BY DEF HardwareInv
<1> USE DEF HardwareType, Hardware!TypeOK, SubmissionPc, Hardware!rows, Hardware!node_row, Hardware!Moves
<1>1. ASSUME Hardware!Unpublish \/ Hardware!TrustOver \/ Hardware!RegisterNode
      PROVE  HardwareType'
  BY <1>1 DEF Hardware!Unpublish, Hardware!TrustOver, Hardware!RegisterNode
<1>2. ASSUME NEW a \in Attempt, Hardware!PrepareKey(a) PROVE HardwareType'
  BY <1>2 DEF Hardware!PrepareKey
<1>3. ASSUME NEW a \in Attempt, Hardware!RequestChallenge(a) PROVE HardwareType'
  BY <1>3 DEF Hardware!RequestChallenge
<1>4. ASSUME NEW a \in Attempt, Hardware!ChallengeOver(a) PROVE HardwareType'
  BY <1>4 DEF Hardware!ChallengeOver
<1>5. ASSUME NEW a \in Attempt, Hardware!StorePendingKey(a) PROVE HardwareType'
  BY <1>5 DEF Hardware!StorePendingKey
<1>6. ASSUME NEW a \in Attempt, Hardware!EvidenceFails(a) PROVE HardwareType'
  BY <1>6 DEF Hardware!EvidenceFails, Hardware!NoKeyRecord
<1>7. ASSUME NEW a \in Attempt, NEW h \in Handler, Hardware!Submit(a, h) PROVE HardwareType'
  BY <1>7 DEF Hardware!Submit
<1>8. ASSUME NEW a \in Attempt, NEW h \in Handler, Hardware!Answer(a, h) PROVE HardwareType'
  <2>1. key_record' \in [attempt : Attempt \cup {NoAttempt}, verified : BOOLEAN]
    <3>1. \/ key_record' = key_record
          \/ key_record' = [attempt |-> a, verified |-> TRUE]
          \/ key_record' = [attempt |-> NoAttempt, verified |-> FALSE]
      BY <1>8 DEF Hardware!Answer, Hardware!NoKeyRecord
    <3>2. CASE key_record' = [attempt |-> a, verified |-> TRUE]
      BY <3>2
    <3>3. CASE key_record' = [attempt |-> NoAttempt, verified |-> FALSE]
      BY <3>3
    <3>4. QED
      BY <3>1, <3>2, <3>3
  <2>2. QED
    BY <1>8, <2>1 DEF Hardware!Answer, Hardware!Unused
<1>9. ASSUME NEW h \in Handler, \/ Hardware!LockChallenge(h) \/ Hardware!ShareResources(h)
                                \/ Hardware!Verify(h) \/ Hardware!Aborted(h)
      PROVE  HardwareType'
  BY <1>9 DEF Hardware!LockChallenge, Hardware!ShareResources, Hardware!Verify, Hardware!Aborted
<1>10. ASSUME NEW h \in Handler, Hardware!CommitRefusal(h) PROVE HardwareType'
  BY <1>10 DEF Hardware!CommitRefusal, SubmissionsSound
<1>11. ASSUME NEW h \in Handler, Hardware!CommitReport(h) PROVE HardwareType'
  <2>1. submission[h].of \in Attempt
    BY <1>11 DEF Hardware!CommitReport, SubmissionsSound
  <2>2. /\ challenge' \in [Attempt -> {"none", "pending", "verified", "rejected", "expired"}]
        /\ node_report' \in Attempt \cup {NoAttempt}
        /\ attest' = attest /\ key_record' = key_record /\ challenge_over' = challenge_over
    BY <1>11, <2>1 DEF Hardware!CommitReport
  <2>3. {instance_up', trust_over'} \subseteq BOOLEAN
    BY <1>11 DEF Hardware!CommitReport
  <2>4. verdicts' \in [Attempt -> Nat]
    BY <1>11, <2>1 DEF Hardware!CommitReport
  <2>5. submission' \in [Handler -> [of : Attempt \cup {NoAttempt}, pc : SubmissionPc,
                                     fresh : BOOLEAN]]
    BY <1>11, <2>1 DEF Hardware!CommitReport
  <2>6. QED
    BY <2>2, <2>3, <2>4, <2>5
<1>12. CASE UNCHANGED hardware
  BY <1>12 DEF hardware
<1>13. QED
  BY <1>1, <1>2, <1>3, <1>4, <1>5, <1>6, <1>7, <1>8, <1>9, <1>10, <1>11, <1>12
     DEF Hardware!Next

\* What submissions rely on survives every step, their own and the others'.
LEMMA SubmissionsNext ==
  HardwareInv /\ [Hardware!Next]_hardware => SubmissionsSound'
<1> SUFFICES ASSUME HardwareInv, [Hardware!Next]_hardware PROVE SubmissionsSound'
  OBVIOUS
<1> USE DEF HardwareInv, HardwareType, Hardware!TypeOK, SubmissionPc, Held, Hardware!rows,
            Hardware!node_row, Hardware!Moves, SubmissionsSound
<1>1. ASSUME Hardware!Unpublish PROVE SubmissionsSound'
  BY <1>1 DEF Hardware!Unpublish, Hardware!Sharing
<1>2. ASSUME Hardware!TrustOver \/ Hardware!RegisterNode PROVE SubmissionsSound'
  BY <1>2 DEF Hardware!TrustOver, Hardware!RegisterNode
<1>3. ASSUME NEW a \in Attempt, \/ Hardware!PrepareKey(a) \/ Hardware!ChallengeOver(a)
                                \/ Hardware!StorePendingKey(a) \/ Hardware!EvidenceFails(a)
      PROVE  SubmissionsSound'
  BY <1>3 DEF Hardware!PrepareKey, Hardware!ChallengeOver, Hardware!StorePendingKey,
     Hardware!EvidenceFails
<1>4. ASSUME NEW a \in Attempt, Hardware!RequestChallenge(a) PROVE SubmissionsSound'
  BY <1>4 DEF Hardware!RequestChallenge, Hardware!Holding, ChallengesSound
<1>5. ASSUME NEW a \in Attempt, NEW h \in Handler, Hardware!Submit(a, h)
      PROVE  SubmissionsSound'
  BY <1>5 DEF Hardware!Submit, Hardware!Unused
<1>6. ASSUME NEW a \in Attempt, NEW h \in Handler, Hardware!Answer(a, h)
      PROVE  SubmissionsSound'
  BY <1>6 DEF Hardware!Answer, Hardware!Unused
<1>7. ASSUME NEW h \in Handler, Hardware!LockChallenge(h) PROVE SubmissionsSound'
  BY <1>7 DEF Hardware!LockChallenge, Hardware!Holding
<1>8. ASSUME NEW h \in Handler, Hardware!ShareResources(h) PROVE SubmissionsSound'
  BY <1>8 DEF Hardware!ShareResources
<1>9. ASSUME NEW h \in Handler, Hardware!Verify(h) PROVE SubmissionsSound'
  BY <1>9 DEF Hardware!Verify
<1>10. ASSUME NEW h \in Handler, Hardware!CommitRefusal(h) PROVE SubmissionsSound'
  BY <1>10 DEF Hardware!CommitRefusal
<1>11. ASSUME NEW h \in Handler, Hardware!CommitReport(h) PROVE SubmissionsSound'
  BY <1>11 DEF Hardware!CommitReport
<1>12. ASSUME NEW h \in Handler, Hardware!Aborted(h) PROVE SubmissionsSound'
  BY <1>12 DEF Hardware!Aborted
<1>13. CASE UNCHANGED hardware
  BY <1>13 DEF hardware
<1>14. QED
  BY <1>1, <1>2, <1>3, <1>4, <1>5, <1>6, <1>7, <1>8, <1>9, <1>10, <1>11, <1>12, <1>13
     DEF Hardware!Next

\* No challenge is reopened or judged a second time.
LEMMA ChallengesNext ==
  HardwareInv /\ [Hardware!Next]_hardware => ChallengesSound' /\ KeySound'
<1> SUFFICES ASSUME HardwareInv, [Hardware!Next]_hardware PROVE ChallengesSound' /\ KeySound'
  OBVIOUS
<1> USE AttestationAssumption
    DEF HardwareInv, HardwareType, Hardware!TypeOK, SubmissionPc, Held, Hardware!rows,
        Hardware!node_row, Hardware!Moves, SubmissionsSound, ChallengesSound, KeySound
<1>1. ASSUME Hardware!Unpublish \/ Hardware!TrustOver \/ Hardware!RegisterNode
      PROVE  ChallengesSound' /\ KeySound'
  BY <1>1 DEF Hardware!Unpublish, Hardware!TrustOver, Hardware!RegisterNode
<1>2. ASSUME NEW a \in Attempt, Hardware!PrepareKey(a) \/ Hardware!ChallengeOver(a)
      PROVE  ChallengesSound' /\ KeySound'
  BY <1>2 DEF Hardware!PrepareKey, Hardware!ChallengeOver
<1>3. ASSUME NEW a \in Attempt, Hardware!StorePendingKey(a) \/ Hardware!EvidenceFails(a)
      PROVE  ChallengesSound' /\ KeySound'
  BY <1>3 DEF Hardware!StorePendingKey, Hardware!EvidenceFails, Hardware!NoKeyRecord
<1>4. ASSUME NEW a \in Attempt, Hardware!RequestChallenge(a)
      PROVE  ChallengesSound' /\ KeySound'
  BY <1>4 DEF Hardware!RequestChallenge
<1>5. ASSUME NEW a \in Attempt, NEW h \in Handler, Hardware!Submit(a, h)
      PROVE  ChallengesSound' /\ KeySound'
  BY <1>5 DEF Hardware!Submit
<1>6. ASSUME NEW a \in Attempt, NEW h \in Handler, Hardware!Answer(a, h)
      PROVE  ChallengesSound' /\ KeySound'
  BY <1>6 DEF Hardware!Answer, Hardware!Unused, Hardware!NoKeyRecord
<1>7. ASSUME NEW h \in Handler, \/ Hardware!LockChallenge(h) \/ Hardware!ShareResources(h)
                                \/ Hardware!Verify(h) \/ Hardware!Aborted(h)
      PROVE  ChallengesSound' /\ KeySound'
  BY <1>7 DEF Hardware!LockChallenge, Hardware!ShareResources, Hardware!Verify, Hardware!Aborted
<1>8. ASSUME NEW h \in Handler, Hardware!CommitRefusal(h)
      PROVE  ChallengesSound' /\ KeySound'
  BY <1>8 DEF Hardware!CommitRefusal
<1>9. ASSUME NEW h \in Handler, Hardware!CommitReport(h)
      PROVE  ChallengesSound' /\ KeySound'
  BY <1>9 DEF Hardware!CommitReport
<1>10. CASE UNCHANGED hardware
  BY <1>10 DEF hardware
<1>11. QED
  BY <1>1, <1>2, <1>3, <1>4, <1>5, <1>6, <1>7, <1>8, <1>9, <1>10 DEF Hardware!Next

\* Before the first attempt nothing is held or judged.
LEMMA HardwareInit == Hardware!Init => HardwareInv
<1> SUFFICES ASSUME Hardware!Init PROVE HardwareInv
  OBVIOUS
<1> USE DEF Hardware!Init, Hardware!Unused, Hardware!NoKeyRecord
<1>1. HardwareType
  BY DEF HardwareType, Hardware!TypeOK, SubmissionPc
<1>2. SubmissionsSound /\ KeySound
  BY DEF SubmissionsSound, KeySound, Held
<1>3. ChallengesSound
  BY AttestationAssumption DEF ChallengesSound
<1>4. QED
  BY <1>1, <1>2, <1>3 DEF HardwareInv

\* The invariant of attestation holds in every state.
LEMMA HardwareAlways == Spec => []HardwareInv
<1>1. Init => HardwareInv
  BY HardwareInit DEF Init
<1>2. HardwareInv /\ [Next]_vars => HardwareInv'
  BY PartSteps, HardwareTypeNext, SubmissionsNext, ChallengesNext DEF HardwareInv
<1>3. QED
  BY <1>1, <1>2, PTL DEF Spec

\* However many submissions of one challenge race, time out or are rolled back,
\* it is judged once, and a key the vault calls verified is the key of a report
\* the coordinator verified.
THEOREM AttestationAlwaysSound == Spec => []AttestationSound
<1>1. HardwareInv => AttestationSound
  BY AttestationAssumption
     DEF HardwareInv, HardwareType, ChallengesSound, KeySound, AttestationSound,
         Hardware!OneVerdict, Hardware!VerifiedKeyReported
<1>2. QED
  BY <1>1, HardwareAlways, PTL
-----------------------------------------------------------------------------
(***************************************************************************)
(* Prepared routes.  A transaction keeps what it has checked because of    *)
(* the locks it holds: its key's, from its first statement, and the node's *)
(* and the canary's, from the statements that took them.                   *)
(***************************************************************************)
TxPc == {"idle", "begun", "counting", "waiting", "locked", "cleared"}
Checked == {"counting", "waiting", "locked", "cleared"}
TxRecord == [kind : {"none", "prepare", "create"}, key : Route \cup {Free},
             route : Route \cup {Free}, pc : TxPc, report : Nat, seen : Nat]

RoutesType ==
  /\ Routes!TypeOK
  /\ route_over \in [Route -> BOOLEAN]
  /\ route_report \in [Route -> Nat]
  /\ trusted \in BOOLEAN /\ quarantined \in BOOLEAN
  /\ key_lock \in [Routes!Domain -> [Route -> Tx \cup {Free}]]
  /\ route_lock \in [Route -> Tx \cup {Free}]
  /\ tx \in [Tx -> TxRecord]

\* The locks of a transaction, and what they protect.
LocksSound ==
  \A t \in Tx :
    /\ tx[t].pc # "idle" =>
         /\ tx[t].kind \in {"prepare", "create"} /\ tx[t].key \in Route /\ tx[t].route \in Route
         /\ key_lock[tx[t].kind][tx[t].key] = t
         /\ tx[t].kind = "prepare" => tx[t].route = tx[t].key
    /\ tx[t].pc \in {"locked", "cleared"} => node_lock = t
    /\ tx[t].pc = "cleared" => canary_lock = t /\ ~ quarantined

\* A preparation finds no route under its key, and a creation no job, until
\* they commit; the route of a creation exists, under the report it checked.
ChecksHold ==
  \A t \in Tx :
    /\ tx[t].pc \in Checked /\ tx[t].kind = "prepare" => route[tx[t].route] = "none"
    /\ tx[t].pc \in Checked /\ tx[t].kind = "create" =>
         job_route[tx[t].key] = Free /\ route[tx[t].route] # "none"
    /\ tx[t].pc \in {"locked", "cleared"} /\ tx[t].kind = "create" =>
         route_report[tx[t].route] = report

\* Jobs and the routes they used up.
JobsOfRoutes ==
  /\ \A k \in Route : job_route[k] # Free => route[job_route[k]] = "consumed"
  /\ \A k, l \in Route : job_route[k] # Free /\ job_route[k] = job_route[l] => k = l
  /\ \A r \in Route : route[r] = "consumed" => \E k \in Route : job_route[k] = r

RoutesInv == RoutesType /\ LocksSound /\ ChecksHold /\ JobsOfRoutes

\* The parts' Cardinality is the one of FiniteSets.
LEMMA RoutesCardinality == ASSUME NEW S PROVE Routes!Cardinality(S) = Cardinality(S)
  BY DEF Routes!Cardinality, Cardinality

\* Slots are counted in natural numbers.
LEMMA CountIsNat ==
  ASSUME other_work \in Nat, NEW S
  PROVE  Routes!ReservedCount(S) \in Nat
<1> DEFINE P == {r \in Route \ S : route[r] = "prepared" /\ ~ route_over[r]}
           J == {k \in Route : job_route[k] # Free}
<1>1. IsFiniteSet(P) /\ IsFiniteSet(J)
  BY RouteAssumption, FS_Subset
<1>2. Cardinality(P) \in Nat /\ Cardinality(J) \in Nat
  BY <1>1, FS_CardinalityType
<1>3. Routes!ReservedCount(S) = other_work + Cardinality(P) + Cardinality(J)
  BY RoutesCardinality, Zenon DEF Routes!ReservedCount
<1> HIDE DEF P, J
<1>4. QED
  BY <1>2, <1>3

\* What a transaction leaves of its locks and of itself.
LEMMA ReleasedType ==
  ASSUME RoutesType, NEW t \in Tx, Routes!Released(t)
  PROVE  /\ key_lock' \in [Routes!Domain -> [Route -> Tx \cup {Free}]]
         /\ route_lock' \in [Route -> Tx \cup {Free}]
         /\ {node_lock', canary_lock'} \subseteq Tx \cup {Free}
         /\ tx' \in [Tx -> TxRecord]
  BY DEF RoutesType, Routes!TypeOK, Routes!Released, Routes!Ready, TxPc, TxRecord

\* A transaction that goes on to its next statement is still one.
LEMMA TxGoes ==
  ASSUME tx \in [Tx -> TxRecord], NEW t \in Tx, NEW p \in TxPc, tx' = [tx EXCEPT ![t].pc = p]
  PROVE  tx' \in [Tx -> TxRecord]
  BY DEF TxRecord
LEMMA TxSelects ==
  ASSUME tx \in [Tx -> TxRecord], NEW t \in Tx, NEW p \in TxPc, NEW n \in Nat,
         tx' = [tx EXCEPT ![t].pc = p, ![t].report = n]
  PROVE  tx' \in [Tx -> TxRecord]
  BY DEF TxRecord
LEMMA TxCounts ==
  ASSUME tx \in [Tx -> TxRecord], NEW t \in Tx, NEW p \in TxPc, NEW n \in Nat,
         tx' = [tx EXCEPT ![t].pc = p, ![t].seen = n]
  PROVE  tx' \in [Tx -> TxRecord]
  BY DEF TxRecord

\* Every step keeps the types.
LEMMA RoutesTypeNext == RoutesInv /\ [Routes!Next]_routes => RoutesType'
<1> SUFFICES ASSUME RoutesInv, [Routes!Next]_routes PROVE RoutesType'
  OBVIOUS
<1> DEFINE LocksType ==
      /\ key_lock' \in [Routes!Domain -> [Route -> Tx \cup {Free}]]
      /\ route_lock' \in [Route -> Tx \cup {Free}]
      /\ {node_lock', canary_lock'} \subseteq Tx \cup {Free}
      /\ tx' \in [Tx -> TxRecord]
      /\ \A t \in Tx : tx'[t].kind \in {"none", "prepare", "create"}
<1>a. ASSUME NEW t \in Tx, Routes!Released(t) PROVE LocksType
  BY <1>a, ReleasedType DEF RoutesInv, TxRecord
<1> USE RouteAssumption
    DEF RoutesInv, RoutesType, Routes!TypeOK, TxPc, Routes!rows, Routes!node, Routes!locks,
        Routes!At, Routes!Goes, LocksSound
<1>0. ASSUME NEW t \in Tx, Routes!Released(t), UNCHANGED Routes!rows, UNCHANGED Routes!node
      PROVE  RoutesType'
  <2>1. LocksType
    BY <1>0, <1>a
  <2>2. QED
    BY <1>0, <2>1
<1>1. ASSUME NEW t \in Tx, NEW kind \in Routes!Domain, NEW k \in Route, NEW r \in Route,
             Routes!Begin(t, kind, k, r)
      PROVE  RoutesType'
  <2>1. PICK w : /\ w = [Routes!Ready EXCEPT !.kind = kind, !.key = k, !.route = r, !.pc = "begun"]
                 /\ tx' = [tx EXCEPT ![t] = w]
    BY <1>1 DEF Routes!Begin
  <2>2. w = [kind |-> kind, key |-> k, route |-> r, pc |-> "begun", report |-> 0, seen |-> 0]
    BY <2>1 DEF Routes!Ready
  <2>3. w \in TxRecord /\ w.kind \in {"none", "prepare", "create"}
    BY <2>2 DEF TxRecord, Routes!Domain
  <2>4. /\ tx' \in [Tx -> TxRecord]
        /\ \A x \in Tx : tx'[x].kind \in {"none", "prepare", "create"}
    <3>1. tx \in [Tx -> TxRecord] /\ \A x \in Tx : tx[x].kind \in {"none", "prepare", "create"}
      BY DEF TxRecord
    <3>2. \A x \in Tx : tx'[x] = IF x = t THEN w ELSE tx[x]
      BY <3>1, <2>1
    <3> QED
      BY <3>1, <3>2, <2>1, <2>3, Zenon
  <2> HIDE DEF TxRecord
  <2> QED
    BY <1>1, <2>4 DEF Routes!Begin
<1>2. ASSUME NEW t \in Tx, Routes!PrepareAgain(t) PROVE RoutesType'
  <2>1. LocksType
    BY <1>2, <1>a DEF Routes!PrepareAgain
  <2>2. route' \in [Route -> {"none", "prepared", "expired", "consumed"}]
    BY <1>2 DEF Routes!PrepareAgain
  <2>3. QED
    BY <1>2, <2>1, <2>2 DEF Routes!PrepareAgain
<1>3. ASSUME NEW t \in Tx, Routes!SelectCandidate(t) PROVE RoutesType'
  <2>1. \/ /\ tx' = [tx EXCEPT ![t].pc = "counting", ![t].report = report]
           /\ UNCHANGED Routes!locks
        \/ Routes!Released(t)
    BY <1>3 DEF Routes!SelectCandidate
  <2>2. UNCHANGED Routes!rows /\ UNCHANGED Routes!node
    BY <1>3 DEF Routes!SelectCandidate
  <2>3. CASE /\ tx' = [tx EXCEPT ![t].pc = "counting", ![t].report = report]
             /\ UNCHANGED Routes!locks
    <3>1. report \in Nat /\ "counting" \in TxPc /\ tx \in [Tx -> TxRecord]
      OBVIOUS
    <3>2. tx' \in [Tx -> TxRecord]
      BY <2>3, <3>1, TxSelects
    <3>3. QED
      BY <2>2, <2>3, <3>2
  <2>4. QED
    BY <1>0, <2>1, <2>2, <2>3
<1>4. ASSUME NEW t \in Tx, Routes!CreateAgain(t) \/ Routes!RollBack(t) PROVE RoutesType'
  BY <1>0, <1>4 DEF Routes!CreateAgain, Routes!RollBack
<1>5. ASSUME NEW t \in Tx, Routes!LockRoute(t) PROVE RoutesType'
  <2>1. \/ /\ Routes!Goes(t, "counting")
           /\ route_lock' = [route_lock EXCEPT ![tx[t].route] = t]
           /\ UNCHANGED <<key_lock, node_lock, canary_lock>>
        \/ Routes!Released(t)
    BY <1>5 DEF Routes!LockRoute
  <2>2. UNCHANGED Routes!rows /\ UNCHANGED Routes!node
    BY <1>5 DEF Routes!LockRoute
  <2>3. CASE /\ Routes!Goes(t, "counting")
             /\ route_lock' = [route_lock EXCEPT ![tx[t].route] = t]
             /\ UNCHANGED <<key_lock, node_lock, canary_lock>>
    <3>1. tx' \in [Tx -> TxRecord]
      BY <2>3, TxGoes
    <3>2. route_lock' \in [Route -> Tx \cup {Free}]
      BY <2>3
    <3>3. QED
      BY <2>2, <2>3, <3>1, <3>2
  <2>4. QED
    BY <1>0, <2>1, <2>2, <2>3
<1>6. ASSUME NEW t \in Tx, Routes!CountSlots(t) PROVE RoutesType'
  <2>1. PICK S : tx' = [tx EXCEPT ![t].pc = "waiting", ![t].seen = Routes!ReservedCount(S)]
    BY <1>6 DEF Routes!CountSlots
  <2>2. Routes!ReservedCount(S) \in Nat
    BY CountIsNat
  <2> DEFINE n == Routes!ReservedCount(S)
  <2> HIDE DEF n
  <2>3. tx' \in [Tx -> TxRecord]
    <3>1. n \in Nat /\ tx' = [tx EXCEPT ![t].pc = "waiting", ![t].seen = n]
      BY <2>1, <2>2 DEF n
    <3>2. QED
      BY <3>1, TxCounts
  <2>4. QED
    BY <1>6, <2>3 DEF Routes!CountSlots
<1>7. ASSUME NEW t \in Tx, Routes!LockNode(t) PROVE RoutesType'
  <2>1. \/ /\ Routes!Goes(t, "locked") /\ node_lock' = t
           /\ UNCHANGED <<key_lock, route_lock, canary_lock>>
        \/ Routes!Released(t)
    BY <1>7 DEF Routes!LockNode
  <2>2. UNCHANGED Routes!rows /\ UNCHANGED Routes!node
    BY <1>7 DEF Routes!LockNode
  <2>3. CASE /\ Routes!Goes(t, "locked") /\ node_lock' = t
             /\ UNCHANGED <<key_lock, route_lock, canary_lock>>
    <3>1. tx' \in [Tx -> TxRecord]
      BY <2>3, TxGoes
    <3>2. QED
      BY <2>2, <2>3, <3>1
  <2>4. QED
    BY <1>0, <2>1, <2>2, <2>3
<1>8. ASSUME NEW t \in Tx, Routes!LockCanary(t) PROVE RoutesType'
  <2>1. \/ /\ Routes!Goes(t, "cleared") /\ canary_lock' = t
           /\ UNCHANGED <<key_lock, route_lock, node_lock>>
        \/ Routes!Released(t)
    BY <1>8 DEF Routes!LockCanary
  <2>2. UNCHANGED Routes!rows /\ UNCHANGED Routes!node
    BY <1>8 DEF Routes!LockCanary
  <2>3. CASE /\ Routes!Goes(t, "cleared") /\ canary_lock' = t
             /\ UNCHANGED <<key_lock, route_lock, node_lock>>
    <3>1. tx' \in [Tx -> TxRecord]
      BY <2>3, TxGoes
    <3>2. QED
      BY <2>2, <2>3, <3>1
  <2>4. QED
    BY <1>0, <2>1, <2>2, <2>3
<1>9. ASSUME NEW t \in Tx, Routes!CommitPrepare(t) PROVE RoutesType'
  <2>1. LocksType
    BY <1>9, <1>a DEF Routes!CommitPrepare
  <2>2. tx[t].report \in Nat
    BY DEF TxRecord
  <2>3. /\ route' \in [Route -> {"none", "prepared", "expired", "consumed"}]
        /\ route_report' \in [Route -> Nat]
    BY <1>9, <2>2 DEF Routes!CommitPrepare
  <2>4. QED
    BY <1>9, <2>1, <2>3 DEF Routes!CommitPrepare
<1>10. ASSUME NEW t \in Tx, Routes!CommitCreate(t) PROVE RoutesType'
  <2>1. tx[t].route \in Route
    BY <1>10 DEF Routes!CommitCreate
  <2>2. route' \in [Route -> {"none", "prepared", "expired", "consumed"}]
    BY <1>10 DEF Routes!CommitCreate
  <2>3. job_route' \in [Route -> Route \cup {Free}]
    BY <1>10, <2>1 DEF Routes!CommitCreate
  <2>4. LocksType
    BY <1>10, <1>a DEF Routes!CommitCreate
  <2>5. QED
    BY <1>10, <2>2, <2>3, <2>4 DEF Routes!CommitCreate
<1>11. ASSUME NEW r \in Route, Routes!RouteExpires(r) PROVE RoutesType'
  BY <1>11 DEF Routes!RouteExpires
<1>12. ASSUME Routes!ClaimWork \/ Routes!EndWork PROVE RoutesType'
  BY <1>12 DEF Routes!ClaimWork, Routes!EndWork
<1>13. ASSUME Routes!AttestAgain PROVE RoutesType'
  BY <1>13 DEF Routes!AttestAgain
<1>14. ASSUME Routes!TrustEnds PROVE RoutesType'
  BY <1>14 DEF Routes!TrustEnds
<1>15. ASSUME Routes!Quarantine PROVE RoutesType'
  BY <1>15 DEF Routes!Quarantine
<1>16. CASE UNCHANGED routes
  BY <1>16 DEF routes
<1>17. QED
  BY <1>1, <1>2, <1>3, <1>4, <1>5, <1>6, <1>7, <1>8, <1>9, <1>10, <1>11, <1>12, <1>13, <1>16,
     <1>14, <1>15 DEF Routes!Next

\* Locks are kept until the transaction ends.
LEMMA LocksNext == RoutesInv /\ [Routes!Next]_routes => LocksSound'
<1> SUFFICES ASSUME RoutesInv, [Routes!Next]_routes PROVE LocksSound'
  OBVIOUS
<1> USE RouteAssumption
    DEF RoutesInv, RoutesType, Routes!TypeOK, TxPc, TxRecord, Routes!rows, Routes!node, Routes!locks,
        Routes!At, Routes!Goes, LocksSound, Routes!Domain
<1>0. ASSUME NEW t \in Tx, Routes!Released(t), quarantined' = quarantined PROVE LocksSound'
  BY <1>0 DEF Routes!Released, Routes!Ready
<1>1. ASSUME NEW t \in Tx, NEW kind \in Routes!Domain, NEW k \in Route, NEW r \in Route,
             Routes!Begin(t, kind, k, r)
      PROVE  LocksSound'
  BY <1>1 DEF Routes!Begin
<1>2. ASSUME NEW t \in Tx, \/ Routes!PrepareAgain(t) \/ Routes!CreateAgain(t) \/ Routes!RollBack(t)
                           \/ Routes!CommitPrepare(t) \/ Routes!CommitCreate(t)
      PROVE LocksSound'
  BY <1>0, <1>2 DEF Routes!PrepareAgain, Routes!CreateAgain, Routes!RollBack,
     Routes!CommitPrepare, Routes!CommitCreate
<1>3. ASSUME NEW t \in Tx, Routes!SelectCandidate(t) PROVE LocksSound'
  BY <1>0, <1>3 DEF Routes!SelectCandidate
<1>4. ASSUME NEW t \in Tx, Routes!LockRoute(t) PROVE LocksSound'
  <2>1. \/ /\ Routes!Goes(t, "counting") /\ UNCHANGED <<key_lock, node_lock, canary_lock>>
        \/ Routes!Released(t)
    BY <1>4 DEF Routes!LockRoute
  <2>2. Routes!At(t, "begun") /\ quarantined' = quarantined
    BY <1>4 DEF Routes!LockRoute
  <2>3. CASE Routes!Goes(t, "counting") /\ UNCHANGED <<key_lock, node_lock, canary_lock>>
    BY <2>2, <2>3
  <2>4. QED
    BY <1>0, <2>1, <2>2, <2>3
<1>5. ASSUME NEW t \in Tx, Routes!CountSlots(t) PROVE LocksSound'
  BY <1>5 DEF Routes!CountSlots
<1>6. ASSUME NEW t \in Tx, Routes!LockNode(t) PROVE LocksSound'
  BY <1>0, <1>6 DEF Routes!LockNode
<1>7. ASSUME NEW t \in Tx, Routes!LockCanary(t) PROVE LocksSound'
  BY <1>0, <1>7 DEF Routes!LockCanary
<1>8. ASSUME NEW r \in Route, Routes!RouteExpires(r) PROVE LocksSound'
  BY <1>8 DEF Routes!RouteExpires
<1>9. ASSUME Routes!ClaimWork \/ Routes!EndWork PROVE LocksSound'
  BY <1>9 DEF Routes!ClaimWork, Routes!EndWork
<1>10. ASSUME Routes!AttestAgain \/ Routes!TrustEnds PROVE LocksSound'
  BY <1>10 DEF Routes!AttestAgain, Routes!TrustEnds
<1>11. ASSUME Routes!Quarantine PROVE LocksSound'
  BY <1>11 DEF Routes!Quarantine
<1>12. CASE UNCHANGED routes
  BY <1>12 DEF routes
<1>13. QED
  BY <1>1, <1>2, <1>3, <1>11, <1>4, <1>5, <1>6, <1>7, <1>8, <1>9, <1>10, <1>12
     DEF Routes!Next

\* What a transaction has found stays so: others are kept out by its locks.
LEMMA ChecksNext == RoutesInv /\ [Routes!Next]_routes => ChecksHold'
<1> SUFFICES ASSUME RoutesInv, [Routes!Next]_routes PROVE ChecksHold'
  OBVIOUS
<1> USE RouteAssumption
    DEF RoutesInv, RoutesType, Routes!TypeOK, TxPc, TxRecord, Checked, Routes!rows, Routes!node,
        Routes!locks, Routes!At, Routes!Goes, LocksSound, ChecksHold, Routes!Domain
<1>0. ASSUME NEW t \in Tx, Routes!Released(t), UNCHANGED Routes!rows, UNCHANGED Routes!node
      PROVE  ChecksHold'
  BY <1>0 DEF Routes!Released, Routes!Ready
<1>1. ASSUME NEW t \in Tx, NEW kind \in Routes!Domain, NEW k \in Route, NEW r \in Route,
             Routes!Begin(t, kind, k, r)
      PROVE  ChecksHold'
  BY <1>1 DEF Routes!Begin
<1>2. ASSUME NEW t \in Tx, Routes!PrepareAgain(t) PROVE ChecksHold'
  BY <1>2 DEF Routes!PrepareAgain, Routes!Released, Routes!Ready
<1>3. ASSUME NEW t \in Tx, Routes!CreateAgain(t) \/ Routes!RollBack(t) PROVE ChecksHold'
  BY <1>0, <1>3 DEF Routes!CreateAgain, Routes!RollBack
<1>4. ASSUME NEW t \in Tx, Routes!SelectCandidate(t) PROVE ChecksHold'
  BY <1>0, <1>4 DEF Routes!SelectCandidate
<1>5. ASSUME NEW t \in Tx, Routes!LockRoute(t) PROVE ChecksHold'
  <2>1. \/ Routes!Goes(t, "counting") /\ route[tx[t].route] = "prepared"
        \/ Routes!Released(t)
    BY <1>5 DEF Routes!LockRoute
  <2>2. /\ tx[t].kind = "create" /\ job_route[tx[t].key] = Free
        /\ UNCHANGED Routes!rows /\ UNCHANGED Routes!node
    BY <1>5 DEF Routes!LockRoute
  <2>3. CASE Routes!Goes(t, "counting") /\ route[tx[t].route] = "prepared"
    BY <2>2, <2>3
  <2>4. QED
    BY <1>0, <2>1, <2>2, <2>3
<1>6. ASSUME NEW t \in Tx, Routes!CountSlots(t) PROVE ChecksHold'
  BY <1>6 DEF Routes!CountSlots
<1>7. ASSUME NEW t \in Tx, Routes!LockNode(t) PROVE ChecksHold'
  <2>1. \/ /\ tx[t].kind = "create" => route_report[tx[t].route] = report
           /\ Routes!Goes(t, "locked")
        \/ Routes!Released(t)
    BY <1>7 DEF Routes!LockNode
  <2>2. Routes!At(t, "waiting") /\ UNCHANGED Routes!rows /\ UNCHANGED Routes!node
    BY <1>7 DEF Routes!LockNode
  <2>3. CASE /\ tx[t].kind = "create" => route_report[tx[t].route] = report
             /\ Routes!Goes(t, "locked")
    BY <2>2, <2>3
  <2>4. QED
    BY <1>0, <2>1, <2>2, <2>3
<1>8. ASSUME NEW t \in Tx, Routes!LockCanary(t) PROVE ChecksHold'
  BY <1>0, <1>8 DEF Routes!LockCanary
<1>9. ASSUME NEW t \in Tx, Routes!CommitPrepare(t) PROVE ChecksHold'
  BY <1>9 DEF Routes!CommitPrepare, Routes!Released, Routes!Ready
<1>10. ASSUME NEW t \in Tx, Routes!CommitCreate(t) PROVE ChecksHold'
  BY <1>10 DEF Routes!CommitCreate, Routes!Released, Routes!Ready
<1>11. ASSUME NEW r \in Route, Routes!RouteExpires(r) PROVE ChecksHold'
  BY <1>11 DEF Routes!RouteExpires
<1>12. ASSUME Routes!ClaimWork \/ Routes!EndWork PROVE ChecksHold'
  BY <1>12 DEF Routes!ClaimWork, Routes!EndWork
<1>13. ASSUME Routes!AttestAgain \/ Routes!TrustEnds PROVE ChecksHold'
  BY <1>13 DEF Routes!AttestAgain, Routes!TrustEnds
<1>14. ASSUME Routes!Quarantine PROVE ChecksHold'
  BY <1>14 DEF Routes!Quarantine
<1>15. CASE UNCHANGED routes
  BY <1>15 DEF routes
<1>16. QED
  BY <1>1, <1>2, <1>3, <1>4, <1>5, <1>6, <1>7, <1>8, <1>9, <1>10, <1>11, <1>12, <1>13, <1>14,
     <1>15 DEF Routes!Next

\* No route is used up twice, and none without its job.
LEMMA JobsNext == RoutesInv /\ [Routes!Next]_routes => JobsOfRoutes'
<1> SUFFICES ASSUME RoutesInv, [Routes!Next]_routes PROVE JobsOfRoutes'
  OBVIOUS
<1> USE RouteAssumption
    DEF RoutesInv, RoutesType, Routes!TypeOK, Checked, Routes!rows, JobsOfRoutes
<1>1. ASSUME UNCHANGED <<route, job_route>> PROVE JobsOfRoutes'
  BY <1>1
<1>2. ASSUME NEW t \in Tx, Routes!PrepareAgain(t) PROVE JobsOfRoutes'
  BY <1>2 DEF Routes!PrepareAgain
<1>3. ASSUME NEW t \in Tx, Routes!CommitPrepare(t) PROVE JobsOfRoutes'
  <2>1. tx[t].route \in Route /\ route[tx[t].route] = "none"
    BY <1>3 DEF Routes!CommitPrepare, Routes!At, LocksSound, ChecksHold
  <2>2. QED
    BY <1>3, <2>1 DEF Routes!CommitPrepare
<1>4. ASSUME NEW t \in Tx, Routes!CommitCreate(t) PROVE JobsOfRoutes'
  <2>1. /\ tx[t].route \in Route /\ tx[t].key \in Route /\ job_route[tx[t].key] = Free
    BY <1>4 DEF Routes!CommitCreate, Routes!At, LocksSound, ChecksHold
  <2>2. CASE UNCHANGED <<route, job_route>>
    BY <2>2, <1>1
  <2>3. CASE /\ route[tx[t].route] = "prepared"
             /\ route' = [route EXCEPT ![tx[t].route] = "consumed"]
             /\ job_route' = [job_route EXCEPT ![tx[t].key] = tx[t].route]
    BY <2>1, <2>3
  <2>4. QED
    BY <1>4, <2>2, <2>3 DEF Routes!CommitCreate
<1>5. ASSUME NEW t \in Tx,
             \/ \E kind \in Routes!Domain, k \in Route, r \in Route : Routes!Begin(t, kind, k, r)
             \/ Routes!SelectCandidate(t) \/ Routes!CreateAgain(t) \/ Routes!LockRoute(t)
             \/ Routes!CountSlots(t) \/ Routes!LockNode(t) \/ Routes!LockCanary(t)
             \/ Routes!RollBack(t)
      PROVE  JobsOfRoutes'
  <2>1. UNCHANGED <<route, job_route>>
    BY <1>5 DEF Routes!Begin, Routes!SelectCandidate, Routes!CreateAgain, Routes!LockRoute,
       Routes!CountSlots, Routes!LockNode, Routes!LockCanary, Routes!RollBack
  <2>2. QED
    BY <1>1, <2>1
<1>6. ASSUME NEW r \in Route, Routes!RouteExpires(r) PROVE JobsOfRoutes'
  BY <1>1, <1>6 DEF Routes!RouteExpires
<1>7. ASSUME \/ Routes!ClaimWork \/ Routes!EndWork \/ Routes!AttestAgain \/ Routes!TrustEnds
             \/ Routes!Quarantine
      PROVE  JobsOfRoutes'
  <2>1. UNCHANGED <<route, job_route>>
    BY <1>7 DEF Routes!ClaimWork, Routes!EndWork, Routes!AttestAgain, Routes!TrustEnds,
       Routes!Quarantine
  <2>2. QED
    BY <1>1, <2>1
<1>8. CASE UNCHANGED routes
  BY <1>1, <1>8 DEF routes
<1>9. QED
  BY <1>2, <1>3, <1>4, <1>5, <1>6, <1>7, <1>8 DEF Routes!Next

\* Before the first transaction there is nothing to keep.
LEMMA RoutesInit == Routes!Init => RoutesInv
<1> SUFFICES ASSUME Routes!Init PROVE RoutesInv
  OBVIOUS
<1> USE RouteAssumption DEF Routes!Init, Routes!Ready
<1>1. RoutesType
  <2>1. tx \in [Tx -> TxRecord]
    BY DEF TxPc, TxRecord
  <2>2. Routes!TypeOK
    BY DEF Routes!TypeOK
  <2>3. QED
    BY <2>1, <2>2 DEF RoutesType
<1>2. LocksSound
  BY DEF LocksSound
<1>3. ChecksHold
  BY DEF ChecksHold, Checked
<1>4. JobsOfRoutes
  BY DEF JobsOfRoutes
<1>5. QED
  BY <1>1, <1>2, <1>3, <1>4 DEF RoutesInv

\* The invariant of the routes holds in every state.
LEMMA RoutesAlways == Spec => []RoutesInv
<1>1. Init => RoutesInv
  BY RoutesInit DEF Init
<1>2. RoutesInv /\ [Next]_vars => RoutesInv'
  BY PartSteps, RoutesTypeNext, LocksNext, ChecksNext, JobsNext DEF RoutesInv
<1>3. QED
  BY <1>1, <1>2, PTL DEF Spec

\* One key or none stands for a route, as it was used up or not.
LEMMA OneJob ==
  ASSUME RoutesInv
  PROVE  Routes!RouteUsedOnce
<1> SUFFICES ASSUME NEW r \in Route
             PROVE  Routes!Cardinality({k \in Route : job_route[k] = r})
                      = (IF route[r] = "consumed" THEN 1 ELSE 0)
  BY DEF Routes!RouteUsedOnce
<1> DEFINE J == {k \in Route : job_route[k] = r}
<1>1. r # Free
  BY RouteAssumption
<1>2. CASE route[r] = "consumed"
  <2>1. PICK k \in Route : job_route[k] = r
    BY <1>2 DEF RoutesInv, JobsOfRoutes
  <2>2. J = {k}
    BY <1>1, <2>1 DEF RoutesInv, JobsOfRoutes
  <2>3. Cardinality(J) = 1
    BY <2>2, FS_Singleton
  <2>4. QED
    BY <1>2, <2>3, RoutesCardinality
<1>3. CASE route[r] # "consumed"
  <2>1. J = {}
    BY <1>1, <1>3 DEF RoutesInv, JobsOfRoutes
  <2>2. Cardinality(J) = 0
    BY <2>1, FS_EmptySet
  <2>3. QED
    BY <1>3, <2>2, RoutesCardinality
<1>4. QED
  BY <1>2, <1>3

\* A prepared route becomes one job, and a job exists only for a route that was
\* used up, however many preparations and creations overlap and are retried.
THEOREM RouteAlwaysUsedOnce == Spec => []RouteUsedOnce
<1>1. RoutesInv => RouteUsedOnce
  BY OneJob DEF RouteUsedOnce, RoutesInv, RoutesType
<1>2. QED
  BY <1>1, RoutesAlways, PTL

\* A commit of a regulated job finds the report it was sealed for.
LEMMA CreationUnderReport ==
  ASSUME RoutesInv, [Routes!Next]_routes
  PROVE  \A k \in Route : (job_route'[k] # job_route[k]) => (route_report[job_route'[k]] = report)
<1> SUFFICES ASSUME NEW k \in Route, job_route'[k] # job_route[k]
             PROVE  route_report[job_route'[k]] = report
  OBVIOUS
<1>1. PICK t \in Tx : Routes!CommitCreate(t)
  BY DEF Routes!Next, Routes!Begin, Routes!PrepareAgain, Routes!SelectCandidate,
     Routes!CreateAgain, Routes!LockRoute, Routes!CountSlots, Routes!LockNode,
     Routes!LockCanary, Routes!CommitPrepare, Routes!RollBack, Routes!RouteExpires,
     Routes!ClaimWork, Routes!EndWork, Routes!AttestAgain, Routes!TrustEnds,
     Routes!Quarantine, Routes!rows, routes
<1>2. tx[t].key \in Route /\ route_report[tx[t].route] = report
  BY <1>1 DEF Routes!CommitCreate, Routes!At, RoutesInv, LocksSound, ChecksHold
<1>3. job_route'[k] = tx[t].route
  BY <1>1, <1>2 DEF Routes!CommitCreate, RoutesInv, RoutesType, Routes!TypeOK
<1>4. QED
  BY <1>2, <1>3

\* While an instance is quarantined nothing new is promised on it.
LEMMA QuarantineKeepsOut ==
  ASSUME RoutesInv, [Routes!Next]_routes, quarantined
  PROVE  /\ job_route' = job_route
         /\ \A r \in Route : (route'[r] = "prepared") => (route[r] = "prepared")
<1> DEFINE Kept == /\ job_route' = job_route
                   /\ \A r \in Route : (route'[r] = "prepared") => (route[r] = "prepared")
<1>1. ASSUME NEW t \in Tx, Routes!CommitPrepare(t) \/ Routes!CommitCreate(t) PROVE FALSE
  BY <1>1 DEF Routes!CommitPrepare, Routes!CommitCreate, Routes!At, RoutesInv, LocksSound
<1>2. ASSUME NEW t \in Tx, Routes!PrepareAgain(t) PROVE Kept
  BY <1>2 DEF Routes!PrepareAgain
<1>3. CASE UNCHANGED <<route, job_route>>
  BY <1>3
<1>4. \/ UNCHANGED <<route, job_route>>
      \/ \E t \in Tx : \/ Routes!CommitPrepare(t) \/ Routes!CommitCreate(t)
                       \/ Routes!PrepareAgain(t)
  BY DEF Routes!Next, Routes!Begin, Routes!SelectCandidate,
     Routes!CreateAgain, Routes!LockRoute, Routes!CountSlots, Routes!LockNode,
     Routes!LockCanary, Routes!RollBack, Routes!RouteExpires,
     Routes!ClaimWork, Routes!EndWork, Routes!AttestAgain, Routes!TrustEnds,
     Routes!Quarantine, Routes!rows, routes
<1>5. QED
  BY <1>1, <1>2, <1>3, <1>4

\* A report is committed only by a submission that shares its instance's row.
LEMMA TrustedPublished ==
  ASSUME HardwareInv, [Hardware!Next]_hardware, node_report' # node_report,
         node_report' # NoAttempt
  PROVE  instance_up
<1>1. PICK h \in Handler : Hardware!CommitReport(h)
  BY DEF Hardware!Next, Hardware!Unpublish, Hardware!TrustOver, Hardware!RegisterNode,
     Hardware!PrepareKey, Hardware!RequestChallenge, Hardware!ChallengeOver,
     Hardware!StorePendingKey, Hardware!EvidenceFails, Hardware!Submit, Hardware!Answer,
     Hardware!LockChallenge, Hardware!ShareResources, Hardware!Verify, Hardware!Aborted,
     Hardware!CommitRefusal, Hardware!rows, Hardware!node_row, hardware
<1>2. QED
  BY <1>1 DEF Hardware!CommitReport, HardwareInv, SubmissionsSound

\* A node becomes trusted only while its instance is published; a regulated job
\* is created under the report it was sealed for, and nothing is promised on an
\* instance that is quarantined when the transaction commits.
THEOREM PromisesAlwaysKept == Spec => PromisesKept
<1>1. HardwareInv /\ [Next]_vars =>
        [(node_report' # node_report /\ node_report' # NoAttempt) => instance_up]_(Hardware!vars)
  BY PartSteps, TrustedPublished
<1>2. RoutesInv /\ [Next]_vars =>
        [\A k \in Route : (job_route'[k] # job_route[k]) => (route_report[job_route'[k]] = report)
        ]_(Routes!vars)
  BY PartSteps, CreationUnderReport
<1>3. RoutesInv /\ [Next]_vars =>
        [quarantined =>
           /\ job_route' = job_route
           /\ \A r \in Route : (route'[r] = "prepared") => (route[r] = "prepared")]_(Routes!vars)
  BY PartSteps, QuarantineKeepsOut
<1>4. QED
  BY <1>1, <1>2, <1>3, HardwareAlways, RoutesAlways, PTL
     DEF Spec, PromisesKept, Hardware!TrustedWhilePublished, Routes!CreatedUnderReport,
         Routes!QuarantineHolds

-----------------------------------------------------------------------------
(***************************************************************************)
(* Sessions.  Whoever holds the session's present tokens took them from    *)
(* the vault, where they still are, or has just rotated them and is the    *)
(* only one to know; a login and a logout never overlap.                   *)
(***************************************************************************)
Rotated == {"rotated", "logout_rotated"}
ProcPc ==
  {"idle", "calling", "unauthorized", "again", "refreshing", "creating"}
    \cup Sessions!LoggingOut \cup Rotated

SessionsType ==
  /\ Sessions!TypeOK
  /\ issued \in Nat
  /\ api_key \in [state : {"none", "live", "revoked"}, session : Nat]
  /\ proc \in [Sessions!Proc -> [pc : ProcPc, token : Nat]]

\* Who knows the present tokens.
TokensSound ==
  /\ sid <= gen /\ vault_session <= gen
  /\ \A p \in Sessions!Proc :
       /\ proc[p].pc # "creating" => proc[p].token <= gen
       /\ proc[p].pc \in {"refreshing", "logout_refresh"} => proc[p].token # 0
       /\ proc[p].pc \in Rotated =>
            proc[p].token = gen /\ 0 < vault_session /\ vault_session < gen /\ ~ revoked
       /\ proc[p].pc \notin Rotated \cup {"creating"} /\ proc[p].token = gen /\ gen # 0
            /\ ~ revoked => vault_session = gen
  /\ \A p, q \in Sessions!Proc : proc[p].pc \in Rotated /\ proc[q].pc \in Rotated => p = q
  /\ vault_session # 0 /\ ~ lost =>
       vault_session = gen \/ \E p \in Sessions!Proc : proc[p].pc \in Rotated

\* A login finds an empty vault and fills it with the tokens of its flow.
LoginSound ==
  /\ issued <= 1
  /\ flow = "pending" => vault_session = 0 /\ issued = 0 /\ delivered = 0
  /\ delivered # 0 => delivered = gen /\ signing_in # "idle"
  /\ signing_in # "idle" => vault_session = 0
  /\ signing_in = "session" => delivered # 0 /\ vault_key
  /\ vault_session # 0 => vault_key

\* A logout empties the vault of a revoked session.
LogoutSound ==
  /\ logged_out => vault_session = 0
  /\ \A p \in Sessions!Proc :
       /\ proc[p].pc \in Sessions!LoggingOut => signing_in = "idle"
       /\ proc[p].pc = "clear_session" /\ vault_session # 0 => revoked
       /\ proc[p].pc = "clear_key" => vault_session = 0

\* A key that outlives the credentials of its session belongs to an older
\* session or to a revoked one.
KeysSound ==
  /\ api_key.session <= sid
  /\ vault_session = 0 /\ ~ revoked /\ api_key.state = "live" => api_key.session # sid
  /\ \A p \in Sessions!Proc : proc[p].pc = "creating" =>
       /\ proc[p].token <= sid
       /\ vault_session = 0 /\ ~ revoked => proc[p].token # sid

SessionsInv == SessionsType /\ TokensSound /\ LoginSound /\ LogoutSound /\ KeysSound

\* Every step keeps the types.
LEMMA SessionsTypeNext == SessionsInv /\ [Sessions!Next]_sessions => SessionsType'
<1> SUFFICES ASSUME SessionsInv, [Sessions!Next]_sessions PROVE SessionsType'
  OBVIOUS
<1> USE SessionAssumption
    DEF SessionsInv, SessionsType, Sessions!TypeOK, ProcPc, Rotated, Sessions!LoggingOut,
        Sessions!server, Sessions!vault, Sessions!client, Sessions!history, Sessions!NoToken,
        Sessions!Step, Sessions!Idle, TokensSound
<1>1. ASSUME Sessions!Register \/ Sessions!LinkExpires \/ Sessions!VerifyEmail
               \/ Sessions!ConfirmInBrowser \/ Sessions!AccessExpires
      PROVE  SessionsType'
  BY <1>1 DEF Sessions!Register, Sessions!LinkExpires, Sessions!VerifyEmail,
     Sessions!ConfirmInBrowser, Sessions!AccessExpires
<1>2. ASSUME Sessions!DeviceStart PROVE SessionsType'
  BY <1>2 DEF Sessions!DeviceStart
<1>3. ASSUME Sessions!StoreKey PROVE SessionsType'
  BY <1>3 DEF Sessions!StoreKey
<1>4. ASSUME Sessions!StoreSession PROVE SessionsType'
  <2>1. {gen', delivered', vault_session', sid'} \subseteq 0 .. MaxGen
    BY <1>4 DEF Sessions!StoreSession
  <2>2. vault_key' \in BOOLEAN /\ logged_out' \in BOOLEAN
    BY <1>4 DEF Sessions!StoreSession
  <2>3. QED
    BY <1>4, <2>1, <2>2 DEF Sessions!StoreSession
<1>5. ASSUME Sessions!LoginFails PROVE SessionsType'
  BY <1>5 DEF Sessions!LoginFails
<1>6. ASSUME Sessions!RevokeKey PROVE SessionsType'
  BY <1>6 DEF Sessions!RevokeKey, Sessions!Accepted
<1>7. ASSUME NEW p \in Poll, Sessions!PollReads(p) \/ Sessions!ProviderAuthorizes(p)
      PROVE  SessionsType'
  BY <1>7 DEF Sessions!PollReads, Sessions!ProviderAuthorizes
<1>8. ASSUME NEW p \in Poll, Sessions!ProviderRefuses(p) PROVE SessionsType'
  BY <1>8 DEF Sessions!ProviderRefuses
<1>9. ASSUME NEW p \in Poll, Sessions!IssueSession(p) PROVE SessionsType'
  <2>1. CASE UNCHANGED <<flow, issued, gen, access_over, revoked, sid, delivered>>
    BY <1>9, <2>1 DEF Sessions!IssueSession
  <2>2. CASE /\ gen < MaxGen /\ flow' = "authorized" /\ issued' = issued + 1
             /\ gen' = gen + 1 /\ access_over' = FALSE /\ revoked' = FALSE /\ sid' = sid + 1
             /\ delivered' = IF signing_in = "polling" THEN gen + 1 ELSE 0
    <3>1. {gen', delivered', vault_session', sid'} \subseteq 0 .. MaxGen
      BY <1>9, <2>2 DEF Sessions!IssueSession
    <3>2. {bound', access_over', revoked', vault_key', lost', logged_out'} \subseteq BOOLEAN
      BY <1>9, <2>2 DEF Sessions!IssueSession
    <3>3. QED
      BY <1>9, <2>2, <3>1, <3>2 DEF Sessions!IssueSession
  <2>3. QED
    BY <1>9, <2>1, <2>2 DEF Sessions!IssueSession
<1>10. ASSUME NEW p \in Sessions!Proc, Sessions!Call(p) PROVE SessionsType'
  BY <1>10 DEF Sessions!Call
<1>11. ASSUME NEW p \in Sessions!Proc, Sessions!Logout(p) PROVE SessionsType'
  BY <1>11 DEF Sessions!Logout
<1>12. ASSUME NEW p \in Sessions!Proc, Sessions!AuthenticateKey(p) PROVE SessionsType'
  BY <1>12 DEF Sessions!AuthenticateKey, Sessions!Accepted
<1>13. ASSUME NEW p \in Sessions!Proc, Sessions!CallAnswered(p) PROVE SessionsType'
  BY <1>13 DEF Sessions!CallAnswered
<1>14. ASSUME NEW p \in Sessions!Proc, Sessions!LoadForRefresh(p) PROVE SessionsType'
  BY <1>14 DEF Sessions!LoadForRefresh
<1>15. ASSUME NEW p \in Sessions!Proc, Sessions!Rotate(p) PROVE SessionsType'
  <2>1. CASE /\ gen < MaxGen /\ gen' = gen + 1 /\ access_over' = FALSE
             /\ Sessions!Step(p, IF proc[p].pc = "refreshing" THEN "rotated" ELSE "logout_rotated",
                              gen + 1)
             /\ UNCHANGED refresh_lock
    <3>1. proc' \in [Sessions!Proc -> [pc : ProcPc, token : Nat]]
      BY <2>1
    <3>2. {gen', delivered', vault_session', sid'} \subseteq 0 .. MaxGen
      BY <1>15, <2>1 DEF Sessions!Rotate
    <3>3. QED
      BY <1>15, <2>1, <3>1, <3>2 DEF Sessions!Rotate
  <2>2. CASE /\ Sessions!Step(p, "idle", 0) /\ Sessions!Unlock(p)
             /\ UNCHANGED <<gen, access_over>>
    BY <1>15, <2>2 DEF Sessions!Rotate, Sessions!Unlock
  <2>3. QED
    BY <1>15, <2>1, <2>2 DEF Sessions!Rotate
<1>16. ASSUME NEW p \in Sessions!Proc, Sessions!StoreRefreshed(p) PROVE SessionsType'
  BY <1>16 DEF Sessions!StoreRefreshed, Sessions!Unlock
<1>17. ASSUME NEW p \in Sessions!Proc, Sessions!AnswerLost(p) PROVE SessionsType'
  BY <1>17 DEF Sessions!AnswerLost, Sessions!Unlock
<1>18. ASSUME NEW p \in Sessions!Proc, Sessions!LogoutAnswered(p) PROVE SessionsType'
  <2>1. proc' \in [Sessions!Proc -> [pc : ProcPc, token : Nat]]
    BY <1>18 DEF Sessions!LogoutAnswered
  <2>2. revoked' \in BOOLEAN
    BY <1>18 DEF Sessions!LogoutAnswered
  <2>3. QED
    BY <1>18, <2>1, <2>2 DEF Sessions!LogoutAnswered
<1>19. ASSUME NEW p \in Sessions!Proc, Sessions!ClearSession(p) PROVE SessionsType'
  BY <1>19 DEF Sessions!ClearSession
<1>20. ASSUME NEW p \in Sessions!Proc, Sessions!ClearKey(p) PROVE SessionsType'
  BY <1>20 DEF Sessions!ClearKey
<1>21. ASSUME NEW p \in Sessions!Proc, Sessions!InsertKey(p) PROVE SessionsType'
  BY <1>21 DEF Sessions!InsertKey
<1>22. CASE UNCHANGED sessions
  BY <1>22 DEF sessions
<1>23. QED
  BY <1>1, <1>2, <1>3, <1>4, <1>5, <1>6, <1>7, <1>8, <1>9, <1>10, <1>11, <1>12, <1>13, <1>14, <1>15, <1>16, <1>17, <1>18, <1>19, <1>20, <1>21, <1>22
     DEF Sessions!Next, Sessions!Working

\* Nobody but the one who rotates learns the new tokens, and the vault keeps up.
LEMMA TokensNext == SessionsInv /\ [Sessions!Next]_sessions => TokensSound'
<1> SUFFICES ASSUME SessionsInv, [Sessions!Next]_sessions PROVE TokensSound'
  OBVIOUS
<1> USE SessionAssumption
    DEF SessionsInv, SessionsType, Sessions!TypeOK, ProcPc, Rotated, Sessions!LoggingOut,
        Sessions!server, Sessions!vault, Sessions!client, Sessions!history, Sessions!NoToken,
        Sessions!Step, Sessions!Idle,
        TokensSound, LoginSound, LogoutSound
<1>1. ASSUME UNCHANGED <<flow, issued, gen, revoked, sid, api_key, delivered, vault_session,
                         vault_key, refresh_lock, proc, signing_in, lost, logged_out>>
      PROVE  TokensSound'
  BY <1>1
<1>2. ASSUME Sessions!Register \/ Sessions!LinkExpires \/ Sessions!VerifyEmail
               \/ Sessions!ConfirmInBrowser \/ Sessions!AccessExpires
      PROVE  TokensSound'
  BY <1>1, <1>2 DEF Sessions!Register, Sessions!LinkExpires, Sessions!VerifyEmail,
     Sessions!ConfirmInBrowser, Sessions!AccessExpires
<1>3. ASSUME Sessions!DeviceStart PROVE TokensSound'
  BY <1>3 DEF Sessions!DeviceStart
<1>4. ASSUME Sessions!StoreKey PROVE TokensSound'
  BY <1>4 DEF Sessions!StoreKey
<1>5. ASSUME Sessions!StoreSession PROVE TokensSound'
  <2>1. /\ vault_session = 0 /\ delivered = gen /\ gen # 0
        /\ \A p \in Sessions!Proc : proc[p].pc \notin Rotated
    BY <1>5 DEF Sessions!StoreSession
  <2>2. vault_session' \in {vault_session, gen} /\ UNCHANGED <<gen, sid, revoked, proc, lost>>
    BY <1>5, <2>1 DEF Sessions!StoreSession
  <2>3. CASE vault_session' = gen
    BY <2>1, <2>2, <2>3
  <2>4. CASE vault_session' = vault_session
    BY <2>1, <2>2, <2>4
  <2>5. QED
    BY <2>2, <2>3, <2>4
<1>6. ASSUME Sessions!LoginFails PROVE TokensSound'
  BY <1>6 DEF Sessions!LoginFails
<1>7. ASSUME Sessions!RevokeKey PROVE TokensSound'
  BY <1>7 DEF Sessions!RevokeKey, Sessions!Accepted
<1>8. ASSUME NEW p \in Poll, Sessions!PollReads(p) \/ Sessions!ProviderAuthorizes(p)
      PROVE  TokensSound'
  BY <1>1, <1>8 DEF Sessions!PollReads, Sessions!ProviderAuthorizes
<1>9. ASSUME NEW p \in Poll, Sessions!ProviderRefuses(p) PROVE TokensSound'
  BY <1>9 DEF Sessions!ProviderRefuses
<1>10. ASSUME NEW p \in Poll, Sessions!IssueSession(p) PROVE TokensSound'
  BY <1>10 DEF Sessions!IssueSession
<1>11. ASSUME NEW p \in Sessions!Proc, Sessions!Call(p) PROVE TokensSound'
  BY <1>11 DEF Sessions!Call
<1>12. ASSUME NEW p \in Sessions!Proc, Sessions!Logout(p) PROVE TokensSound'
  BY <1>12 DEF Sessions!Logout
<1>13. ASSUME NEW p \in Sessions!Proc, Sessions!AuthenticateKey(p) PROVE TokensSound'
  BY <1>13 DEF Sessions!AuthenticateKey, Sessions!Accepted
<1>14. ASSUME NEW p \in Sessions!Proc, Sessions!CallAnswered(p) PROVE TokensSound'
  BY <1>14 DEF Sessions!CallAnswered
<1>15. ASSUME NEW p \in Sessions!Proc, Sessions!LoadForRefresh(p) PROVE TokensSound'
  BY <1>15 DEF Sessions!LoadForRefresh
<1>16. ASSUME NEW p \in Sessions!Proc, Sessions!Rotate(p) PROVE TokensSound'
  <2>1. CASE /\ proc[p].token = gen /\ ~ revoked /\ vault_key /\ gen < MaxGen
             /\ gen' = gen + 1
             /\ Sessions!Step(p, IF proc[p].pc = "refreshing" THEN "rotated" ELSE "logout_rotated",
                              gen + 1)
    <3>1. vault_session = gen /\ gen # 0
      BY <1>16, <2>1 DEF Sessions!Rotate
    <3>2. \A q \in Sessions!Proc : proc[q].pc \notin Rotated
      BY <3>1
    <3>3. UNCHANGED <<sid, vault_session, revoked, lost>>
      BY <1>16 DEF Sessions!Rotate
    <3>4. QED
      BY <2>1, <3>1, <3>2, <3>3
  <2>2. CASE Sessions!Step(p, "idle", 0) /\ UNCHANGED gen
    BY <1>16, <2>2 DEF Sessions!Rotate
  <2>3. QED
    BY <1>16, <2>1, <2>2 DEF Sessions!Rotate
<1>17. ASSUME NEW p \in Sessions!Proc, Sessions!StoreRefreshed(p) PROVE TokensSound'
  BY <1>17 DEF Sessions!StoreRefreshed, Sessions!Unlock
<1>18. ASSUME NEW p \in Sessions!Proc, Sessions!AnswerLost(p) PROVE TokensSound'
  BY <1>18 DEF Sessions!AnswerLost, Sessions!Unlock
<1>19. ASSUME NEW p \in Sessions!Proc, Sessions!LogoutAnswered(p) PROVE TokensSound'
  BY <1>19 DEF Sessions!LogoutAnswered
<1>20. ASSUME NEW p \in Sessions!Proc, Sessions!ClearSession(p) PROVE TokensSound'
  BY <1>20 DEF Sessions!ClearSession
<1>21. ASSUME NEW p \in Sessions!Proc, Sessions!ClearKey(p) PROVE TokensSound'
  BY <1>21 DEF Sessions!ClearKey
<1>22. ASSUME NEW p \in Sessions!Proc, Sessions!InsertKey(p) PROVE TokensSound'
  BY <1>22 DEF Sessions!InsertKey
<1>23. CASE UNCHANGED sessions
  BY <1>23 DEF sessions
<1>24. QED
  BY <1>2, <1>3, <1>4, <1>5, <1>6, <1>7, <1>8, <1>9, <1>10, <1>11, <1>12, <1>13, <1>14, <1>15, <1>16, <1>17, <1>18, <1>19, <1>20, <1>21, <1>22, <1>23
     DEF Sessions!Next, Sessions!Working

\* A login is not disturbed by what others store.
LEMMA LoginNext == SessionsInv /\ [Sessions!Next]_sessions => LoginSound'
<1> SUFFICES ASSUME SessionsInv, [Sessions!Next]_sessions PROVE LoginSound'
  OBVIOUS
<1> USE SessionAssumption
    DEF SessionsInv, SessionsType, Sessions!TypeOK, ProcPc, Rotated, Sessions!LoggingOut,
        Sessions!server, Sessions!vault, Sessions!client, Sessions!history, Sessions!NoToken,
        Sessions!Step, Sessions!Idle,
        TokensSound, LoginSound, LogoutSound
<1>1. ASSUME UNCHANGED <<flow, issued, gen, revoked, sid, api_key, delivered, vault_session,
                         vault_key, refresh_lock, proc, signing_in, lost, logged_out>>
      PROVE  LoginSound'
  BY <1>1
<1>2. ASSUME Sessions!Register \/ Sessions!LinkExpires \/ Sessions!VerifyEmail
               \/ Sessions!ConfirmInBrowser \/ Sessions!AccessExpires
      PROVE  LoginSound'
  BY <1>1, <1>2 DEF Sessions!Register, Sessions!LinkExpires, Sessions!VerifyEmail,
     Sessions!ConfirmInBrowser, Sessions!AccessExpires
<1>3. ASSUME Sessions!DeviceStart PROVE LoginSound'
  BY <1>3 DEF Sessions!DeviceStart
<1>4. ASSUME Sessions!StoreKey PROVE LoginSound'
  BY <1>4 DEF Sessions!StoreKey
<1>5. ASSUME Sessions!StoreSession PROVE LoginSound'
  BY <1>5 DEF Sessions!StoreSession
<1>6. ASSUME Sessions!LoginFails PROVE LoginSound'
  BY <1>6 DEF Sessions!LoginFails
<1>7. ASSUME Sessions!RevokeKey PROVE LoginSound'
  BY <1>7 DEF Sessions!RevokeKey, Sessions!Accepted
<1>8. ASSUME NEW p \in Poll, Sessions!PollReads(p) \/ Sessions!ProviderAuthorizes(p)
      PROVE  LoginSound'
  BY <1>1, <1>8 DEF Sessions!PollReads, Sessions!ProviderAuthorizes
<1>9. ASSUME NEW p \in Poll, Sessions!ProviderRefuses(p) PROVE LoginSound'
  BY <1>9 DEF Sessions!ProviderRefuses
<1>10. ASSUME NEW p \in Poll, Sessions!IssueSession(p) PROVE LoginSound'
  BY <1>10 DEF Sessions!IssueSession
<1>11. ASSUME NEW p \in Sessions!Proc, Sessions!Call(p) PROVE LoginSound'
  BY <1>11 DEF Sessions!Call
<1>12. ASSUME NEW p \in Sessions!Proc, Sessions!Logout(p) PROVE LoginSound'
  BY <1>12 DEF Sessions!Logout
<1>13. ASSUME NEW p \in Sessions!Proc, Sessions!AuthenticateKey(p) PROVE LoginSound'
  BY <1>13 DEF Sessions!AuthenticateKey, Sessions!Accepted
<1>14. ASSUME NEW p \in Sessions!Proc, Sessions!CallAnswered(p) PROVE LoginSound'
  BY <1>14 DEF Sessions!CallAnswered
<1>15. ASSUME NEW p \in Sessions!Proc, Sessions!LoadForRefresh(p) PROVE LoginSound'
  BY <1>15 DEF Sessions!LoadForRefresh
<1>16. ASSUME NEW p \in Sessions!Proc, Sessions!Rotate(p) PROVE LoginSound'
  BY <1>16 DEF Sessions!Rotate, Sessions!Unlock
<1>17. ASSUME NEW p \in Sessions!Proc, Sessions!StoreRefreshed(p) PROVE LoginSound'
  BY <1>17 DEF Sessions!StoreRefreshed, Sessions!Unlock
<1>18. ASSUME NEW p \in Sessions!Proc, Sessions!AnswerLost(p) PROVE LoginSound'
  BY <1>18 DEF Sessions!AnswerLost, Sessions!Unlock
<1>19. ASSUME NEW p \in Sessions!Proc, Sessions!LogoutAnswered(p) PROVE LoginSound'
  BY <1>19 DEF Sessions!LogoutAnswered
<1>20. ASSUME NEW p \in Sessions!Proc, Sessions!ClearSession(p) PROVE LoginSound'
  BY <1>20 DEF Sessions!ClearSession
<1>21. ASSUME NEW p \in Sessions!Proc, Sessions!ClearKey(p) PROVE LoginSound'
  BY <1>21 DEF Sessions!ClearKey
<1>22. ASSUME NEW p \in Sessions!Proc, Sessions!InsertKey(p) PROVE LoginSound'
  BY <1>22 DEF Sessions!InsertKey
<1>23. CASE UNCHANGED sessions
  BY <1>23 DEF sessions
<1>24. QED
  BY <1>2, <1>3, <1>4, <1>5, <1>6, <1>7, <1>8, <1>9, <1>10, <1>11, <1>12, <1>13, <1>14, <1>15, <1>16, <1>17, <1>18, <1>19, <1>20, <1>21, <1>22, <1>23
     DEF Sessions!Next, Sessions!Working

\* What a logout empties stays empty.
LEMMA LogoutNext == SessionsInv /\ [Sessions!Next]_sessions => LogoutSound'
<1> SUFFICES ASSUME SessionsInv, [Sessions!Next]_sessions PROVE LogoutSound'
  OBVIOUS
<1> USE SessionAssumption
    DEF SessionsInv, SessionsType, Sessions!TypeOK, ProcPc, Rotated, Sessions!LoggingOut,
        Sessions!server, Sessions!vault, Sessions!client, Sessions!history, Sessions!NoToken,
        Sessions!Step, Sessions!Idle,
        TokensSound, LoginSound, LogoutSound
<1>1. ASSUME UNCHANGED <<flow, issued, gen, revoked, sid, api_key, delivered, vault_session,
                         vault_key, refresh_lock, proc, signing_in, lost, logged_out>>
      PROVE  LogoutSound'
  BY <1>1
<1>2. ASSUME Sessions!Register \/ Sessions!LinkExpires \/ Sessions!VerifyEmail
               \/ Sessions!ConfirmInBrowser \/ Sessions!AccessExpires
      PROVE  LogoutSound'
  BY <1>1, <1>2 DEF Sessions!Register, Sessions!LinkExpires, Sessions!VerifyEmail,
     Sessions!ConfirmInBrowser, Sessions!AccessExpires
<1>3. ASSUME Sessions!DeviceStart PROVE LogoutSound'
  BY <1>3 DEF Sessions!DeviceStart
<1>4. ASSUME Sessions!StoreKey PROVE LogoutSound'
  BY <1>4 DEF Sessions!StoreKey
<1>5. ASSUME Sessions!StoreSession PROVE LogoutSound'
  BY <1>5 DEF Sessions!StoreSession
<1>6. ASSUME Sessions!LoginFails PROVE LogoutSound'
  BY <1>6 DEF Sessions!LoginFails
<1>7. ASSUME Sessions!RevokeKey PROVE LogoutSound'
  BY <1>7 DEF Sessions!RevokeKey, Sessions!Accepted
<1>8. ASSUME NEW p \in Poll, Sessions!PollReads(p) \/ Sessions!ProviderAuthorizes(p)
      PROVE  LogoutSound'
  BY <1>1, <1>8 DEF Sessions!PollReads, Sessions!ProviderAuthorizes
<1>9. ASSUME NEW p \in Poll, Sessions!ProviderRefuses(p) PROVE LogoutSound'
  BY <1>9 DEF Sessions!ProviderRefuses
<1>10. ASSUME NEW p \in Poll, Sessions!IssueSession(p) PROVE LogoutSound'
  BY <1>10 DEF Sessions!IssueSession
<1>11. ASSUME NEW p \in Sessions!Proc, Sessions!Call(p) PROVE LogoutSound'
  BY <1>11 DEF Sessions!Call
<1>12. ASSUME NEW p \in Sessions!Proc, Sessions!Logout(p) PROVE LogoutSound'
  BY <1>12 DEF Sessions!Logout
<1>13. ASSUME NEW p \in Sessions!Proc, Sessions!AuthenticateKey(p) PROVE LogoutSound'
  BY <1>13 DEF Sessions!AuthenticateKey, Sessions!Accepted
<1>14. ASSUME NEW p \in Sessions!Proc, Sessions!CallAnswered(p) PROVE LogoutSound'
  BY <1>14 DEF Sessions!CallAnswered
<1>15. ASSUME NEW p \in Sessions!Proc, Sessions!LoadForRefresh(p) PROVE LogoutSound'
  BY <1>15 DEF Sessions!LoadForRefresh
<1>16. ASSUME NEW p \in Sessions!Proc, Sessions!Rotate(p) PROVE LogoutSound'
  BY <1>16 DEF Sessions!Rotate, Sessions!Unlock
<1>17. ASSUME NEW p \in Sessions!Proc, Sessions!StoreRefreshed(p) PROVE LogoutSound'
  BY <1>17 DEF Sessions!StoreRefreshed, Sessions!Unlock
<1>18. ASSUME NEW p \in Sessions!Proc, Sessions!AnswerLost(p) PROVE LogoutSound'
  BY <1>18 DEF Sessions!AnswerLost, Sessions!Unlock
<1>19. ASSUME NEW p \in Sessions!Proc, Sessions!LogoutAnswered(p) PROVE LogoutSound'
  BY <1>19 DEF Sessions!LogoutAnswered
<1>20. ASSUME NEW p \in Sessions!Proc, Sessions!ClearSession(p) PROVE LogoutSound'
  BY <1>20 DEF Sessions!ClearSession
<1>21. ASSUME NEW p \in Sessions!Proc, Sessions!ClearKey(p) PROVE LogoutSound'
  BY <1>21 DEF Sessions!ClearKey
<1>22. ASSUME NEW p \in Sessions!Proc, Sessions!InsertKey(p) PROVE LogoutSound'
  BY <1>22 DEF Sessions!InsertKey
<1>23. CASE UNCHANGED sessions
  BY <1>23 DEF sessions
<1>24. QED
  BY <1>2, <1>3, <1>4, <1>5, <1>6, <1>7, <1>8, <1>9, <1>10, <1>11, <1>12, <1>13, <1>14, <1>15, <1>16, <1>17, <1>18, <1>19, <1>20, <1>21, <1>22, <1>23
     DEF Sessions!Next, Sessions!Working

\* No key is made for a session whose credentials are gone.
LEMMA KeysNext == SessionsInv /\ [Sessions!Next]_sessions => KeysSound'
<1> SUFFICES ASSUME SessionsInv, [Sessions!Next]_sessions PROVE KeysSound'
  OBVIOUS
<1> USE SessionAssumption
    DEF SessionsInv, SessionsType, Sessions!TypeOK, ProcPc, Rotated, Sessions!LoggingOut,
        Sessions!server, Sessions!vault, Sessions!client, Sessions!history, Sessions!NoToken,
        Sessions!Step, Sessions!Idle,
        TokensSound, LoginSound, LogoutSound, KeysSound
<1>1. ASSUME UNCHANGED <<flow, issued, gen, revoked, sid, api_key, delivered, vault_session,
                         vault_key, refresh_lock, proc, signing_in, lost, logged_out>>
      PROVE  KeysSound'
  BY <1>1
<1>2. ASSUME Sessions!Register \/ Sessions!LinkExpires \/ Sessions!VerifyEmail
               \/ Sessions!ConfirmInBrowser \/ Sessions!AccessExpires
      PROVE  KeysSound'
  BY <1>1, <1>2 DEF Sessions!Register, Sessions!LinkExpires, Sessions!VerifyEmail,
     Sessions!ConfirmInBrowser, Sessions!AccessExpires
<1>3. ASSUME Sessions!DeviceStart PROVE KeysSound'
  BY <1>3 DEF Sessions!DeviceStart
<1>4. ASSUME Sessions!StoreKey PROVE KeysSound'
  BY <1>4 DEF Sessions!StoreKey
<1>5. ASSUME Sessions!StoreSession PROVE KeysSound'
  BY <1>5 DEF Sessions!StoreSession
<1>6. ASSUME Sessions!LoginFails PROVE KeysSound'
  BY <1>6 DEF Sessions!LoginFails
<1>7. ASSUME Sessions!RevokeKey PROVE KeysSound'
  BY <1>7 DEF Sessions!RevokeKey, Sessions!Accepted
<1>8. ASSUME NEW p \in Poll, Sessions!PollReads(p) \/ Sessions!ProviderAuthorizes(p)
      PROVE  KeysSound'
  BY <1>1, <1>8 DEF Sessions!PollReads, Sessions!ProviderAuthorizes
<1>9. ASSUME NEW p \in Poll, Sessions!ProviderRefuses(p) PROVE KeysSound'
  BY <1>9 DEF Sessions!ProviderRefuses
<1>10. ASSUME NEW p \in Poll, Sessions!IssueSession(p) PROVE KeysSound'
  BY <1>10 DEF Sessions!IssueSession
<1>11. ASSUME NEW p \in Sessions!Proc, Sessions!Call(p) PROVE KeysSound'
  BY <1>11 DEF Sessions!Call
<1>12. ASSUME NEW p \in Sessions!Proc, Sessions!Logout(p) PROVE KeysSound'
  BY <1>12 DEF Sessions!Logout
<1>13. ASSUME NEW p \in Sessions!Proc, Sessions!AuthenticateKey(p) PROVE KeysSound'
  BY <1>13 DEF Sessions!AuthenticateKey, Sessions!Accepted
<1>14. ASSUME NEW p \in Sessions!Proc, Sessions!CallAnswered(p) PROVE KeysSound'
  BY <1>14 DEF Sessions!CallAnswered
<1>15. ASSUME NEW p \in Sessions!Proc, Sessions!LoadForRefresh(p) PROVE KeysSound'
  BY <1>15 DEF Sessions!LoadForRefresh
<1>16. ASSUME NEW p \in Sessions!Proc, Sessions!Rotate(p) PROVE KeysSound'
  BY <1>16 DEF Sessions!Rotate, Sessions!Unlock
<1>17. ASSUME NEW p \in Sessions!Proc, Sessions!StoreRefreshed(p) PROVE KeysSound'
  BY <1>17 DEF Sessions!StoreRefreshed, Sessions!Unlock
<1>18. ASSUME NEW p \in Sessions!Proc, Sessions!AnswerLost(p) PROVE KeysSound'
  BY <1>18 DEF Sessions!AnswerLost, Sessions!Unlock
<1>19. ASSUME NEW p \in Sessions!Proc, Sessions!LogoutAnswered(p) PROVE KeysSound'
  BY <1>19 DEF Sessions!LogoutAnswered
<1>20. ASSUME NEW p \in Sessions!Proc, Sessions!ClearSession(p) PROVE KeysSound'
  BY <1>20 DEF Sessions!ClearSession
<1>21. ASSUME NEW p \in Sessions!Proc, Sessions!ClearKey(p) PROVE KeysSound'
  BY <1>21 DEF Sessions!ClearKey
<1>22. ASSUME NEW p \in Sessions!Proc, Sessions!InsertKey(p) PROVE KeysSound'
  BY <1>22 DEF Sessions!InsertKey
<1>23. CASE UNCHANGED sessions
  BY <1>23 DEF sessions
<1>24. QED
  BY <1>2, <1>3, <1>4, <1>5, <1>6, <1>7, <1>8, <1>9, <1>10, <1>11, <1>12, <1>13, <1>14, <1>15, <1>16, <1>17, <1>18, <1>19, <1>20, <1>21, <1>22, <1>23
     DEF Sessions!Next, Sessions!Working

\* Nobody is signed in at first.
LEMMA SessionsInit == Sessions!Init => SessionsInv
<1> SUFFICES ASSUME Sessions!Init PROVE SessionsInv
  OBVIOUS
<1> USE SessionAssumption DEF Sessions!Init, Sessions!Idle, Sessions!NoToken
<1>1. SessionsType
  <2>1. Sessions!TypeOK
    <3>1. polling \in [Poll -> {"idle", "asked", "authorized"}]
      OBVIOUS
    <3>2. {gen, delivered, vault_session, sid} \subseteq 0 .. MaxGen
      OBVIOUS
    <3>3. {bound, access_over, revoked, vault_key, lost, logged_out} \subseteq BOOLEAN
      BY Zenon
    <3>4. QED
      BY <3>1, <3>2, <3>3 DEF Sessions!TypeOK
  <2>2. proc \in [Sessions!Proc -> [pc : ProcPc, token : Nat]]
    BY DEF ProcPc
  <2>3. api_key \in [state : {"none", "live", "revoked"}, session : Nat] /\ issued \in Nat
    OBVIOUS
  <2>4. QED
    BY <2>1, <2>2, <2>3 DEF SessionsType
<1>2. TokensSound
  BY DEF TokensSound, Rotated
<1>3. LoginSound /\ LogoutSound /\ KeysSound
  BY DEF LoginSound, LogoutSound, KeysSound, Sessions!LoggingOut
<1>4. QED
  BY <1>1, <1>2, <1>3 DEF SessionsInv

\* The invariant of the sessions holds in every state.
LEMMA SessionsAlways == Spec => []SessionsInv
<1>1. Init => SessionsInv
  BY SessionsInit DEF Init
<1>2. SessionsInv /\ [Next]_vars => SessionsInv'
  BY PartSteps, SessionsTypeNext, TokensNext, LoginNext, LogoutNext, KeysNext DEF SessionsInv
<1>3. QED
  BY <1>1, <1>2, PTL DEF Spec

\* However many tasks and commands race to refresh, and log in and out between
\* the steps of each other: the vault holds the session's present tokens beside
\* its device key, or somebody is about to store them; nothing of a session
\* survives its logout; one device flow issues one session.
THEOREM SessionsAlwaysSafe == Spec => []SessionsSafe
<1>1. SessionsInv => SessionsSafe
  <2> SUFFICES ASSUME SessionsInv PROVE SessionsSafe
    OBVIOUS
  <2> USE DEF SessionsInv, SessionsType, Sessions!TypeOK, Sessions!NoToken
  <2>1. Sessions!VaultCurrent
    <3> SUFFICES ASSUME NEW p \in Sessions!Proc, proc[p].pc \in Rotated
                 PROVE  proc[p] \in [pc : {"rotated", "logout_rotated"}, token : {gen}]
      BY DEF Sessions!VaultCurrent, TokensSound
    <3>1. proc[p] \in [pc : ProcPc, token : Nat]
      OBVIOUS
    <3>2. QED
      BY <3>1 DEF TokensSound, Rotated
  <2>2. Sessions!KeyWithSession /\ Sessions!OneSessionPerFlow
    BY DEF Sessions!KeyWithSession, Sessions!OneSessionPerFlow, LoginSound
  <2>3. Sessions!LoggedOutStaysOut
    BY DEF Sessions!LoggedOutStaysOut, Sessions!KeyUsable, LogoutSound, KeysSound
  <2>4. QED
    BY <2>1, <2>2, <2>3 DEF SessionsSafe
<1>2. QED
  BY <1>1, SessionsAlways, PTL

\* Stored tokens are never replaced by older ones, whoever stores last.
THEOREM VaultAlwaysForward == Spec => VaultForward
<1>1. SessionsInv /\ [Next]_vars =>
        [(vault_session' # Sessions!NoToken) => (vault_session' >= vault_session)]_(Sessions!vars)
  <2> SUFFICES ASSUME SessionsInv, [Next]_vars, vault_session' # 0
               PROVE  vault_session' >= vault_session
    BY DEF Sessions!NoToken
  <2> USE DEF SessionsInv, SessionsType, Sessions!TypeOK, Sessions!NoToken
  <2>1. CASE vault_session' = vault_session
    BY <2>1
  <2>2. CASE Sessions!StoreSession
    <3>1. vault_session = 0 /\ vault_session' \in {vault_session, delivered}
      BY <2>2 DEF Sessions!StoreSession, LoginSound
    <3>2. delivered \in Nat
      BY SessionAssumption
    <3>3. QED
      BY <3>1, <3>2
  <2>3. ASSUME NEW p \in Sessions!Proc, Sessions!StoreRefreshed(p)
        PROVE  vault_session' >= vault_session
    BY <2>3 DEF Sessions!StoreRefreshed, TokensSound, Rotated
  <2>4. ASSUME NEW p \in Sessions!Proc, Sessions!ClearSession(p) PROVE FALSE
    BY <2>4 DEF Sessions!ClearSession
  <2>5. \/ vault_session' = vault_session \/ Sessions!StoreSession
        \/ \E p \in Sessions!Proc : Sessions!StoreRefreshed(p) \/ Sessions!ClearSession(p)
    <3>1. [Sessions!Next]_sessions
      BY PartSteps
    <3> USE DEF Sessions!vault
    <3>2. ASSUME NEW p \in Sessions!Proc,
                 \/ Sessions!Call(p) \/ Sessions!Logout(p) \/ Sessions!AuthenticateKey(p)
                 \/ Sessions!CallAnswered(p) \/ Sessions!LoadForRefresh(p) \/ Sessions!Rotate(p)
                 \/ Sessions!AnswerLost(p) \/ Sessions!LogoutAnswered(p) \/ Sessions!ClearKey(p)
                 \/ Sessions!InsertKey(p)
          PROVE  vault_session' = vault_session
      BY <3>2 DEF Sessions!Call, Sessions!Logout, Sessions!AuthenticateKey,
         Sessions!CallAnswered, Sessions!LoadForRefresh, Sessions!Rotate, Sessions!AnswerLost,
         Sessions!LogoutAnswered, Sessions!ClearKey, Sessions!InsertKey
    <3>3. ASSUME NEW p \in Poll, \/ Sessions!PollReads(p) \/ Sessions!ProviderRefuses(p)
                                 \/ Sessions!ProviderAuthorizes(p) \/ Sessions!IssueSession(p)
          PROVE  vault_session' = vault_session
      BY <3>3 DEF Sessions!PollReads, Sessions!ProviderRefuses, Sessions!ProviderAuthorizes,
         Sessions!IssueSession
    <3>4. ASSUME \/ Sessions!Register \/ Sessions!LinkExpires \/ Sessions!VerifyEmail
                 \/ Sessions!ConfirmInBrowser \/ Sessions!DeviceStart \/ Sessions!StoreKey
                 \/ Sessions!LoginFails \/ Sessions!AccessExpires \/ Sessions!RevokeKey
          PROVE  vault_session' = vault_session
      BY <3>4 DEF Sessions!Register, Sessions!LinkExpires, Sessions!VerifyEmail,
         Sessions!ConfirmInBrowser, Sessions!DeviceStart, Sessions!StoreKey,
         Sessions!LoginFails, Sessions!AccessExpires, Sessions!RevokeKey
    <3>5. QED
      BY <3>1, <3>2, <3>3, <3>4 DEF Sessions!Next, Sessions!Working, sessions
  <2>6. QED
    BY <2>1, <2>2, <2>3, <2>4, <2>5
<1>2. QED
  BY <1>1, SessionsAlways, PTL DEF Spec, VaultForward, Sessions!VaultForward

-----------------------------------------------------------------------------
(***************************************************************************)
(* The assessment of abuse.  Every count grows with the rows that are      *)
(* committed.  What a creation has read, with what it would read now for   *)
(* the rest, is no lower than the counts at its beginning and no higher    *)
(* than the present ones: its weight is between those of the two moments.  *)
(***************************************************************************)
Between(n) == n \in 1 .. 99
TwoOf(x, y, z) ==
  (Between(x) /\ Between(y)) \/ (Between(x) /\ Between(z)) \/ (Between(y) /\ Between(z))

LEMMA RiskCardinality == ASSUME NEW S PROVE Assessments!Cardinality(S) = Cardinality(S)
  BY DEF Assessments!Cardinality, Cardinality

LEMMA PairCounts ==
  ASSUME NEW p, NEW q, p # q PROVE IsFiniteSet({p, q}) /\ Cardinality({p, q}) = 2
<1>1. IsFiniteSet({p}) /\ Cardinality({p}) = 1
  BY FS_Singleton
<1>2. IsFiniteSet({p} \cup {q}) /\ Cardinality({p} \cup {q}) = Cardinality({p}) + 1
  BY <1>1, FS_AddElement
<1>3. {p} \cup {q} = {p, q}
  OBVIOUS
<1> QED
  BY <1>1, <1>2, <1>3

\* Two of three risks are between nothing and certainty.
LEMMA TwoIndependent ==
  ASSUME NEW x \in 0 .. 100, NEW y \in 0 .. 100, NEW z \in 0 .. 100
  PROVE  Assessments!Cardinality({i \in 1 .. 3 : <<x, y, z>>[i] \in 1 .. 99}) >= 2
           <=> TwoOf(x, y, z)
<1> DEFINE S == {i \in 1 .. 3 : <<x, y, z>>[i] \in 1 .. 99}
<1>1. 1 .. 3 = {1, 2, 3}
  OBVIOUS
<1>2. (1 \in S <=> Between(x)) /\ (2 \in S <=> Between(y)) /\ (3 \in S <=> Between(z))
  BY DEF Between
<1>3. S \subseteq {1, 2, 3}
  BY <1>1
<1> HIDE DEF S
<1>a. Cardinality({}) = 0
  BY FS_EmptySet
<1>b. Cardinality({1}) = 1 /\ Cardinality({2}) = 1 /\ Cardinality({3}) = 1
  BY FS_Singleton
<1>c. Cardinality({1, 2}) = 2 /\ Cardinality({1, 3}) = 2 /\ Cardinality({2, 3}) = 2
  <2>1. 1 # 2 /\ 1 # 3 /\ 2 # 3
    OBVIOUS
  <2> QED
    BY <2>1, PairCounts, Zenon
<1>d. Cardinality({1, 2, 3}) = 3
  <2>1. IsFiniteSet({1, 2}) /\ Cardinality({1, 2}) = 2
    BY PairCounts
  <2>2. Cardinality({1, 2} \cup {3}) = Cardinality({1, 2}) + 1
    BY <2>1, FS_AddElement
  <2>3. {1, 2} \cup {3} = {1, 2, 3}
    OBVIOUS
  <2> QED
    BY <2>1, <2>2, <2>3
<1>4. S \in {{}, {1}, {2}, {3}, {1, 2}, {1, 3}, {2, 3}, {1, 2, 3}}
  BY <1>3
<1>5. Cardinality(S) >= 2 <=> (1 \in S /\ 2 \in S) \/ (1 \in S /\ 3 \in S) \/ (2 \in S /\ 3 \in S)
  <2>1. CASE S = {}
    BY <2>1, <1>a
  <2>2. CASE S = {1}
    BY <2>2, <1>b
  <2>3. CASE S = {2}
    BY <2>3, <1>b
  <2>4. CASE S = {3}
    BY <2>4, <1>b
  <2>5. CASE S = {1, 2}
    BY <2>5, <1>c
  <2>6. CASE S = {1, 3}
    BY <2>6, <1>c
  <2>7. CASE S = {2, 3}
    BY <2>7, <1>c
  <2>8. CASE S = {1, 2, 3}
    BY <2>8, <1>d
  <2> QED
    BY <1>4, <2>1, <2>2, <2>3, <2>4, <2>5, <2>6, <2>7, <2>8
<1>6. Assessments!Cardinality(S) >= 2 <=> TwoOf(x, y, z)
  BY <1>5, <1>2, RiskCardinality DEF TwoOf
<1> QED
  BY <1>6 DEF S

\* Counts of other accounts, and none where the network shows nothing.
Counted(n, m) == (n = None /\ m = None) \/ (n \in Nat /\ m \in Nat /\ n <= m)

LEMMA RisksGrow ==
  ASSUME NEW d1 \in Nat, NEW d2 \in Nat, d1 <= d2, NEW l1 \in Nat, NEW l2 \in Nat, l1 <= l2,
         NEW i1, NEW i2, Counted(i1, i2), NEW a1, NEW a2, Counted(a1, a2)
  PROVE  /\ Assessments!DeviceRisk(d1) \in {0, 35, 100}
         /\ Assessments!DeviceRisk(d2) \in {0, 35, 100}
         /\ Assessments!DeviceRisk(d1) <= Assessments!DeviceRisk(d2)
         /\ Assessments!DeviceRisk(d1) = 100 <=> d1 >= 3
         /\ Assessments!DeviceRisk(d2) = 100 <=> d2 >= 3
         /\ Assessments!IpRisk(i1) \in {0, 25, 40}
         /\ Assessments!IpRisk(i2) \in {0, 25, 40}
         /\ Assessments!IpRisk(i1) <= Assessments!IpRisk(i2)
         /\ Assessments!AsnRisk(a1) \in {0, 10, 20}
         /\ Assessments!AsnRisk(a2) \in {0, 10, 20}
         /\ Assessments!AsnRisk(a1) <= Assessments!AsnRisk(a2)
         /\ Assessments!LoopRisk(l1) \in {0, 35, 100}
         /\ Assessments!LoopRisk(l2) \in {0, 35, 100}
         /\ Assessments!LoopRisk(l1) <= Assessments!LoopRisk(l2)
         /\ Assessments!LoopRisk(l1) = 100 <=> l1 >= LoopBlock
         /\ Assessments!LoopRisk(l2) = 100 <=> l2 >= LoopBlock
<1> USE RiskAssumption
<1>1. {IpShared, IpLarge, AsnShared, AsnLarge, LoopEmerging, LoopBlock} \subseteq Int
  OBVIOUS
<1>2. /\ Assessments!DeviceRisk(d1) \in {0, 35, 100}
      /\ Assessments!DeviceRisk(d2) \in {0, 35, 100}
      /\ Assessments!DeviceRisk(d1) <= Assessments!DeviceRisk(d2)
      /\ Assessments!DeviceRisk(d1) = 100 <=> d1 >= 3
      /\ Assessments!DeviceRisk(d2) = 100 <=> d2 >= 3
  BY DEF Assessments!DeviceRisk
<1>3. /\ Assessments!IpRisk(i1) \in {0, 25, 40}
      /\ Assessments!IpRisk(i2) \in {0, 25, 40}
      /\ Assessments!IpRisk(i1) <= Assessments!IpRisk(i2)
  BY <1>1 DEF Assessments!IpRisk, Counted
<1>4. /\ Assessments!AsnRisk(a1) \in {0, 10, 20}
      /\ Assessments!AsnRisk(a2) \in {0, 10, 20}
      /\ Assessments!AsnRisk(a1) <= Assessments!AsnRisk(a2)
  BY <1>1 DEF Assessments!AsnRisk, Counted
<1>5. /\ Assessments!LoopRisk(l1) \in {0, 35, 100}
      /\ Assessments!LoopRisk(l2) \in {0, 35, 100}
      /\ Assessments!LoopRisk(l1) <= Assessments!LoopRisk(l2)
      /\ Assessments!LoopRisk(l1) = 100 <=> l1 >= LoopBlock
      /\ Assessments!LoopRisk(l2) = 100 <=> l2 >= LoopBlock
  BY <1>1 DEF Assessments!LoopRisk
<1> QED
  BY <1>2, <1>3, <1>4, <1>5

\* The decision in terms of the four risks.
Weighed(dr, ir, ar, lr, hard) ==
  IF hard \/ (TwoOf(dr, ir, lr) /\ dr + ir + ar + lr >= 70) THEN 0
  ELSE IF dr + ir + ar + lr >= 25 THEN 5 ELSE 10

LEMMA DecisionOfRisks ==
  ASSUME NEW d, NEW i, NEW a, NEW l,
         Assessments!DeviceRisk(d) \in 0 .. 100, Assessments!IpRisk(i) \in 0 .. 100,
         Assessments!AsnRisk(a) \in 0 .. 100, Assessments!LoopRisk(l) \in 0 .. 100
  PROVE  Assessments!DeterministicDecision(d, i, a, l) =
           Weighed(Assessments!DeviceRisk(d), Assessments!IpRisk(i), Assessments!AsnRisk(a),
                   Assessments!LoopRisk(l),
                   d >= 3 \/ (RequireNetwork /\ i = None) \/ l >= LoopBlock)
<1> DEFINE dr == Assessments!DeviceRisk(d)  ir == Assessments!IpRisk(i)
           ar == Assessments!AsnRisk(a)  lr == Assessments!LoopRisk(l)
           two == Assessments!Cardinality({k \in 1 .. 3 : <<dr, ir, lr>>[k] \in 1 .. 99}) >= 2
           hard == d >= 3 \/ (RequireNetwork /\ i = None) \/ l >= LoopBlock
<1>1. two <=> TwoOf(dr, ir, lr)
  BY TwoIndependent
<1>2. CASE RequireNetwork /\ i = None
  BY <1>2 DEF Assessments!DeterministicDecision, Weighed
<1>3. CASE ~(RequireNetwork /\ i = None)
  <2>1. Assessments!Sum(<<dr, ir, ar, lr>>) =
          IF dr + ir + ar + lr > 100 THEN 100 ELSE dr + ir + ar + lr
    BY DEF Assessments!Sum
  <2>2. Assessments!DeterministicDecision(d, i, a, l) =
          IF hard \/ (two /\ Assessments!Sum(<<dr, ir, ar, lr>>) >= 70) THEN 0
          ELSE IF Assessments!Sum(<<dr, ir, ar, lr>>) >= 25 THEN 5 ELSE 10
    BY <1>3 DEF Assessments!DeterministicDecision
  <2> HIDE DEF dr, ir, ar, lr, two, hard
  <2>3. dr \in 0 .. 100 /\ ir \in 0 .. 100 /\ ar \in 0 .. 100 /\ lr \in 0 .. 100
    BY DEF dr, ir, ar, lr
  <2>4. Assessments!DeterministicDecision(d, i, a, l) = Weighed(dr, ir, ar, lr, hard)
    BY <1>1, <2>1, <2>2, <2>3 DEF Weighed
  <2> QED
    BY <2>4 DEF dr, ir, ar, lr, hard
<1> QED
  BY <1>2, <1>3

\* More accounts on a device or a network, or a longer loop, never raise the weight.
LEMMA DecisionFalls ==
  ASSUME NEW d1 \in Nat, NEW d2 \in Nat, d1 <= d2, NEW l1 \in Nat, NEW l2 \in Nat, l1 <= l2,
         NEW i1, NEW i2, Counted(i1, i2), NEW a1, NEW a2, Counted(a1, a2)
  PROVE  /\ Assessments!DeterministicDecision(d1, i1, a1, l1) \in {0, 5, 10}
         /\ Assessments!DeterministicDecision(d2, i2, a2, l2) \in {0, 5, 10}
         /\ Assessments!DeterministicDecision(d2, i2, a2, l2)
              <= Assessments!DeterministicDecision(d1, i1, a1, l1)
<1> DEFINE D1 == Assessments!DeviceRisk(d1)  D2 == Assessments!DeviceRisk(d2)
           I1 == Assessments!IpRisk(i1)  I2 == Assessments!IpRisk(i2)
           A1 == Assessments!AsnRisk(a1)  A2 == Assessments!AsnRisk(a2)
           L1 == Assessments!LoopRisk(l1)  L2 == Assessments!LoopRisk(l2)
           hard1 == d1 >= 3 \/ (RequireNetwork /\ i1 = None) \/ l1 >= LoopBlock
           hard2 == d2 >= 3 \/ (RequireNetwork /\ i2 = None) \/ l2 >= LoopBlock
<1>1. /\ D1 \in {0, 35, 100} /\ D2 \in {0, 35, 100} /\ D1 <= D2
      /\ (D1 = 100 <=> d1 >= 3) /\ (D2 = 100 <=> d2 >= 3)
      /\ I1 \in {0, 25, 40} /\ I2 \in {0, 25, 40} /\ I1 <= I2
      /\ A1 \in {0, 10, 20} /\ A2 \in {0, 10, 20} /\ A1 <= A2
      /\ L1 \in {0, 35, 100} /\ L2 \in {0, 35, 100} /\ L1 <= L2
      /\ (L1 = 100 <=> l1 >= LoopBlock) /\ (L2 = 100 <=> l2 >= LoopBlock)
  BY RisksGrow
<1>2. i1 = None <=> i2 = None
  BY RiskAssumption DEF Counted
<1>a. /\ D1 \in 0 .. 100 /\ I1 \in 0 .. 100 /\ A1 \in 0 .. 100 /\ L1 \in 0 .. 100
      /\ D2 \in 0 .. 100 /\ I2 \in 0 .. 100 /\ A2 \in 0 .. 100 /\ L2 \in 0 .. 100
  <2> HIDE DEF D1, D2, I1, I2, A1, A2, L1, L2
  <2> QED
    BY <1>1
<1>3. Assessments!DeterministicDecision(d1, i1, a1, l1) = Weighed(D1, I1, A1, L1, hard1)
  BY <1>a, DecisionOfRisks, Zenon
<1>b. Assessments!DeterministicDecision(d2, i2, a2, l2) = Weighed(D2, I2, A2, L2, hard2)
  BY <1>a, DecisionOfRisks, Zenon
<1>4. hard1 => hard2
  BY <1>1, <1>2
<1>5. hard1 \in BOOLEAN /\ hard2 \in BOOLEAN
  OBVIOUS
<1>6. (D1 = 100 => hard1) /\ (D2 = 100 => hard2) /\ (L1 = 100 => hard1) /\ (L2 = 100 => hard2)
  BY <1>1
<1> HIDE DEF D1, D2, I1, I2, A1, A2, L1, L2, hard1, hard2
<1>7. /\ Weighed(D1, I1, A1, L1, hard1) \in {0, 5, 10}
      /\ Weighed(D2, I2, A2, L2, hard2) \in {0, 5, 10}
  BY DEF Weighed
<1>8. ~hard2 /\ TwoOf(D1, I1, L1) => TwoOf(D2, I2, L2)
  BY <1>1, <1>6 DEF TwoOf, Between
<1>9. D1 + I1 + A1 + L1 <= D2 + I2 + A2 + L2
  BY <1>1
<1>10. Weighed(D2, I2, A2, L2, hard2) <= Weighed(D1, I1, A1, L1, hard1)
  <2> DEFINE t1 == D1 + I1 + A1 + L1  t2 == D2 + I2 + A2 + L2
  <2>1. t1 \in Nat /\ t2 \in Nat /\ t1 <= t2
    BY <1>a, <1>9
  <2> HIDE DEF t1, t2
  <2>2. CASE hard2
    BY <2>2, <1>7 DEF Weighed
  <2>3. CASE ~hard2
    <3>1. ~hard1
      BY <2>3, <1>4
    <3>2. /\ Weighed(D1, I1, A1, L1, hard1) = IF TwoOf(D1, I1, L1) /\ t1 >= 70 THEN 0
                                              ELSE IF t1 >= 25 THEN 5 ELSE 10
          /\ Weighed(D2, I2, A2, L2, hard2) = IF TwoOf(D2, I2, L2) /\ t2 >= 70 THEN 0
                                              ELSE IF t2 >= 25 THEN 5 ELSE 10
      BY <2>3, <3>1 DEF Weighed, t1, t2
    <3> QED
      BY <3>2, <2>1, <2>3, <1>8
  <2> QED
    BY <2>2, <2>3
<1> QED
  BY <1>3, <1>b, <1>7, <1>10

Signal == {Assessments!FromConnection(n) : n \in Network}
Decision == [key : JobKey, signal : Signal, weight : {0, 5, 10}, known : Nat]
Quads == [1 .. 4 -> Nat \cup {None}]
Creation == [signal : Signal, read : 0 .. 4, counts : Quads, known : Nat]

\* One reading of the four counts, and one that is no lower anywhere.
WeightOf(f) == Assessments!DeterministicDecision(f[1], f[2], f[3], f[4])
Below(f, g) ==
  /\ f[1] \in Nat /\ g[1] \in Nat /\ f[1] <= g[1]
  /\ Counted(f[2], g[2]) /\ Counted(f[3], g[3])
  /\ f[4] \in Nat /\ g[4] \in Nat /\ f[4] <= g[4]

LEMMA BelowFalls ==
  ASSUME NEW f, NEW g, Below(f, g)
  PROVE  WeightOf(f) \in {0, 5, 10} /\ WeightOf(g) \in {0, 5, 10} /\ WeightOf(g) <= WeightOf(f)
<1>1. PICK d1, p1, a1, l1 : d1 = f[1] /\ p1 = f[2] /\ a1 = f[3] /\ l1 = f[4]
  OBVIOUS
<1>2. PICK d2, p2, a2, l2 : d2 = g[1] /\ p2 = g[2] /\ a2 = g[3] /\ l2 = g[4]
  OBVIOUS
<1>3. d1 \in Nat /\ d2 \in Nat /\ d1 <= d2 /\ l1 \in Nat /\ l2 \in Nat /\ l1 <= l2
  BY <1>1, <1>2 DEF Below
<1>4. Counted(p1, p2) /\ Counted(a1, a2)
  BY <1>1, <1>2 DEF Below
<1>5. WeightOf(f) = Assessments!DeterministicDecision(d1, p1, a1, l1)
  BY <1>1 DEF WeightOf
<1>6. WeightOf(g) = Assessments!DeterministicDecision(d2, p2, a2, l2)
  BY <1>2 DEF WeightOf
<1> QED
  BY <1>3, <1>4, <1>5, <1>6, DecisionFalls

\* What a creation has read, and for the rest what it would read now.
Outlook(c, now) == [q \in 1 .. 4 |-> IF q <= c.read THEN c.counts[q] ELSE now[q]]

LEMMA CountedOn ==
  ASSUME NEW x, NEW y, NEW z, Counted(x, y), Counted(y, z)
  PROVE  Counted(x, z) /\ Counted(x, x)
  BY RiskAssumption DEF Counted

LEMMA BelowOn ==
  ASSUME NEW f, NEW g, Below(f, g)
  PROVE  Below(g, g)
  BY RiskAssumption DEF Below, Counted

LEMMA OutlookGrows ==
  ASSUME NEW c, c.read \in 0 .. 4, NEW f, NEW g, Below(f, g), Below(Outlook(c, f), f)
  PROVE  Below(Outlook(c, f), Outlook(c, g)) /\ Below(Outlook(c, g), g)
<1> DEFINE x == Outlook(c, f)  y == Outlook(c, g)
<1>1. /\ x[1] = IF 1 <= c.read THEN c.counts[1] ELSE f[1]
      /\ x[2] = IF 2 <= c.read THEN c.counts[2] ELSE f[2]
      /\ x[3] = IF 3 <= c.read THEN c.counts[3] ELSE f[3]
      /\ x[4] = IF 4 <= c.read THEN c.counts[4] ELSE f[4]
  BY DEF Outlook
<1>2. /\ y[1] = IF 1 <= c.read THEN c.counts[1] ELSE g[1]
      /\ y[2] = IF 2 <= c.read THEN c.counts[2] ELSE g[2]
      /\ y[3] = IF 3 <= c.read THEN c.counts[3] ELSE g[3]
      /\ y[4] = IF 4 <= c.read THEN c.counts[4] ELSE g[4]
  BY DEF Outlook
<1>3. \A q \in {1, 2, 3, 4} : y[q] = x[q] \/ (x[q] = f[q] /\ y[q] = g[q])
  <2> HIDE DEF x, y
  <2> QED
    BY <1>1, <1>2
<1>4. Below(x, f)
  OBVIOUS
<1> HIDE DEF x, y
<1>5. x[1] \in Nat /\ y[1] \in Nat /\ x[1] <= y[1] /\ y[1] <= g[1] /\ g[1] \in Nat
  BY <1>3, <1>4 DEF Below
<1>6. x[4] \in Nat /\ y[4] \in Nat /\ x[4] <= y[4] /\ y[4] <= g[4] /\ g[4] \in Nat
  BY <1>3, <1>4 DEF Below
<1>7. ASSUME NEW q \in {2, 3} PROVE Counted(x[q], y[q]) /\ Counted(y[q], g[q])
  <2>1. Counted(x[q], f[q]) /\ Counted(f[q], g[q])
    BY <1>4 DEF Below
  <2>2. Counted(x[q], g[q]) /\ Counted(x[q], x[q]) /\ Counted(g[q], g[q])
    BY <2>1, RiskAssumption DEF Counted
  <2>3. y[q] = x[q] \/ (x[q] = f[q] /\ y[q] = g[q])
    BY <1>3
  <2> QED
    BY <2>1, <2>2, <2>3
<1> QED
  BY <1>5, <1>6, <1>7 DEF Below, x, y

\* Before the first query it is what it would read now, and a query keeps it.
LEMMA OutlookReads ==
  ASSUME NEW c \in Creation, NEW now, c.read < 4
  PROVE  /\ [c EXCEPT !.read = @ + 1, !.counts = [@ EXCEPT ![c.read + 1] = now[c.read + 1]]].read \in 0 .. 4
         /\ Outlook([c EXCEPT !.read = @ + 1, !.counts = [@ EXCEPT ![c.read + 1] = now[c.read + 1]]], now)
              = Outlook(c, now)
<1> DEFINE n == c.read + 1
           d == [c EXCEPT !.read = n, !.counts = [@ EXCEPT ![n] = now[n]]]
<1>1. n \in 1 .. 4 /\ c.read \in 0 .. 3 /\ c.counts \in Quads
  BY DEF Creation
<1>2. d.read = n /\ d.counts = [c.counts EXCEPT ![n] = now[n]]
  BY DEF Creation
<1>3. \A q \in 1 .. 4 : d.counts[q] = IF q = n THEN now[n] ELSE c.counts[q]
  BY <1>1, <1>2 DEF Quads
<1>4. ASSUME NEW q \in 1 .. 4
      PROVE  (IF q <= d.read THEN d.counts[q] ELSE now[q])
               = (IF q <= c.read THEN c.counts[q] ELSE now[q])
  BY <1>1, <1>2, <1>3
<1>5. Outlook(d, now) = Outlook(c, now)
  BY <1>4, Zenon DEF Outlook
<1>6. [c EXCEPT !.read = @ + 1, !.counts = [@ EXCEPT ![c.read + 1] = now[c.read + 1]]] = d
  OBVIOUS
<1> QED
  BY <1>1, <1>2, <1>5, <1>6

\* What the assessment of a user on a network would count now.
SameDevice(u) == {v \in User : device[v] = device[u]}
SeenWith(u, s) ==
  observations \cup (IF s = None THEN {} ELSE {[user |-> u, signal |-> s]})
OnPrefix(u, s) == Assessments!Users({o \in SeenWith(u, s) : o.signal.prefix = s.prefix})
OnAsn(u, s) == Assessments!Users({o \in SeenWith(u, s) : o.signal.asn = s.asn})
Devices(u) == Assessments!Cardinality(SameDevice(u))
Prefixes(u, s) == IF s = None THEN None ELSE Assessments!Cardinality(OnPrefix(u, s))
Asns(u, s) == IF s = None THEN None ELSE IF s.asn = None THEN None
              ELSE Assessments!Cardinality(OnAsn(u, s))
Now(u, s) == Assessments!Counts(u, s)

LEMMA NowIs ==
  ASSUME NEW u, NEW s
  PROVE  Now(u, s) = <<Devices(u), Prefixes(u, s), Asns(u, s), loop[u]>>
  BY DEF Now, Assessments!Counts, Devices, Prefixes, Asns, OnPrefix, OnAsn, SeenWith, SameDevice

RiskType ==
  /\ device \in [User -> {DeviceOf[u] : u \in User} \cup {None}]
  /\ loop \in [User -> Nat]
  /\ creating \in [User -> [JobKey -> Creation \cup {None}]]
  /\ decisions \in [User -> Seq(Decision)]
  /\ \A o \in observations : o.user \in User

\* A creation has read no more than there is now, and is on its way to a weight no
\* higher than those of the decisions that it began after.
CreationSound(u, c) ==
  /\ device[u] # None /\ c.known <= Len(decisions[u])
  /\ Below(Outlook(c, Now(u, c.signal)), Now(u, c.signal))
  /\ \A i \in 1 .. c.known : decisions[u][i].signal = c.signal =>
       WeightOf(Outlook(c, Now(u, c.signal))) <= decisions[u][i].weight

\* A weight that was given is at least what it would be now.
DecisionSound(u, d) ==
  /\ device[u] # None /\ d.known <= Len(decisions[u])
  /\ Below(Now(u, d.signal), Now(u, d.signal)) /\ WeightOf(Now(u, d.signal)) <= d.weight

DecisionsFall ==
  /\ \A u \in User, k \in JobKey : creating[u][k] # None => CreationSound(u, creating[u][k])
  /\ \A u \in User : \A i \in DOMAIN decisions[u] : DecisionSound(u, decisions[u][i])

RiskInv == RiskType /\ DecisionsFall /\ Assessments!WeightsOnlyFall

\* The counts are numbers, and grow with what they count.
LEMMA CountsGrow ==
  ASSUME NEW S, NEW T, S \subseteq T, T \subseteq User
  PROVE  /\ Assessments!Cardinality(S) \in Nat /\ Assessments!Cardinality(T) \in Nat
         /\ Assessments!Cardinality(S) <= Assessments!Cardinality(T)
<1>1. IsFiniteSet(T)
  BY RiskAssumption, FS_Subset
<1> QED
  BY <1>1, FS_Subset, FS_CardinalityType, RiskCardinality

LEMMA NowSound ==
  ASSUME RiskType, NEW u \in User, NEW s
  PROVE  Now(u, s) \in Quads /\ Below(Now(u, s), Now(u, s))
<1>1. SameDevice(u) \subseteq User /\ OnPrefix(u, s) \subseteq User /\ OnAsn(u, s) \subseteq User
  BY DEF SameDevice, OnPrefix, OnAsn, SeenWith, Assessments!Users, RiskType
<1>2. Devices(u) \in Nat
  BY <1>1, CountsGrow DEF Devices
<1>3. Counted(Prefixes(u, s), Prefixes(u, s))
  BY <1>1, CountsGrow DEF Prefixes, Counted
<1>4. Counted(Asns(u, s), Asns(u, s))
  BY <1>1, CountsGrow DEF Asns, Counted
<1>5. loop[u] \in Nat
  BY DEF RiskType
<1>6. PICK d, p, a, l : d = Devices(u) /\ p = Prefixes(u, s) /\ a = Asns(u, s) /\ l = loop[u]
  OBVIOUS
<1>7. Now(u, s) = <<d, p, a, l>>
  BY <1>6, NowIs
<1>8. d \in Nat /\ Counted(p, p) /\ Counted(a, a) /\ l \in Nat
  BY <1>2, <1>3, <1>4, <1>5, <1>6
<1>9. p \in Nat \cup {None} /\ a \in Nat \cup {None}
  BY <1>8 DEF Counted
<1>10. <<d, p, a, l>> \in Quads /\ Below(<<d, p, a, l>>, <<d, p, a, l>>)
  BY <1>8, <1>9 DEF Quads, Below
<1> QED
  BY <1>7, <1>10
\* A user that has a device is never counted lower after a step.
LEMMA NowGrows ==
  ASSUME RiskType, RiskType', [Assessments!Next]_assessments,
         NEW u \in User, device[u] # None, NEW s
  PROVE  device'[u] # None /\ Below(Now(u, s), Now(u, s)')
<1> DEFINE Grows ==
      /\ \A v \in User : device[v] # None => device'[v] = device[v]
      /\ observations \subseteq observations'
      /\ \A v \in User : loop[v] <= loop'[v]
<1>1. Grows
  <2>0. \A v \in User : loop[v] <= loop[v]
    BY DEF RiskType
  <2> USE DEF RiskType
  <2>1. ASSUME NEW w \in User, NEW key \in JobKey,
               \/ \E n \in Network : Assessments!BeginAssessment(w, key, n)
               \/ Assessments!ReadCount(w, key) \/ Assessments!RefuseBlocked(w, key)
               \/ Assessments!CreationFails(w, key)
        PROVE  UNCHANGED <<device, observations, loop>>
    BY <2>1 DEF Assessments!BeginAssessment, Assessments!ReadCount, Assessments!RefuseBlocked,
       Assessments!CreationFails
  <2>2. ASSUME NEW w \in User, NEW key \in JobKey, Assessments!CommitCreation(w, key)
        PROVE  UNCHANGED <<device, loop>> /\ observations \subseteq observations'
    BY <2>2 DEF Assessments!CommitCreation
  <2>3. ASSUME NEW w \in User, Assessments!RegisterDevice(w)
        PROVE  /\ UNCHANGED <<observations, loop>>
               /\ \A v \in User : device[v] # None => device'[v] = device[v]
    BY <2>3 DEF Assessments!RegisterDevice
  <2>4. ASSUME NEW w \in User, Assessments!SettledInLoop(w)
        PROVE  /\ UNCHANGED <<device, observations>>
               /\ \A v \in User : loop[v] <= loop'[v]
    BY <2>4 DEF Assessments!SettledInLoop
  <2>5. CASE UNCHANGED assessments
    BY <2>5, <2>0 DEF assessments
  <2> HIDE DEF RiskType
  <2>6. ASSUME NEW w \in User, NEW key \in JobKey,
               \/ \E n \in Network : Assessments!BeginAssessment(w, key, n)
               \/ Assessments!ReadCount(w, key) \/ Assessments!RefuseBlocked(w, key)
               \/ Assessments!CommitCreation(w, key) \/ Assessments!CreationFails(w, key)
        PROVE  Grows
    BY <2>0, <2>1, <2>2, <2>6
  <2>7. ASSUME NEW w \in User, Assessments!RegisterDevice(w) PROVE Grows
    BY <2>0, <2>3, <2>7
  <2>8. ASSUME NEW w \in User, Assessments!SettledInLoop(w) PROVE Grows
    BY <2>4, <2>8
  <2> QED
    BY <2>5, <2>6, <2>7, <2>8 DEF Assessments!Next
<1>2. device'[u] = device[u]
  BY <1>1
<1>3. SameDevice(u) \subseteq SameDevice(u)' /\ SameDevice(u)' \subseteq User
  BY <1>1 DEF SameDevice
<1>4. SeenWith(u, s) \subseteq SeenWith(u, s)' /\ \A o \in SeenWith(u, s)' : o.user \in User
  BY <1>1 DEF SeenWith, RiskType
<1>5. OnPrefix(u, s) \subseteq OnPrefix(u, s)' /\ OnPrefix(u, s)' \subseteq User
  BY <1>4 DEF OnPrefix, Assessments!Users
<1>6. OnAsn(u, s) \subseteq OnAsn(u, s)' /\ OnAsn(u, s)' \subseteq User
  BY <1>4 DEF OnAsn, Assessments!Users
<1> DEFINE d1 == Devices(u)  d2 == Devices(u)'  p1 == Prefixes(u, s)  p2 == Prefixes(u, s)'
           a1 == Asns(u, s)  a2 == Asns(u, s)'  l1 == loop[u]  l2 == loop'[u]
<1>7. d1 \in Nat /\ d2 \in Nat /\ d1 <= d2
  BY <1>3, CountsGrow DEF Devices
<1>8. Counted(p1, p2)
  BY <1>5, CountsGrow DEF Prefixes, Counted
<1>9. Counted(a1, a2)
  BY <1>6, CountsGrow DEF Asns, Counted
<1>10. l1 \in Nat /\ l2 \in Nat /\ l1 <= l2
  BY <1>1 DEF RiskType
<1>11. Now(u, s) = <<d1, p1, a1, l1>>
  BY NowIs
<1>12. Now(u, s)' = <<d2, p2, a2, l2>>
  BY DEF Now, Assessments!Counts, Devices, Prefixes, Asns, OnPrefix, OnAsn, SeenWith, SameDevice
<1> HIDE DEF d1, d2, p1, p2, a1, a2, l1, l2
<1>13. Below(<<d1, p1, a1, l1>>, <<d2, p2, a2, l2>>)
  BY <1>7, <1>8, <1>9, <1>10 DEF Below
<1> QED
  BY <1>2, <1>11, <1>12, <1>13

LEMMA CreationReads ==
  ASSUME NEW c \in Creation, NEW m \in 0 .. 4, NEW q \in Quads
  PROVE  [c EXCEPT !.read = m, !.counts = q] \in Creation
  BY DEF Creation

\* Every step keeps the types.
LEMMA RiskTypeNext == RiskInv /\ [Assessments!Next]_assessments => RiskType'
<1> SUFFICES ASSUME RiskInv, [Assessments!Next]_assessments PROVE RiskType'
  OBVIOUS
<1> USE DEF RiskInv, RiskType
<1>1. ASSUME NEW u \in User, NEW key \in JobKey, NEW n \in Network,
             Assessments!BeginAssessment(u, key, n)
      PROVE  RiskType'
  <2> DEFINE c == [signal |-> Assessments!FromConnection(n), read |-> 0,
                   counts |-> <<0, 0, 0, 0>>, known |-> Len(decisions[u])]
  <2>1. Assessments!FromConnection(n) \in Signal /\ Len(decisions[u]) \in Nat
    BY DEF Signal
  <2>2. <<0, 0, 0, 0>> \in Quads
    BY DEF Quads
  <2>3. c \in Creation
    BY <2>1, <2>2 DEF Creation
  <2>4. creating' = [creating EXCEPT ![u][key] = c]
    BY <1>1 DEF Assessments!BeginAssessment
  <2> HIDE DEF c
  <2>5. creating' \in [User -> [JobKey -> Creation \cup {None}]]
    BY <2>3, <2>4
  <2> QED
    BY <1>1, <2>5 DEF Assessments!BeginAssessment
<1>2. ASSUME NEW u \in User, NEW key \in JobKey, Assessments!ReadCount(u, key)
      PROVE  RiskType'
  <2>1. PICK c \in Creation : c = creating[u][key] /\ c.read < 4
    BY <1>2 DEF Assessments!ReadCount, Assessments!Assessed, Creation
  <2>2. PICK now \in Quads : now = Now(u, c.signal)
    BY NowSound
  <2>3. creating' = [creating EXCEPT ![u][key] =
          [c EXCEPT !.read = @ + 1, !.counts = [@ EXCEPT ![c.read + 1] = now[c.read + 1]]]]
    BY <1>2, <2>1, <2>2 DEF Assessments!ReadCount, Now
  <2>4. [c EXCEPT !.read = @ + 1, !.counts = [@ EXCEPT ![c.read + 1] = now[c.read + 1]]] \in Creation
    <3>1. PICK m \in 1 .. 4 : m = c.read + 1
      BY <2>1 DEF Creation
    <3>2. [c.counts EXCEPT ![m] = now[m]] \in Quads
      BY <3>1, <2>1, <2>2 DEF Creation, Quads
    <3>3. PICK q : q = [c.counts EXCEPT ![m] = now[m]]
      OBVIOUS
    <3>4. [c EXCEPT !.read = m, !.counts = q] \in Creation
      <4>1. q \in Quads
        BY <3>2, <3>3
      <4>2. m \in 0 .. 4
        BY <3>1
      <4> HIDE DEF Quads, Creation, RiskInv, RiskType
      <4> QED
        BY <4>1, <4>2, <2>1, CreationReads, Zenon
    <3>5. [c EXCEPT !.read = @ + 1, !.counts = [@ EXCEPT ![c.read + 1] = now[c.read + 1]]]
            = [c EXCEPT !.read = m, !.counts = q]
      BY <3>1, <3>3, Zenon
    <3> QED
      BY <3>4, <3>5
  <2>5. creating' \in [User -> [JobKey -> Creation \cup {None}]]
    BY <2>3, <2>4
  <2> QED
    BY <1>2, <2>5 DEF Assessments!ReadCount
<1>3. ASSUME NEW u \in User, NEW key \in JobKey,
             Assessments!RefuseBlocked(u, key) \/ Assessments!CreationFails(u, key)
      PROVE  RiskType'
  <2>1. /\ creating' = [creating EXCEPT ![u][key] = None]
        /\ UNCHANGED <<device, observations, decisions, loop>>
    BY <1>3 DEF Assessments!RefuseBlocked, Assessments!CreationFails, Assessments!Ends
  <2>2. creating' \in [User -> [JobKey -> Creation \cup {None}]]
    <3> HIDE DEF RiskInv
    <3>1. creating \in [User -> [JobKey -> Creation \cup {None}]]
      BY DEF RiskInv
    <3> HIDE DEF RiskType
    <3> QED
      BY <2>1, <3>1
  <2> QED
    BY <2>1, <2>2
<1>4. ASSUME NEW u \in User, NEW key \in JobKey, Assessments!CommitCreation(u, key)
      PROVE  RiskType'
  <2>1. PICK c \in Creation : c = creating[u][key]
    BY <1>4 DEF Assessments!CommitCreation, Assessments!Assessed
  <2> DEFINE d == [key |-> key, signal |-> c.signal, weight |-> Assessments!Weight(c),
                   known |-> c.known]
  <2>2. Assessments!Weight(c) = WeightOf(Outlook(c, Now(u, c.signal))) /\ RiskInv
    BY <1>4, <2>1 DEF Assessments!CommitCreation, Assessments!Assessed, Assessments!Weight,
       WeightOf, Outlook, Creation
  <2>3. Below(Outlook(c, Now(u, c.signal)), Now(u, c.signal))
    BY <1>4, <2>1 DEF Assessments!CommitCreation, Assessments!Assessed, DecisionsFall, CreationSound
  <2>4. Assessments!Weight(c) \in {0, 5, 10}
    BY <2>2, <2>3, BelowFalls
  <2>5. d \in Decision
    BY <2>1, <2>4 DEF Decision, Creation
  <2>6. /\ decisions' = [decisions EXCEPT ![u] = Append(@, d)]
        /\ creating' = [creating EXCEPT ![u][key] = None]
    BY <1>4, <2>1 DEF Assessments!CommitCreation, Assessments!Ends
  <2> HIDE DEF d
  <2>7. decisions' \in [User -> Seq(Decision)] /\ creating' \in [User -> [JobKey -> Creation \cup {None}]]
    BY <2>5, <2>6
  <2> QED
    BY <1>4, <2>7 DEF Assessments!CommitCreation
<1>5. ASSUME NEW u \in User, Assessments!RegisterDevice(u) PROVE RiskType'
  BY <1>5 DEF Assessments!RegisterDevice
<1>6. ASSUME NEW u \in User, Assessments!SettledInLoop(u) PROVE RiskType'
  BY <1>6 DEF Assessments!SettledInLoop
<1>7. CASE UNCHANGED assessments
  BY <1>7 DEF assessments
<1> QED
  BY <1>1, <1>2, <1>3, <1>4, <1>5, <1>6, <1>7 DEF Assessments!Next

\* Who goes on with a creation goes on to no higher a weight, as decisions are only
\* added.
LEMMA CreationKept ==
  ASSUME RiskType, RiskType', [Assessments!Next]_assessments,
         NEW u \in User, NEW c \in Creation, CreationSound(u, c),
         Len(decisions[u]) <= Len(decisions'[u]),
         \A i \in 1 .. Len(decisions[u]) : decisions'[u][i] = decisions[u][i]
  PROVE  CreationSound(u, c)'
<1>1. PICK f, g : f = Now(u, c.signal) /\ g = Now(u, c.signal)'
  OBVIOUS
<1>2. device[u] # None /\ c.known <= Len(decisions[u]) /\ Below(Outlook(c, f), f)
      /\ \A i \in 1 .. c.known : decisions[u][i].signal = c.signal =>
           WeightOf(Outlook(c, f)) <= decisions[u][i].weight
  BY <1>1 DEF CreationSound
<1>3. device'[u] # None /\ Below(f, g)
  BY <1>1, <1>2, NowGrows
<1>4. Below(Outlook(c, f), Outlook(c, g)) /\ Below(Outlook(c, g), g)
  BY <1>2, <1>3, OutlookGrows DEF Creation
<1>5. PICK x \in {0, 5, 10}, y \in {0, 5, 10} :
        x = WeightOf(Outlook(c, f)) /\ y = WeightOf(Outlook(c, g)) /\ y <= x
  BY <1>4, BelowFalls
<1>6. c.known \in Nat /\ Len(decisions[u]) \in Nat /\ Len(decisions'[u]) \in Nat
  BY DEF Creation, RiskType
<1>7. c.known <= Len(decisions'[u])
  BY <1>2, <1>6
<1>8. ASSUME NEW i \in 1 .. c.known, decisions'[u][i].signal = c.signal
      PROVE  y <= decisions'[u][i].weight
  <2>1. i \in 1 .. Len(decisions[u])
    BY <1>2, <1>6
  <2>2. decisions'[u][i] = decisions[u][i] /\ decisions[u][i] \in Decision
    BY <2>1 DEF RiskType
  <2>3. x <= decisions[u][i].weight /\ decisions[u][i].weight \in Int
    BY <1>2, <1>5, <1>8, <2>2 DEF Decision
  <2> QED
    BY <1>5, <2>2, <2>3
<1> QED
  BY <1>1, <1>3, <1>4, <1>5, <1>7, <1>8 DEF CreationSound

LEMMA DecisionKept ==
  ASSUME RiskType, RiskType', [Assessments!Next]_assessments,
         NEW u \in User, NEW d \in Decision, DecisionSound(u, d),
         Len(decisions[u]) <= Len(decisions'[u])
  PROVE  DecisionSound(u, d)'
<1>1. PICK f, g : f = Now(u, d.signal) /\ g = Now(u, d.signal)'
  OBVIOUS
<1>2. device[u] # None /\ d.known <= Len(decisions[u]) /\ WeightOf(f) <= d.weight
  BY <1>1 DEF DecisionSound
<1>3. device'[u] # None /\ Below(f, g)
  BY <1>1, <1>2, NowGrows
<1>4. Below(g, g)
  BY <1>3, BelowOn
<1>5. PICK x \in {0, 5, 10}, y \in {0, 5, 10} : x = WeightOf(f) /\ y = WeightOf(g) /\ y <= x
  BY <1>3, BelowFalls
<1>6. d.weight \in Int /\ d.known \in Nat /\ Len(decisions[u]) \in Nat /\ Len(decisions'[u]) \in Nat
  BY DEF Decision, RiskType
<1>7. y <= d.weight /\ d.known <= Len(decisions'[u])
  BY <1>2, <1>5, <1>6
<1> QED
  BY <1>1, <1>3, <1>4, <1>5, <1>7 DEF DecisionSound

\* A step that decides nothing keeps what is promised of every creation it keeps.
LEMMA NothingDecided ==
  ASSUME RiskInv, RiskType', [Assessments!Next]_assessments, UNCHANGED decisions,
         \A u \in User, k \in JobKey :
           creating'[u][k] # None => creating'[u][k] = creating[u][k] \/ CreationSound(u, creating[u][k])'
  PROVE  DecisionsFall' /\ Assessments!WeightsOnlyFall'
<1>1. ASSUME NEW u \in User, NEW k \in JobKey, creating'[u][k] # None
      PROVE  CreationSound(u, creating[u][k])'
  <2>1. CASE creating'[u][k] = creating[u][k]
    <3>1. PICK c \in Creation : c = creating[u][k] /\ c = creating'[u][k]
      BY <1>1, <2>1 DEF RiskInv, RiskType
    <3>2. CreationSound(u, c)
      BY <1>1, <3>1 DEF RiskInv, DecisionsFall
    <3>3. Len(decisions[u]) \in Nat
      BY DEF RiskInv, RiskType
    <3>4. CreationSound(u, c)'
      BY <3>2, <3>3, CreationKept DEF RiskInv
    <3> QED
      BY <3>1, <3>4
  <2> QED
    BY <1>1, <2>1
<1>2. ASSUME NEW u \in User, NEW i \in DOMAIN decisions'[u]
      PROVE  DecisionSound(u, decisions[u][i])'
  <2>1. PICK d \in Decision : d = decisions[u][i]
    BY <1>2 DEF RiskInv, RiskType
  <2>2. DecisionSound(u, d) /\ Len(decisions[u]) \in Nat
    BY <1>2, <2>1 DEF RiskInv, DecisionsFall, RiskType
  <2>3. DecisionSound(u, d)'
    BY <2>2, DecisionKept DEF RiskInv
  <2> QED
    BY <2>1, <2>3
<1>3. Assessments!WeightsOnlyFall'
  BY DEF RiskInv, Assessments!WeightsOnlyFall
<1> QED
  BY <1>1, <1>2, <1>3 DEF DecisionsFall

\* Every step keeps the decisions in their order.
LEMMA DecisionsNext ==
  RiskInv /\ [Assessments!Next]_assessments
    => DecisionsFall' /\ Assessments!WeightsOnlyFall'
<1> SUFFICES ASSUME RiskInv, [Assessments!Next]_assessments
             PROVE  DecisionsFall' /\ Assessments!WeightsOnlyFall'
  OBVIOUS
<1>1. RiskType /\ RiskType'
  BY RiskTypeNext DEF RiskInv
<1>2. creating \in [User -> [JobKey -> Creation \cup {None}]] /\ decisions \in [User -> Seq(Decision)]
  BY <1>1 DEF RiskType
<1>3. ASSUME NEW u \in User, NEW key \in JobKey, NEW n \in Network,
             Assessments!BeginAssessment(u, key, n)
      PROVE  DecisionsFall' /\ Assessments!WeightsOnlyFall'
  <2>1. PICK c : /\ c = [signal |-> Assessments!FromConnection(n), read |-> 0,
                         counts |-> <<0, 0, 0, 0>>, known |-> Len(decisions[u])]
                 /\ creating' = [creating EXCEPT ![u][key] = c]
                 /\ device[u] # None /\ UNCHANGED <<device, observations, decisions, loop>>
    BY <1>3 DEF Assessments!BeginAssessment
  <2>2. PICK f \in Quads : f = Now(u, c.signal) /\ f = Now(u, c.signal)' /\ Below(f, f)
    BY <1>1, <2>1, NowSound DEF Now, Assessments!Counts
  <2>3. Outlook(c, f) = f
    BY <2>1, <2>2 DEF Outlook, Quads
  <2>4. ASSUME NEW i \in 1 .. c.known, decisions[u][i].signal = c.signal
        PROVE  WeightOf(f) <= decisions[u][i].weight
    <3>1. i \in DOMAIN decisions[u]
      BY <1>2, <2>1
    <3> QED
      BY <2>2, <2>4, <3>1 DEF RiskInv, DecisionsFall, DecisionSound
  <2>5. Len(decisions[u]) \in Nat /\ c.known = Len(decisions[u])
    BY <1>2, <2>1
  <2>6. CreationSound(u, c)'
    <3>1. device'[u] # None /\ decisions' = decisions /\ c.known <= Len(decisions[u])
      BY <2>1, <2>5
    <3>2. Now(u, c.signal)' = f
      BY <2>2
    <3> QED
      BY <3>1, <3>2, <2>2, <2>3, <2>4 DEF CreationSound
  <2>7. ASSUME NEW v \in User, NEW k \in JobKey
        PROVE  creating'[v][k] = creating[v][k] \/ (v = u /\ k = key /\ creating'[v][k] = c)
    BY <1>2, <2>1
  <2>8. ASSUME NEW v \in User, NEW k \in JobKey
        PROVE  creating'[v][k] = creating[v][k] \/ CreationSound(v, creating[v][k])'
    BY <2>6, <2>7
  <2> QED
    BY <1>1, <2>1, <2>8, NothingDecided
<1>4. ASSUME NEW u \in User, NEW key \in JobKey, Assessments!ReadCount(u, key)
      PROVE  DecisionsFall' /\ Assessments!WeightsOnlyFall'
  <2>1. PICK c \in Creation : c = creating[u][key] /\ c.read < 4
    BY <1>2, <1>4 DEF Assessments!ReadCount, Assessments!Assessed, Creation
  <2>2. PICK f \in Quads : f = Now(u, c.signal)
    BY <1>1, NowSound
  <2>3. PICK d : /\ d = [c EXCEPT !.read = @ + 1, !.counts = [@ EXCEPT ![c.read + 1] = f[c.read + 1]]]
                 /\ creating' = [creating EXCEPT ![u][key] = d]
                 /\ UNCHANGED <<device, observations, decisions, loop>>
    BY <1>4, <2>1, <2>2 DEF Assessments!ReadCount, Now
  <2>4. d.signal = c.signal /\ d.known = c.known
    BY <2>1, <2>3 DEF Creation
  <2>5. f = Now(u, c.signal)'
    BY <2>2, <2>3 DEF Now, Assessments!Counts
  <2>6. Outlook(d, f) = Outlook(c, f)
    <3>1. d = [c EXCEPT !.read = @ + 1, !.counts = [@ EXCEPT ![c.read + 1] = f[c.read + 1]]]
      BY <2>3
    <3> QED
      BY <2>1, <3>1, OutlookReads, Zenon
  <2>7. CreationSound(u, c)
    <3>1. creating[u][key] # None
      BY <1>4 DEF Assessments!ReadCount
    <3> QED
      BY <2>1, <3>1 DEF RiskInv, DecisionsFall
  <2>8. CreationSound(u, d)'
    BY <2>2, <2>3, <2>4, <2>5, <2>6, <2>7 DEF CreationSound
  <2>9. ASSUME NEW v \in User, NEW k \in JobKey
        PROVE  creating'[v][k] = creating[v][k] \/ (v = u /\ k = key /\ creating'[v][k] = d)
    BY <1>2, <2>3
  <2>10. ASSUME NEW v \in User, NEW k \in JobKey
         PROVE  creating'[v][k] = creating[v][k] \/ CreationSound(v, creating[v][k])'
    BY <2>8, <2>9
  <2> QED
    BY <1>1, <2>3, <2>10, NothingDecided
<1>5. ASSUME NEW u \in User, NEW key \in JobKey,
             Assessments!RefuseBlocked(u, key) \/ Assessments!CreationFails(u, key)
      PROVE  DecisionsFall' /\ Assessments!WeightsOnlyFall'
  <2>1. UNCHANGED decisions /\ creating' = [creating EXCEPT ![u][key] = None]
    BY <1>5 DEF Assessments!RefuseBlocked, Assessments!CreationFails, Assessments!Ends
  <2>2. \A v \in User, k \in JobKey : creating'[v][k] # None => creating'[v][k] = creating[v][k]
    BY <1>2, <2>1
  <2> QED
    BY <1>1, <2>1, <2>2, NothingDecided
<1>6. ASSUME NEW u \in User, NEW key \in JobKey, Assessments!CommitCreation(u, key)
      PROVE  DecisionsFall' /\ Assessments!WeightsOnlyFall'
  <2>1. PICK c \in Creation : c = creating[u][key] /\ c.read = 4
    BY <1>2, <1>6 DEF Assessments!CommitCreation, Assessments!Assessed
  <2>2. PICK d : /\ d = [key |-> key, signal |-> c.signal, weight |-> Assessments!Weight(c),
                         known |-> c.known]
                 /\ decisions' = [decisions EXCEPT ![u] = Append(@, d)]
                 /\ creating' = [creating EXCEPT ![u][key] = None]
    BY <1>6, <2>1 DEF Assessments!CommitCreation, Assessments!Ends
  <2>3. CreationSound(u, c)
    BY <1>6, <2>1 DEF RiskInv, DecisionsFall, Assessments!CommitCreation, Assessments!Assessed
  <2>4. PICK n \in Nat : n = Len(decisions[u])
    BY <1>2
  <2>5. /\ decisions'[u] = Append(decisions[u], d)
        /\ \A v \in User \ {u} : decisions'[v] = decisions[v]
    BY <1>2, <2>2
  <2>6. /\ DOMAIN decisions'[u] = 1 .. n + 1 /\ DOMAIN decisions[u] = 1 .. n
        /\ Len(decisions'[u]) = n + 1 /\ decisions'[u][n + 1] = d
        /\ \A i \in 1 .. n : decisions'[u][i] = decisions[u][i]
    BY <1>2, <2>4, <2>5
  <2>7. ASSUME NEW v \in User
        PROVE  /\ Len(decisions[v]) <= Len(decisions'[v])
               /\ \A i \in 1 .. Len(decisions[v]) : decisions'[v][i] = decisions[v][i]
    <3>1. CASE v = u
      BY <3>1, <2>4, <2>6
    <3>2. CASE v # u
      <4>1. Len(decisions[v]) \in Nat
        BY <1>2
      <4> QED
        BY <3>2, <4>1, <2>5
    <3> QED
      BY <3>1, <3>2
  <2>8. ASSUME NEW v \in User, NEW k \in JobKey, creating'[v][k] # None
        PROVE  CreationSound(v, creating[v][k])'
    <3>1. creating'[v][k] = creating[v][k]
      BY <1>2, <2>2, <2>8
    <3>2. PICK e \in Creation : e = creating[v][k] /\ e = creating'[v][k]
      BY <1>2, <2>8, <3>1
    <3>3. CreationSound(v, e)
      BY <2>8, <3>1, <3>2 DEF RiskInv, DecisionsFall
    <3>4. CreationSound(v, e)'
      BY <1>1, <2>7, <3>3, CreationKept
    <3> QED
      BY <3>2, <3>4
  <2>9. PICK f, g : f = Now(u, c.signal) /\ g = Now(u, c.signal)'
    OBVIOUS
  <2>10. device[u] # None /\ c.known <= n /\ Below(Outlook(c, f), f)
         /\ \A i \in 1 .. c.known : decisions[u][i].signal = c.signal =>
              WeightOf(Outlook(c, f)) <= decisions[u][i].weight
    BY <2>3, <2>4, <2>9 DEF CreationSound
  <2>11. device'[u] # None /\ Below(f, g)
    BY <1>1, <2>9, <2>10, NowGrows
  <2>12. Below(g, g)
    BY <2>11, BelowOn
  <2>13. Assessments!Weight(c) = WeightOf(Outlook(c, f))
    BY <2>1 DEF Assessments!Weight, WeightOf, Outlook
  <2>14. PICK w \in {0, 5, 10}, x \in {0, 5, 10}, y \in {0, 5, 10} :
           w = WeightOf(g) /\ x = WeightOf(f) /\ y = WeightOf(Outlook(c, f)) /\ w <= x /\ x <= y
    BY <2>10, <2>11, BelowFalls
  <2>15. c.known \in Nat /\ d.known = c.known /\ d.signal = c.signal /\ d.weight = y
    BY <2>1, <2>2, <2>13, <2>14 DEF Creation
  <2>16. DecisionSound(u, d)'
    BY <2>6, <2>9, <2>10, <2>11, <2>12, <2>14, <2>15 DEF DecisionSound
  <2>17. ASSUME NEW v \in User, NEW i \in DOMAIN decisions'[v]
         PROVE  DecisionSound(v, decisions[v][i])'
    <3>1. CASE v = u /\ i = n + 1
      BY <3>1, <2>6, <2>16
    <3>2. CASE i \in DOMAIN decisions[v]
      <4>0. i \in 1 .. Len(decisions[v]) /\ decisions[v][i] \in Decision
        BY <1>2, <3>2
      <4>1. PICK e \in Decision : e = decisions[v][i] /\ e = decisions'[v][i]
        BY <4>0, <2>7
      <4>2. DecisionSound(v, e)
        BY <3>2, <4>1 DEF RiskInv, DecisionsFall
      <4>3. DecisionSound(v, e)'
        BY <1>1, <2>7, <4>2, DecisionKept
      <4> QED
        BY <4>1, <4>3
    <3> QED
      BY <3>1, <3>2, <2>5, <2>6
  <2>18. ASSUME NEW v \in User, NEW i \in DOMAIN decisions'[v], NEW j \in DOMAIN decisions'[v],
                i <= decisions'[v][j].known,
                decisions'[v][i].signal = decisions'[v][j].signal
         PROVE  decisions'[v][j].weight <= decisions'[v][i].weight
    <3>1. CASE v # u
      BY <3>1, <2>5, <2>18 DEF RiskInv, Assessments!WeightsOnlyFall
    <3>2. CASE v = u /\ j \in 1 .. n
      <4>1. decisions'[u][j] = decisions[u][j] /\ decisions[u][j] \in Decision
        BY <1>2, <2>4, <2>6, <3>2
      <4>2. decisions[u][j].known <= n /\ decisions[u][j].known \in Nat
        BY <2>4, <2>6, <3>2, <4>1 DEF RiskInv, DecisionsFall, DecisionSound, Decision
      <4>3. i \in 1 .. n
        BY <2>6, <2>18, <3>2, <4>1, <4>2
      <4>4. decisions'[u][i] = decisions[u][i]
        BY <2>6, <4>3
      <4> QED
        BY <2>6, <2>18, <3>2, <4>1, <4>3, <4>4 DEF RiskInv, Assessments!WeightsOnlyFall
    <3>3. CASE v = u /\ j = n + 1
      <4>1. decisions'[u][j] = d /\ i \in 1 .. c.known /\ i \in 1 .. n
        BY <2>6, <2>10, <2>15, <2>18, <3>3
      <4>2. decisions'[u][i] = decisions[u][i] /\ decisions[u][i].signal = c.signal
        BY <2>6, <2>15, <2>18, <3>3, <4>1
      <4>3. y <= decisions[u][i].weight
        BY <2>10, <2>14, <4>1, <4>2
      <4> QED
        BY <2>15, <3>3, <4>1, <4>2, <4>3
    <3> QED
      BY <3>1, <3>2, <3>3, <2>6
  <2> QED
    BY <2>8, <2>17, <2>18 DEF DecisionsFall, Assessments!WeightsOnlyFall
<1>7. ASSUME NEW u \in User, Assessments!RegisterDevice(u) \/ Assessments!SettledInLoop(u)
      PROVE  DecisionsFall' /\ Assessments!WeightsOnlyFall'
  <2>1. UNCHANGED <<decisions, creating>>
    BY <1>7 DEF Assessments!RegisterDevice, Assessments!SettledInLoop
  <2> QED
    BY <1>1, <2>1, NothingDecided
<1>8. CASE UNCHANGED assessments
  <2>1. UNCHANGED <<decisions, creating>>
    BY <1>8 DEF assessments
  <2> QED
    BY <1>1, <2>1, NothingDecided
<1> QED
  BY <1>3, <1>4, <1>5, <1>6, <1>7, <1>8 DEF Assessments!Next

LEMMA RiskInit == Assessments!Init => RiskInv
  BY DEF Assessments!Init, RiskInv, RiskType, DecisionsFall, Assessments!WeightsOnlyFall

\* A job whose assessment began after another of the user had been committed from the
\* same network is never weighed higher than it, for any number of users and of
\* creations that overlap, and any thresholds on networks and loops.
THEOREM WeightsAlwaysFall == Spec => []WeightsOnlyFall
<1>1. Init => RiskInv
  BY RiskInit DEF Init
<1>2. RiskInv /\ [Next]_vars => RiskInv'
  BY PartSteps, RiskTypeNext, DecisionsNext DEF RiskInv
<1>3. RiskInv => WeightsOnlyFall
  BY DEF RiskInv, WeightsOnlyFall
<1> QED
  BY <1>1, <1>2, <1>3, PTL DEF Spec
=============================================================================
