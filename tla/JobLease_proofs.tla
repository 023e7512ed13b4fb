--------------------------- MODULE JobLease_proofs ---------------------------
(***************************************************************************)
(* What the settlement arithmetic guarantees for every base cost, tier and *)
(* trust class, how reservations add up, and theorems about JobLease, for  *)
(* every set of users, jobs, nodes and instances and every value of the    *)
(* other constants: its type and the money, the refinement of JobEscrow,   *)
(* then attempts, reports, pins and the leases of a node.                  *)
(***************************************************************************)
EXTENDS JobLease, FiniteSetTheorems, TLAPS

-----------------------------------------------------------------------------
(***************************************************************************)
(* Settlement::calculate                                                   *)
(***************************************************************************)

\* A product of naturals grows with its first factor.
LEMMA ProductMonotone ==
  ASSUME NEW a \in Nat, NEW b \in Nat, NEW c \in Nat, b <= c
  PROVE  a * b <= a * c /\ a * b \in Nat
  BY SMT

\* The quotient of a natural is a natural, bounded where the product is.
LEMMA QuotientBound ==
  ASSUME NEW a \in Nat, NEW x \in Nat, NEW c \in Nat \ {0}, x <= a * c
  PROVE  x \div c \in 0 .. a
  BY SMT

\* The amount deducted is a natural number, and no tier the quality loop can
\* give a model after a job was created costs more than the High deduction
\* that maximum_reservation_micro set aside: the `user_deduction_micro >
\* reserved_cost_micro' branch of complete_job is dead.
THEOREM DeductionWithinReservation ==
  ASSUME NEW base \in Nat, NEW tier \in PerformanceTier
  PROVE  /\ UserDeduction(base, tier) \in Nat
         /\ UserDeduction(base, tier) <= Reservation(base)
<1>1. TierMilli(tier) \in 700 .. 1500
  BY DEF PerformanceTier, TierMilli
<1>2. PICK m \in 700 .. 1500 : TierMilli(tier) = m
  BY <1>1
<1>3. UserDeduction(base, tier) = (base * m + 999) \div 1000
  BY <1>2 DEF UserDeduction, MulMilliCeil
<1>4. \A t : t = "high" => TierMilli(t) = 1500
  BY DEF TierMilli
<1>5. Reservation(base) = (base * 1500 + 999) \div 1000
  BY <1>4 DEF Reservation, UserDeduction, MulMilliCeil
<1>6. /\ base * m \in Nat
      /\ base * m <= base * 1500
  OBVIOUS
<1>7. QED
  BY <1>3, <1>5, <1>6

\* The node's share is a natural number no greater than the deduction, so the
\* reserve never pays for a settlement: `calculate' has no negative inflow,
\* even at the 1.1 multiplier of an enhanced node.
THEOREM ReserveNeverPays ==
  ASSUME NEW base \in Nat, NEW tier \in PerformanceTier, NEW trust \in TrustClass
  PROVE  /\ NodeSpendableQuota(base, tier, trust) \in Nat
         /\ NodeSpendableQuota(base, tier, trust) <= UserDeduction(base, tier)
         /\ ReserveInflow(base, tier, trust) \in Nat
<1>1. TrustMilli(trust) \in 500 .. 1100
  BY DEF TrustClass, TrustMilli
<1>2. PICK m \in 500 .. 1100 : TrustMilli(trust) = m
  BY <1>1
<1>3. PICK d \in Nat : UserDeduction(base, tier) = d
  BY DeductionWithinReservation
<1>4. NodeSpendableQuota(base, tier, trust) = (d * (800 * m)) \div 1000000
  BY <1>2, <1>3, SMT DEF NodeSpendableQuota, MulTwoMilliFloor
<1>5. 800 * m \in Nat /\ 800 * m <= 1000000
  BY SMT
<1>6. d * (800 * m) <= d * 1000000 /\ d * (800 * m) \in Nat
  BY <1>5, ProductMonotone, SMT
<1>7. (d * (800 * m)) \div 1000000 \in 0 .. d
  BY <1>6, QuotientBound, SMT
<1>8. QED
  BY <1>3, <1>4, <1>7, SMT DEF ReserveInflow

-----------------------------------------------------------------------------
(***************************************************************************)
(* Reservations add up                                                     *)
(***************************************************************************)

\* The micros reserved by jobs are finitely many, so they can be counted.
LEMMA UnitsFinite ==
  ASSUME NEW S \in SUBSET Job, NEW u
  PROVE  /\ IsFiniteSet(Units(S, u))
         /\ ReservedBy(S, u) \in Nat
<1>1. IsFiniteSet(S)
  BY ReservationsAssumption, FS_Subset
<1>2. MaxMicro \in Int /\ 1 \in Int
  BY ReservationsAssumption
<1>3. IsFiniteSet(1 .. MaxMicro)
  BY <1>2, FS_Interval
<1>4. IsFiniteSet(S \X (1 .. MaxMicro))
  BY <1>1, <1>3, FS_Product
<1>5. Units(S, u) \in SUBSET (S \X (1 .. MaxMicro))
  BY DEF Units
<1>6. IsFiniteSet(Units(S, u))
  BY <1>4, <1>5, FS_Subset
<1>7. QED
  BY <1>6, FS_CardinalityType DEF ReservedBy

\* Ending the jobs of S lowers what L keeps reserved by what S kept.
LEMMA ReservedByDifference ==
  ASSUME NEW L \in SUBSET Job, NEW S \in SUBSET L, NEW u
  PROVE  /\ ReservedBy(L \ S, u) = ReservedBy(L, u) - ReservedBy(S, u)
         /\ ReservedBy(S, u) <= ReservedBy(L, u)
<1>1. IsFiniteSet(Units(L, u))
  BY UnitsFinite
<1>2. Units(S, u) \in SUBSET Units(L, u)
  BY DEF Units
<1>3. Units(L \ S, u) = Units(L, u) \ Units(S, u)
  BY DEF Units
<1>4. Units(L, u) \cap Units(S, u) = Units(S, u)
  BY <1>2
<1>5. Cardinality(Units(L, u) \ Units(S, u))
        = Cardinality(Units(L, u)) - Cardinality(Units(S, u))
  BY <1>1, <1>4, FS_Difference
<1>6. Cardinality(Units(S, u)) <= Cardinality(Units(L, u))
  BY <1>1, <1>2, FS_Subset
<1>7. QED
  BY <1>3, <1>5, <1>6 DEF ReservedBy

\* One job reserves its cost on its consumer's account and nothing elsewhere.
LEMMA ReservedByOne ==
  ASSUME NEW j \in Job, NEW u
  PROVE  ReservedBy({j}, u) = IF Consumer[j] = u THEN Cost(j) ELSE 0
<1>1. Cost(j) \in 1 .. MaxMicro
  BY ReservationsAssumption
<1>2. CASE Consumer[j] = u
  <2> DEFINE I == 1 .. Cost(j)
             f == [k \in I |-> <<j, k>>]
  <2>1. Units({j}, u) = {<<j, k>> : k \in I}
    BY <1>1, <1>2, ReservationsAssumption DEF Units
  <2>2. f \in Bijection(I, Units({j}, u))
    BY <2>1 DEF Bijection, Injection, Surjection, IsInjective
  <2>3. ExistsBijection(I, Units({j}, u))
    BY <2>2 DEF ExistsBijection
  <2>4. IsFiniteSet(I) /\ Cardinality(I) = Cost(j)
    BY <1>1, ReservationsAssumption, FS_Interval
  <2>5. Cardinality(Units({j}, u)) = Cardinality(I)
    BY <2>3, <2>4, FS_Bijection
  <2>6. QED
    BY <1>2, <2>4, <2>5 DEF ReservedBy
<1>3. CASE Consumer[j] # u
  <2>1. Units({j}, u) = {}
    BY <1>3 DEF Units
  <2>2. QED
    BY <1>3, <2>1, FS_EmptySet DEF ReservedBy
<1>4. QED
  BY <1>2, <1>3

\* Without jobs nothing is reserved.
LEMMA ReservedByNone ==
  ASSUME NEW u
  PROVE  ReservedBy({}, u) = 0
<1>1. Units({}, u) = {}
  BY DEF Units
<1>2. QED
  BY <1>1, FS_EmptySet DEF ReservedBy

\* A new job adds its cost to its consumer's reservations.
LEMMA ReservedByAdd ==
  ASSUME NEW L \in SUBSET Job, NEW j \in Job \ L, NEW u
  PROVE  ReservedBy(L \cup {j}, u)
           = ReservedBy(L, u) + IF Consumer[j] = u THEN Cost(j) ELSE 0
<1>1. /\ L \cup {j} \in SUBSET Job
      /\ {j} \in SUBSET (L \cup {j})
      /\ (L \cup {j}) \ {j} = L
  OBVIOUS
<1>2. ReservedBy(L, u) = ReservedBy(L \cup {j}, u) - ReservedBy({j}, u)
  BY <1>1, ReservedByDifference
<1>3. /\ ReservedBy(L, u) \in Nat
      /\ ReservedBy(L \cup {j}, u) \in Nat
      /\ ReservedBy({j}, u) \in Nat
  BY <1>1, UnitsFinite
<1>4. QED
  BY <1>2, <1>3, ReservedByOne

USE DEF Status, LiveStatus, Terminal

-----------------------------------------------------------------------------
(***************************************************************************)
(* Type correctness                                                        *)
(***************************************************************************)

\* Release leaves every account with a natural number reserved.
LEMMA ReleaseType ==
  ASSUME TypeOK, NEW S \in SUBSET Job, Release(S)
  PROVE  reserved' \in [User -> Nat]
<1>1. \A u \in User : ReservedBy(S, u) \in Nat
  BY UnitsFinite
<1>2. QED
  BY <1>1 DEF TypeOK, Release

\* Finalising draining instances keeps them among the known statuses.
LEMMA FinalizedType ==
  ASSUME TypeOK, NEW I, NEW S
  PROVE  Finalized(I, S) \in [Instance -> {"published", "draining", "unpublished"}]
  BY DEF TypeOK, Finalized

\* Marking an attempt keeps the attempts of a job in their range.
LEMMA ClosedType ==
  ASSUME NEW max, NEW count, NEW mark \in {"failed", "expired"},
         NEW rows \in [1 .. max -> {"none", "leased", "succeeded", "failed", "expired"}]
  PROVE  Closed(rows, count, mark)
           \in [1 .. max -> {"none", "leased", "succeeded", "failed", "expired"}]
  BY DEF Closed

\* What the two reapers write to jobs and attempts keeps its type.
LEMMA ReapedType ==
  ASSUME TypeOK, NEW R \in SUBSET Job, NEW X \in SUBSET Job
  PROVE  /\ ReapedStatus(R, X) \in [Job -> Status]
         /\ ReapedCount(X) \in [Job -> Nat]
         /\ ReapedLease(R) \in [Job -> {"none", "live", "lapsing", "expired"}]
         /\ DOMAIN ReapedAttempts(R, X) = Job
         /\ \A j \in Job : ReapedAttempts(R, X)[j] \in
              [1 .. MaxAttempts[j] -> {"none", "leased", "succeeded", "failed", "expired"}]
<1>1. /\ ReapedStatus(R, X) \in [Job -> Status]
      /\ ReapedCount(X) \in [Job -> Nat]
      /\ ReapedLease(R) \in [Job -> {"none", "live", "lapsing", "expired"}]
  BY DEF TypeOK, ReapedStatus, ReapedCount, ReapedLease
<1>2. DOMAIN ReapedAttempts(R, X) = Job
  BY DEF ReapedAttempts
<1>3. ASSUME NEW j \in Job
      PROVE  ReapedAttempts(R, X)[j] \in
               [1 .. MaxAttempts[j] -> {"none", "leased", "succeeded", "failed", "expired"}]
  <2>1. attempt_status[j] \in
          [1 .. MaxAttempts[j] -> {"none", "leased", "succeeded", "failed", "expired"}]
    BY DEF TypeOK
  <2>2. QED
    BY <2>1, ClosedType DEF ReapedAttempts
<1>4. QED
  BY <1>1, <1>2, <1>3

\* The freshly migrated tables are of the right type.
LEMMA TypeInit == Init => TypeOK
  BY JobLeaseAssumption DEF Init, TypeOK

\* No transaction and no passing of time breaks a column's type.
LEMMA TypeNext == TypeOK /\ [Next]_vars => TypeOK'
<1> SUFFICES ASSUME TypeOK, [Next]_vars PROVE TypeOK'
  OBVIOUS
<1> USE JobLeaseAssumption, ReservationsAssumption
<1>1. ASSUME NEW j \in Job, InsertJob(j) PROVE TypeOK'
  <2>1. Cost(j) \in Nat
    OBVIOUS
  <2>2. reserved' \in [User -> Nat]
    BY <1>1, <2>1 DEF InsertJob, TypeOK
  <2>3. QED
    BY <1>1, <2>2 DEF InsertJob, TypeOK, attemptVars, nodeVars
<1>2. ASSUME NEW seen, NEW R, NEW X, GetJob(seen, R, X) PROVE TypeOK'
  <2>1. R \in SUBSET Job /\ X \in SUBSET Job
    BY <1>2 DEF GetJob, ExpiredTerminal, InvalidWaiting
  <2>2. reserved' \in [User -> Nat]
    BY <1>2, <2>1, ReleaseType DEF GetJob
  <2>3. instance_status' \in [Instance -> {"published", "draining", "unpublished"}]
    BY <1>2, FinalizedType DEF GetJob
  <2>4. \A j \in Job : status'[j] = "leased" => status[j] = "leased"
    BY <1>2 DEF GetJob, ReapedStatus
  <2>5. QED
    BY <1>2, <2>1, <2>2, <2>3, <2>4, ReapedType
       DEF GetJob, TypeOK, nodeVars, trustVars
<1>3. ASSUME NEW j \in Job, CancelTimedOutJob(j) PROVE TypeOK'
  <2>1. reserved' \in [User -> Nat]
    BY <1>3, ReleaseType DEF CancelTimedOutJob
  <2>2. instance_status' \in [Instance -> {"published", "draining", "unpublished"}]
    BY <1>3, FinalizedType DEF CancelTimedOutJob
  <2>3. /\ DOMAIN attempt_status' = Job
        /\ \A k \in Job : attempt_status'[k] \in
             [1 .. MaxAttempts[k] -> {"none", "leased", "succeeded", "failed", "expired"}]
    BY <1>3, ClosedType DEF CancelTimedOutJob, TypeOK
  <2>4. QED
    BY <1>3, <2>1, <2>2, <2>3 DEF CancelTimedOutJob, TypeOK, nodeVars, trustVars
<1>4. ASSUME NEW j \in Job, NEW i \in Instance, NEW seen, NEW R, NEW X,
             ClaimJob(j, i, seen, R, X)
      PROVE  TypeOK'
  <2>1. R \in SUBSET Job /\ X \in SUBSET Job
    BY <1>4 DEF ClaimJob, Candidate, ExpiredTerminal, InvalidWaiting
  <2>2. reserved' \in [User -> Nat]
    BY <1>4, <2>1, ReleaseType DEF ClaimJob
  <2>3. instance_status' \in [Instance -> {"published", "draining", "unpublished"}]
    BY <1>4, FinalizedType DEF ClaimJob
  <2>4. /\ status' \in [Job -> Status]
        /\ attempt_count' \in [Job -> Nat]
        /\ lease' \in [Job -> {"none", "live", "lapsing", "expired"}]
        /\ instance' \in [Job -> Instance \cup {None}]
    <3>1. /\ ReapedStatus(R, X) \in [Job -> Status]
          /\ ReapedCount(X) \in [Job -> Nat]
          /\ ReapedLease(R) \in [Job -> {"none", "live", "lapsing", "expired"}]
      BY <2>1, ReapedType
    <3>2. QED
      BY <1>4, <3>1 DEF ClaimJob, TypeOK
  <2>5. /\ DOMAIN attempt_status' = Job
        /\ \A k \in Job : attempt_status'[k] \in
             [1 .. MaxAttempts[k] -> {"none", "leased", "succeeded", "failed", "expired"}]
    <3> DEFINE A == ReapedAttempts(R, X)
    <3>1. /\ DOMAIN A = Job
          /\ \A k \in Job : A[k] \in
               [1 .. MaxAttempts[k] -> {"none", "leased", "succeeded", "failed", "expired"}]
      BY <2>1, ReapedType
    <3>2. attempt_status' =
            [A EXCEPT ![j] = [Closed(A[j], attempt_count[j], "expired")
                                EXCEPT ![attempt_count[j] + 1] = "leased"]]
      BY <1>4, <3>1 DEF ClaimJob
    <3> HIDE DEF A
    <3>3. QED
      BY <3>1, <3>2, ClosedType
  <2>6. \A k \in Job : status'[k] = "leased" => instance'[k] \in Instance
    BY <1>4, <2>1 DEF ClaimJob, TypeOK, ReapedStatus
  <2>7. QED
    BY <1>4, <2>2, <2>3, <2>4, <2>5, <2>6
       DEF ClaimJob, TypeOK, nodeVars, trustVars
<1>5. ASSUME NEW j \in Job, NEW i \in Instance, NEW seen, NEW R, NEW X,
              ClaimLosesInstance(j, i, seen, R, X)
       PROVE  TypeOK'
  <2>1. R \in SUBSET Job /\ X \in SUBSET Job
    BY <1>5 DEF ClaimLosesInstance, Candidate, ExpiredTerminal, InvalidWaiting
  <2>2. reserved' \in [User -> Nat]
    BY <1>5, <2>1, ReleaseType DEF ClaimLosesInstance
  <2>3. instance_status' \in [Instance -> {"published", "draining", "unpublished"}]
    BY <1>5, FinalizedType DEF ClaimLosesInstance, TypeOK
  <2>4. \A k \in Job : status'[k] = "leased" => status[k] = "leased"
    BY <1>5 DEF ClaimLosesInstance, ReapedStatus
  <2>5. /\ DOMAIN attempt_status' = Job
        /\ \A k \in Job : attempt_status'[k] \in
             [1 .. MaxAttempts[k] -> {"none", "leased", "succeeded", "failed", "expired"}]
    <3> DEFINE A == ReapedAttempts(R, X)
    <3>1. /\ DOMAIN A = Job
          /\ \A k \in Job : A[k] \in
               [1 .. MaxAttempts[k] -> {"none", "leased", "succeeded", "failed", "expired"}]
      BY <2>1, ReapedType
    <3>2. attempt_status' =
            [A EXCEPT ![j] = Closed(A[j], attempt_count[j], "expired")]
      BY <1>5, <3>1 DEF ClaimLosesInstance
    <3> HIDE DEF A
    <3>3. QED
      BY <3>1, <3>2, ClosedType
  <2>6. QED
    BY <1>5, <2>1, <2>2, <2>3, <2>4, <2>5, ReapedType
       DEF ClaimLosesInstance, TypeOK, nodeVars, trustVars
<1>6. ASSUME NEW j \in Job, NEW seen, RenewJob(j, seen) PROVE TypeOK'
  BY <1>6 DEF RenewJob, TypeOK, attemptVars, moneyVars, nodeVars, trustVars
<1>7. ASSUME NEW j \in Job, FailRegulatedLease(j) PROVE TypeOK'
  <2>1. reserved' \in [User -> Nat]
    BY <1>7, ReleaseType DEF FailRegulatedLease
  <2>2. instance_status' \in [Instance -> {"published", "draining", "unpublished"}]
    BY <1>7, FinalizedType DEF FailRegulatedLease
  <2>3. /\ DOMAIN attempt_status' = Job
        /\ \A k \in Job : attempt_status'[k] \in
             [1 .. MaxAttempts[k] -> {"none", "leased", "succeeded", "failed", "expired"}]
    BY <1>7, ClosedType DEF FailRegulatedLease, TypeOK
  <2>4. QED
    BY <1>7, <2>1, <2>2, <2>3 DEF FailRegulatedLease, TypeOK, nodeVars, trustVars
<1>8. ASSUME NEW j \in Job, NEW key \in Key, NEW tier \in Tier, NEW trust \in Trust,
             CompleteJob(j, key, tier, trust)
      PROVE  TypeOK'
  <2>1. reserved' \in [User -> Nat]
    BY <1>8, ReleaseType DEF CompleteJob
  <2>2. instance_status' \in [Instance -> {"published", "draining", "unpublished"}]
    BY <1>8, FinalizedType DEF CompleteJob
  <2> DEFINE d == UserDeduction(BaseCost[j], tier)
             q == NodeSpendableQuota(BaseCost[j], tier, trust)
             p == Owner[NodeOf[instance[j]]]
  <2>3. /\ d \in Nat /\ q \in Nat
        /\ ReserveInflow(BaseCost[j], tier, trust) \in Nat
    <3>1. /\ BaseCost[j] \in Nat
          /\ tier \in PerformanceTier
          /\ trust \in TrustClass
      OBVIOUS
    <3>2. QED
      BY <3>1, DeductionWithinReservation, ReserveNeverPays
  <2>4. p \in User
    BY <1>8 DEF CompleteJob, HoldsLease, TypeOK
  <2>5. d <= spendable[Consumer[j]]
    BY <1>8 DEF CompleteJob, SettlementAccepted
  <2> HIDE DEF d, q, p
  <2>6. spendable' \in [User -> Nat]
    <3>1. spendable' = [[spendable EXCEPT ![Consumer[j]] = @ - d] EXCEPT ![p] = @ + q]
      BY <1>8 DEF CompleteJob, d, q, p
    <3>2. QED
      <4>1. spendable \in [User -> Nat] /\ Consumer[j] \in User
        BY DEF TypeOK
      <4>2. [spendable EXCEPT ![Consumer[j]] = @ - d] \in [User -> Nat]
        BY <2>3, <2>5, <4>1
      <4>3. QED
        BY <2>3, <2>4, <3>1, <4>2
  <2>7. reserve_balance' \in Nat
    BY <1>8, <2>3 DEF CompleteJob, TypeOK
  <2>8. receipt' \in [Job -> {None} \cup [deduction : Nat, quota : Nat, payee : User]]
    <3>1. receipt' = [receipt EXCEPT ![j] = [deduction |-> d, quota |-> q, payee |-> p]]
      BY <1>8 DEF CompleteJob, d, q, p
    <3>2. QED
      BY <2>3, <2>4, <3>1 DEF TypeOK
  <2>9. QED
    BY <1>8, <2>1, <2>2, <2>6, <2>7, <2>8
       DEF CompleteJob, TypeOK, nodeVars, trustVars
<1>9. ASSUME NEW j \in Job, NEW key \in Key, NEW retryable \in BOOLEAN,
             JobFail(j, key, retryable)
      PROVE  TypeOK'
  <2>1. reserved' \in [User -> Nat]
    <3>1. CASE retryable /\ attempt_count[j] < MaxAttempts[j]
      BY <1>9, <3>1 DEF JobFail, TypeOK
    <3>2. CASE ~ (retryable /\ attempt_count[j] < MaxAttempts[j])
      BY <1>9, <3>2, ReleaseType DEF JobFail
    <3>3. QED
      BY <3>1, <3>2
  <2>2. instance_status' \in [Instance -> {"published", "draining", "unpublished"}]
    BY <1>9, FinalizedType DEF JobFail
  <2>3. /\ status' \in [Job -> Status]
        /\ instance' \in [Job -> Instance \cup {None}]
        /\ \A k \in Job : status'[k] = "leased" => instance'[k] \in Instance
    <3>1. CASE retryable /\ attempt_count[j] < MaxAttempts[j]
      <4>1. /\ status' = [status EXCEPT ![j] = "retry"]
            /\ instance' = [instance EXCEPT ![j] = IF j \in Regulated THEN @ ELSE None]
        BY <1>9, <3>1 DEF JobFail
      <4>2. QED
        BY <4>1 DEF TypeOK
    <3>2. CASE ~ (retryable /\ attempt_count[j] < MaxAttempts[j])
      <4>1. /\ status' = [status EXCEPT ![j] = "failed"]
            /\ instance' = instance
        BY <1>9, <3>2 DEF JobFail
      <4>2. QED
        BY <4>1 DEF TypeOK
    <3>3. QED
      BY <3>1, <3>2
  <2>4. available' \in [Job -> BOOLEAN]
    BY <1>9 DEF JobFail, TypeOK
  <2>5. /\ DOMAIN attempt_status' = Job /\ DOMAIN attempt_key' = Job
        /\ \A k \in Job :
             /\ attempt_status'[k] \in
                  [1 .. MaxAttempts[k] -> {"none", "leased", "succeeded", "failed", "expired"}]
             /\ attempt_key'[k] \in [1 .. MaxAttempts[k] -> Key \cup {None}]
    <3>1. /\ DOMAIN attempt_status' = Job
          /\ \A k \in Job : attempt_status'[k] \in
               [1 .. MaxAttempts[k] -> {"none", "leased", "succeeded", "failed", "expired"}]
      BY <1>9, ClosedType DEF JobFail, TypeOK
    <3>2. /\ DOMAIN attempt_key' = Job
          /\ \A k \in Job : attempt_key'[k] \in [1 .. MaxAttempts[k] -> Key \cup {None}]
      BY <1>9 DEF JobFail, TypeOK
    <3>3. QED
      BY <3>1, <3>2
  <2>6. QED
    BY <1>9, <2>1, <2>2, <2>3, <2>4, <2>5 DEF JobFail, TypeOK, nodeVars, trustVars
<1>10. ASSUME FleetNext PROVE TypeOK'
  <2> USE DEF TypeOK, jobVars, attemptVars, moneyVars, nodeVars, trustVars
  <2>1. ASSUME NEW n \in Node, NEW s \in Beat, NEW limit \in Limits,
               NodeHeartbeat(n, s, limit)
        PROVE  TypeOK'
    BY <2>1 DEF NodeHeartbeat
  <2>2. ASSUME NEW n \in Node, NEW limit \in Limits, RegisterNode(n, limit)
        PROVE  TypeOK'
    BY <2>2 DEF RegisterNode
  <2>3. ASSUME NEW i \in Instance, PublishModel(i) PROVE TypeOK'
    BY <2>3 DEF PublishModel
  <2>4. ASSUME NEW i \in Instance, UnpublishModel(i) PROVE TypeOK'
    BY <2>4 DEF UnpublishModel
  <2> HIDE DEF TypeOK
  <2>5. QED
    BY <1>10, <2>1, <2>2, <2>3, <2>4 DEF FleetNext
<1>11. ASSUME EnvironmentNext PROVE TypeOK'
  <2> USE DEF TypeOK, jobVars, attemptVars, moneyVars, nodeVars, trustVars
  <2>1. ASSUME NEW j \in Job, LeaseLapses(j) PROVE TypeOK'
    BY <2>1 DEF LeaseLapses
  <2>2. ASSUME NEW j \in Job, LeaseExpires(j) PROVE TypeOK'
    BY <2>2 DEF LeaseExpires
  <2>3. ASSUME NEW j \in Job, BackoffEnds(j) PROVE TypeOK'
    BY <2>3 DEF BackoffEnds
  <2>4. ASSUME NEW n \in Node, NodeFallsSilent(n) PROVE TypeOK'
    BY <2>4 DEF NodeFallsSilent
  <2>5. ASSUME NEW j \in Regulated, NEW r \in {"superseded", "lapsed"}, ReportChanges(j, r)
        PROVE  TypeOK'
    BY <2>5 DEF ReportChanges
  <2>6. ASSUME NEW i \in Instance, SetQuarantine(i) PROVE TypeOK'
    BY <2>6 DEF SetQuarantine
  <2> HIDE DEF TypeOK
  <2>7. QED
    BY <1>11, <2>1, <2>2, <2>3, <2>4, <2>5, <2>6 DEF EnvironmentNext
<1>12. CASE UNCHANGED vars
  BY <1>12 DEF vars, TypeOK, jobVars, attemptVars, moneyVars, nodeVars, trustVars
<1>13. QED
  BY <1>1, <1>2, <1>3, <1>4, <1>6, <1>7, <1>8, <1>9, <1>10, <1>11, <1>12, <1>5
     DEF Next, ConsumerNext, CreateJob, CreateRegulatedJob, WorkerNext

\* Every reachable state of the job table is well formed: balances,
\* reservations and the reserve never become negative (the CHECK constraints
\* of quota_accounts), attempts keep their range and a leased job names an
\* instance.
THEOREM TypeCorrect == Spec => []TypeOK
  BY TypeInit, TypeNext, PTL DEF Spec

-----------------------------------------------------------------------------
(***************************************************************************)
(* Reservations.  ReservationExact is inductive together with TypeOK, and  *)
(* Solvent needs only that a release never raises what is reserved; the    *)
(* two together make every lease settle.                                   *)
(***************************************************************************)

\* A transaction that ends the jobs of S and releases them keeps the books.
LEMMA ReleaseKeepsExact ==
  ASSUME TypeOK, ReservationExact, NEW S \in SUBSET LiveJobs, Release(S),
         LiveJobs' = LiveJobs \ S
  PROVE  /\ ReservationExact'
         /\ \A u \in User : reserved'[u] <= reserved[u]
<1>1. LiveJobs \in SUBSET Job
  BY DEF LiveJobs
<1>2. ASSUME NEW u \in User
      PROVE  /\ ReservedBy(LiveJobs \ S, u) = ReservedBy(LiveJobs, u) - ReservedBy(S, u)
             /\ ReservedBy(S, u) \in Nat
             /\ ReservedBy(LiveJobs, u) \in Nat
  BY <1>1, ReservedByDifference, UnitsFinite
<1>3. \A u \in User : reserved'[u] = ReservedBy(LiveJobs, u) - ReservedBy(S, u)
  BY DEF Release, ReservationExact
<1>4. \A u \in User : reserved'[u] = ReservedBy(LiveJobs', u)
  BY <1>2, <1>3
<1>5. ReservationExact'
  BY <1>4 DEF ReservationExact, ReservedBy, Units
<1>6. ASSUME NEW u \in User PROVE reserved'[u] <= reserved[u]
  <2>1. reserved[u] = ReservedBy(LiveJobs, u)
    BY DEF ReservationExact
  <2>2. QED
    BY <1>2, <1>3, <2>1
<1>7. QED
  BY <1>5, <1>6

\* It keeps accounts solvent when it moves no money.
LEMMA ReleaseKeepsSolvent ==
  ASSUME TypeOK, ReservationExact, Solvent, NEW S \in SUBSET LiveJobs, Release(S),
         LiveJobs' = LiveJobs \ S, spendable' = spendable
  PROVE  ReservationExact' /\ Solvent'
<1>1. ReservationExact' /\ \A u \in User : reserved'[u] <= reserved[u]
  BY ReleaseKeepsExact
<1>2. reserved' \in [User -> Nat]
  BY ReleaseType DEF LiveJobs
<1>3. ASSUME NEW u \in User PROVE reserved'[u] <= spendable'[u]
  BY <1>1, <1>2 DEF Solvent, TypeOK
<1>4. QED
  BY <1>1, <1>3 DEF Solvent

\* A transaction that leaves reservations and the set of live jobs alone.
LEMMA QuietKeepsExact ==
  ASSUME ReservationExact, reserved' = reserved, LiveJobs' = LiveJobs
  PROVE  ReservationExact'
  BY DEF ReservationExact, ReservedBy, Units

\* Every step keeps the reservations exact and the accounts solvent.
LEMMA ReservedNext ==
  ASSUME TypeOK, ReservationExact, Solvent, [Next]_vars
  PROVE  ReservationExact' /\ Solvent'
<1> USE JobLeaseAssumption, ReservationsAssumption
<1>1. ASSUME NEW j \in Job, InsertJob(j) PROVE ReservationExact' /\ Solvent'
  <2>1. /\ LiveJobs \in SUBSET Job
        /\ j \in Job \ LiveJobs
        /\ LiveJobs' = LiveJobs \cup {j}
    BY <1>1 DEF InsertJob, TypeOK, LiveJobs
  <2>2. Cost(j) \in Nat
    OBVIOUS
  <2>3. \A u \in User : reserved'[u] =
          reserved[u] + IF Consumer[j] = u THEN Cost(j) ELSE 0
    BY <1>1, <2>2 DEF InsertJob, TypeOK
  <2>4. \A u \in User : ReservedBy(LiveJobs', u) =
          ReservedBy(LiveJobs, u) + IF Consumer[j] = u THEN Cost(j) ELSE 0
    BY <2>1, ReservedByAdd
  <2>5. ReservationExact'
    <3>1. \A u \in User : reserved[u] = ReservedBy(LiveJobs, u)
      BY DEF ReservationExact
    <3>2. \A u \in User : reserved'[u] = ReservedBy(LiveJobs', u)
      BY <2>3, <2>4, <3>1
    <3>3. QED
      BY <3>2 DEF ReservationExact, ReservedBy, Units
  <2>6. Solvent'
    BY <1>1, <2>2 DEF InsertJob, Affordable, TypeOK, Solvent
  <2>7. QED
    BY <2>5, <2>6
<1>2. ASSUME NEW seen, NEW R, NEW X, GetJob(seen, R, X)
      PROVE  ReservationExact' /\ Solvent'
  <2>1. R \cup X \in SUBSET LiveJobs
    BY <1>2 DEF GetJob, ExpiredTerminal, ExpiredFor, InvalidWaiting, LiveJobs
  <2>2. LiveJobs' = LiveJobs \ (R \cup X)
    BY <1>2 DEF GetJob, ReapedStatus, LiveJobs
  <2>3. Release(R \cup X) /\ spendable' = spendable
    BY <1>2 DEF GetJob
  <2>4. QED
    BY <2>1, <2>2, <2>3, ReleaseKeepsSolvent
<1>3. ASSUME NEW j \in Job, CancelTimedOutJob(j) PROVE ReservationExact' /\ Solvent'
  <2>1. {j} \in SUBSET LiveJobs /\ LiveJobs' = LiveJobs \ {j}
    BY <1>3 DEF CancelTimedOutJob, TypeOK, LiveJobs
  <2>2. Release({j}) /\ spendable' = spendable
    BY <1>3 DEF CancelTimedOutJob
  <2>3. QED
    BY <2>1, <2>2, ReleaseKeepsSolvent
<1>4. ASSUME NEW j \in Job, NEW i \in Instance, NEW seen, NEW R, NEW X,
             ClaimJob(j, i, seen, R, X)
      PROVE  ReservationExact' /\ Solvent'
  <2>1. R \cup X \in SUBSET LiveJobs
    BY <1>4 DEF ClaimJob, Candidate, ExpiredTerminal, ExpiredFor, InvalidWaiting, LiveJobs
  <2>2. j \in LiveJobs /\ j \notin R \cup X
    BY <1>4 DEF ClaimJob, Candidate, Claimable, ExpiredTerminal, ExpiredFor, LiveJobs,
       TypeOK
  <2>3. LiveJobs' = LiveJobs \ (R \cup X)
    BY <1>4, <2>2 DEF ClaimJob, ReapedStatus, LiveJobs
  <2>4. Release(R \cup X) /\ spendable' = spendable
    BY <1>4 DEF ClaimJob
  <2>5. QED
    BY <2>1, <2>3, <2>4, ReleaseKeepsSolvent
<1>5. ASSUME NEW j \in Job, NEW i \in Instance, NEW seen, NEW R, NEW X,
              ClaimLosesInstance(j, i, seen, R, X)
       PROVE  ReservationExact' /\ Solvent'
  <2>1. R \cup X \in SUBSET LiveJobs
    BY <1>5 DEF ClaimLosesInstance, Candidate, ExpiredTerminal, ExpiredFor,
       InvalidWaiting, LiveJobs
  <2>2. LiveJobs' = LiveJobs \ (R \cup X)
    BY <1>5 DEF ClaimLosesInstance, ReapedStatus, LiveJobs
  <2>3. Release(R \cup X) /\ spendable' = spendable
    BY <1>5 DEF ClaimLosesInstance
  <2>4. QED
    BY <2>1, <2>2, <2>3, ReleaseKeepsSolvent
<1>6. ASSUME NEW j \in Job, NEW seen, RenewJob(j, seen)
      PROVE  ReservationExact' /\ Solvent'
  <2>1. LiveJobs' = LiveJobs /\ reserved' = reserved /\ spendable' = spendable
    BY <1>6 DEF RenewJob, LiveJobs, moneyVars
  <2>2. QED
    BY <2>1, QuietKeepsExact DEF Solvent
<1>7. ASSUME NEW j \in Job, FailRegulatedLease(j) PROVE ReservationExact' /\ Solvent'
  <2>1. {j} \in SUBSET LiveJobs /\ LiveJobs' = LiveJobs \ {j}
    BY <1>7 DEF FailRegulatedLease, TypeOK, LiveJobs
  <2>2. Release({j}) /\ spendable' = spendable
    BY <1>7 DEF FailRegulatedLease
  <2>3. QED
    BY <2>1, <2>2, ReleaseKeepsSolvent
<1>8. ASSUME NEW j \in Job, NEW key \in Key, NEW tier \in Tier, NEW trust \in Trust,
             CompleteJob(j, key, tier, trust)
      PROVE  ReservationExact' /\ Solvent'
  <2> DEFINE d == UserDeduction(BaseCost[j], tier)
             q == NodeSpendableQuota(BaseCost[j], tier, trust)
             p == Owner[NodeOf[instance[j]]]
             c == Consumer[j]
  <2>1. {j} \in SUBSET LiveJobs /\ LiveJobs' = LiveJobs \ {j}
    BY <1>8 DEF CompleteJob, HoldsLease, TypeOK, LiveJobs
  <2>2. Release({j})
    BY <1>8 DEF CompleteJob
  <2>3. ReservationExact' /\ \A u \in User : reserved'[u] <= reserved[u]
    BY <2>1, <2>2, ReleaseKeepsExact
  <2>4. d \in Nat /\ q \in Nat
    <3>1. /\ BaseCost[j] \in Nat
          /\ tier \in PerformanceTier
          /\ trust \in TrustClass
      OBVIOUS
    <3>2. QED
      BY <3>1, DeductionWithinReservation, ReserveNeverPays
  <2>5. c \in User /\ p \in User
    BY <1>8 DEF CompleteJob, HoldsLease, TypeOK
  <2>6. reserved'[c] <= spendable[c] - d
    BY <1>8, <2>5 DEF CompleteJob, SettlementAccepted, Release
  <2>7. spendable' = [[spendable EXCEPT ![c] = @ - d] EXCEPT ![p] = @ + q]
    BY <1>8 DEF CompleteJob
  <2> HIDE DEF d, q, p, c
  <2>8. reserved \in [User -> Nat] /\ spendable \in [User -> Nat]
    BY DEF TypeOK
  <2>9. reserved' \in [User -> Nat]
    BY <2>1, <2>2, ReleaseType DEF LiveJobs
  <2>10. ASSUME NEW u \in User PROVE reserved'[u] <= spendable'[u]
    <3>1. spendable'[u] >= spendable[u] - (IF u = c THEN d ELSE 0)
      BY <2>4, <2>5, <2>7, <2>8
    <3>2. reserved'[u] <= spendable[u] - (IF u = c THEN d ELSE 0)
      BY <2>3, <2>6, <2>8, <2>9 DEF Solvent
    <3>3. spendable'[u] \in Int
      BY <2>4, <2>5, <2>7, <2>8
    <3>4. QED
      BY <2>4, <2>8, <2>9, <3>1, <3>2, <3>3
  <2>11. QED
    BY <2>3, <2>10 DEF Solvent
<1>9. ASSUME NEW j \in Job, NEW key \in Key, NEW retryable \in BOOLEAN,
             JobFail(j, key, retryable)
      PROVE  ReservationExact' /\ Solvent'
  <2>0. j \in LiveJobs /\ status \in [Job -> Status]
    BY <1>9 DEF JobFail, HoldsLease, TypeOK, LiveJobs
  <2>1. CASE retryable /\ attempt_count[j] < MaxAttempts[j]
    <3>1. reserved' = reserved /\ spendable' = spendable
      BY <1>9, <2>1 DEF JobFail
    <3>2. LiveJobs' = LiveJobs
      <4>1. status' = [status EXCEPT ![j] = "retry"]
        BY <1>9, <2>1 DEF JobFail
      <4>2. QED
        BY <2>0, <4>1 DEF LiveJobs
    <3>3. QED
      BY <3>1, <3>2, QuietKeepsExact DEF Solvent
  <2>2. CASE ~ (retryable /\ attempt_count[j] < MaxAttempts[j])
    <3>1. {j} \in SUBSET LiveJobs /\ LiveJobs' = LiveJobs \ {j}
      <4>1. status' = [status EXCEPT ![j] = "failed"]
        BY <1>9, <2>2 DEF JobFail
      <4>2. QED
        BY <2>0, <4>1 DEF LiveJobs
    <3>2. Release({j}) /\ spendable' = spendable
      BY <1>9, <2>2 DEF JobFail
    <3>3. QED
      BY <3>1, <3>2, ReleaseKeepsSolvent
  <2>3. QED
    BY <2>1, <2>2
<1>10. ASSUME \/ FleetNext \/ EnvironmentNext \/ UNCHANGED vars
      PROVE  ReservationExact' /\ Solvent'
  <2>1. status' = status /\ reserved' = reserved /\ spendable' = spendable
    BY <1>10 DEF FleetNext, NodeHeartbeat, RegisterNode, PublishModel, UnpublishModel,
       EnvironmentNext, LeaseLapses, LeaseExpires, BackoffEnds, NodeFallsSilent,
       ReportChanges, SetQuarantine, vars, jobVars, moneyVars
  <2>2. LiveJobs' = LiveJobs
    BY <2>1 DEF LiveJobs
  <2>3. QED
    BY <2>1, <2>2, QuietKeepsExact DEF Solvent
<1>11. QED
  BY <1>1, <1>2, <1>3, <1>4, <1>6, <1>7, <1>8, <1>9, <1>10, <1>5
     DEF Next, ConsumerNext, CreateJob, CreateRegulatedJob, WorkerNext

\* At the start no job is live and nothing is reserved.
LEMMA ReservedInit == Init => ReservationExact /\ Solvent
<1> SUFFICES ASSUME Init PROVE ReservationExact /\ Solvent
  OBVIOUS
<1>1. LiveJobs = {}
  BY DEF Init, LiveJobs
<1>2. \A u \in User : ReservedBy({}, u) = 0
  BY ReservedByNone
<1>3. \A u \in User : ReservedBy(LiveJobs, u) = 0
  BY <1>1, <1>2, Zenon
<1>4. ReservationExact
  BY <1>3 DEF Init, ReservationExact
<1>5. Solvent
  BY JobLeaseAssumption DEF Init, Solvent
<1>6. QED
  BY <1>4, <1>5

\* For any number of users, jobs, nodes and attempts, what an account has
\* reserved is the sum over its unfinished jobs: no interleaving of results,
\* failures, reapers, cancellations and lost attestations releases a
\* reservation twice or forgets one.
THEOREM ReservationsExact == Spec => []ReservationExact
<1>1. TypeOK /\ ReservationExact /\ Solvent /\ [Next]_vars
        => (TypeOK /\ ReservationExact /\ Solvent)'
  BY TypeNext, ReservedNext
<1>2. Init => TypeOK /\ ReservationExact /\ Solvent
  BY TypeInit, ReservedInit
<1>3. QED
  BY <1>1, <1>2, PTL DEF Spec

\* No sequence of transactions meets the CHECK reserved_micro <=
\* spendable_micro of quota_accounts.
THEOREM AlwaysSolvent == Spec => []Solvent
<1>1. TypeOK /\ ReservationExact /\ Solvent /\ [Next]_vars
        => (TypeOK /\ ReservationExact /\ Solvent)'
  BY TypeNext, ReservedNext
<1>2. Init => TypeOK /\ ReservationExact /\ Solvent
  BY TypeInit, ReservedInit
<1>3. QED
  BY <1>1, <1>2, PTL DEF Spec

\* Exact reservations on solvent accounts let every leased job be settled.
LEMMA SettlementFollows ==
  ASSUME TypeOK, ReservationExact, Solvent
  PROVE  SettlementNeverRefused
<1> USE ReservationsAssumption
<1> SUFFICES ASSUME NEW j \in Job, status[j] = "leased", NEW tier \in PerformanceTier
             PROVE  SettlementAccepted(j, tier)
  BY DEF SettlementNeverRefused
<1> DEFINE c == Consumer[j]
           d == UserDeduction(BaseCost[j], tier)
<1>1. c \in User
  OBVIOUS
<1>2. d \in Nat /\ d <= Cost(j) /\ Cost(j) \in Nat
  BY DeductionWithinReservation DEF Cost
<1>3. LiveJobs \in SUBSET Job /\ {j} \in SUBSET LiveJobs
  BY DEF LiveJobs
<1>4. ReservedBy({j}, c) = Cost(j)
  BY ReservedByOne
<1>5. Cost(j) <= reserved[c]
  <2>1. ReservedBy({j}, c) <= ReservedBy(LiveJobs, c)
    BY <1>3, ReservedByDifference
  <2>2. reserved[c] = ReservedBy(LiveJobs, c)
    BY <1>1 DEF ReservationExact
  <2>3. QED
    BY <1>4, <2>1, <2>2
<1>6. reserved[c] \in Nat /\ spendable[c] \in Nat /\ reserved[c] <= spendable[c]
  BY <1>1 DEF TypeOK, Solvent
<1> HIDE DEF c, d
<1>7. /\ d <= Cost(j)
      /\ spendable[c] >= d
      /\ reserved[c] >= ReservedBy({j}, c)
      /\ reserved[c] - ReservedBy({j}, c) <= spendable[c] - d
  BY <1>2, <1>4, <1>5, <1>6
<1>8. QED
  BY <1>7 DEF SettlementAccepted, c, d

\* A worker that holds a lease is always paid: complete_job reaches neither
\* its internal error, nor insufficient_quota, nor a failing CHECK, whatever
\* happened to the model's tier and the consumer's other jobs since the job
\* was created.
THEOREM SettlementAlwaysPossible == Spec => []SettlementNeverRefused
<1>1. Spec => [](TypeOK /\ ReservationExact /\ Solvent)
  BY TypeCorrect, ReservationsExact, AlwaysSolvent, PTL
<1>2. TypeOK /\ ReservationExact /\ Solvent => SettlementNeverRefused
  BY SettlementFollows
<1>3. QED
  BY <1>1, <1>2, PTL

-----------------------------------------------------------------------------
(***************************************************************************)
(* JobLease implements JobEscrow: every transaction of the coordinator     *)
(* holds one job's price, charges one job, returns some jobs or leaves the *)
(* money of all jobs alone.                                                *)
(***************************************************************************)

\* PhaseOf tells live jobs, charged jobs and returned jobs apart.
LEMMA PhaseValues ==
  ASSUME NEW s \in Status
  PROVE  /\ PhaseOf(s) = "none" <=> s = "none"
         /\ PhaseOf(s) = "held" <=> s \in LiveStatus
         /\ PhaseOf(s) = "charged" <=> s = "succeeded"
         /\ PhaseOf(s) = "returned" <=> s \in {"failed", "cancelled"}
  BY DEF PhaseOf

\* What JobEscrow calls held are the live jobs.
LEMMA HeldIsLive ==
  ASSUME TypeOK
  PROVE  Escrow!Held = LiveJobs
<1>1. \A j \in Job : PhaseOf(status[j]) = "held" <=> status[j] \in LiveStatus
  BY PhaseValues DEF TypeOK
<1>2. QED
  BY <1>1 DEF Escrow!Held, LiveJobs

\* A step that keeps every job's phase, and the money, is a stuttering step.
LEMMA QuietStutters ==
  ASSUME spendable' = spendable, reserve_balance' = reserve_balance,
         \A j \in Job : PhaseOf(status'[j]) = PhaseOf(status[j])
  PROVE  UNCHANGED Escrow!vars
  BY DEF Escrow!vars

\* Ending the jobs of S unsettled returns them.
LEMMA ReleaseReturns ==
  ASSUME TypeOK, NEW S \in SUBSET LiveJobs,
         spendable' = spendable, reserve_balance' = reserve_balance,
         \A k \in Job : IF k \in S
                          THEN status'[k] \in {"failed", "cancelled"}
                          ELSE PhaseOf(status'[k]) = PhaseOf(status[k])
  PROVE  [Escrow!Next]_(Escrow!vars)
<1>1. CASE S = {}
  BY <1>1, QuietStutters
<1>2. CASE S # {}
  <2>1. \A k \in S : PhaseOf(status'[k]) = "returned"
    BY PhaseValues DEF LiveJobs
  <2>2. [j \in Job |-> PhaseOf(status'[j])] =
          [j \in Job |-> IF j \in S THEN "returned"
                         ELSE [k \in Job |-> PhaseOf(status[k])][j]]
    BY <2>1
  <2>3. Escrow!Return(S)
    BY <1>2, <2>2 DEF Escrow!Return
  <2>4. S \in SUBSET Escrow!Held
    BY HeldIsLive
  <2>5. QED
    BY <2>3, <2>4 DEF Escrow!Next
<1>3. QED
  BY <1>1, <1>2

\* The coordinator starts where the escrow starts.
LEMMA EscrowInit == Init => Escrow!Init
<1> SUFFICES ASSUME Init PROVE Escrow!Init
  OBVIOUS
<1>1. \A j \in Job : PhaseOf(status[j]) = "none"
  BY PhaseValues DEF Init
<1>2. QED
  BY <1>1 DEF Init, Escrow!Init

\* Every step of the coordinator is a step of the escrow or leaves it alone.
LEMMA EscrowNext ==
  ASSUME TypeOK, ReservationExact, Solvent, [Next]_vars
  PROVE  [Escrow!Next]_(Escrow!vars)
<1> USE JobLeaseAssumption, ReservationsAssumption
<1>1. ASSUME NEW j \in Job, InsertJob(j) PROVE [Escrow!Next]_(Escrow!vars)
  <2>1. /\ PhaseOf(status[j]) = "none"
        /\ \A k \in Job : PhaseOf(status'[k]) =
             IF k = j THEN "held" ELSE PhaseOf(status[k])
    BY <1>1, PhaseValues DEF InsertJob, TypeOK
  <2>2. [k \in Job |-> PhaseOf(status'[k])] =
          [[k \in Job |-> PhaseOf(status[k])] EXCEPT ![j] = "held"]
    BY <2>1
  <2>3. /\ Consumer[j] \in User
        /\ reserved[Consumer[j]] = ReservedBy(LiveJobs, Consumer[j])
        /\ reserved[Consumer[j]] \in Nat /\ spendable[Consumer[j]] \in Nat
        /\ Cost(j) \in Nat
    BY DEF ReservationExact, TypeOK
  <2>4. ReservedBy(LiveJobs, Consumer[j]) + Cost(j) <= spendable[Consumer[j]]
    BY <1>1, <2>3 DEF InsertJob, Affordable
  <2>5. ReservedBy(Escrow!Held, Consumer[j]) + Cost(j) <= spendable[Consumer[j]]
    BY <2>4, HeldIsLive
  <2>6. Escrow!Hold(j)
    BY <1>1, <2>1, <2>2, <2>5 DEF Escrow!Hold, InsertJob
  <2>7. QED
    BY <2>6 DEF Escrow!Next
<1>2. ASSUME NEW seen, NEW R, NEW X, GetJob(seen, R, X)
      PROVE  [Escrow!Next]_(Escrow!vars)
  <2>1. R \cup X \in SUBSET LiveJobs
    BY <1>2 DEF GetJob, ExpiredTerminal, ExpiredFor, InvalidWaiting, LiveJobs
  <2>2. \A k \in Job : status'[k] = IF k \in R \cup X THEN "failed" ELSE status[k]
    BY <1>2 DEF GetJob, ReapedStatus
  <2>3. spendable' = spendable /\ reserve_balance' = reserve_balance
    BY <1>2 DEF GetJob
  <2> DEFINE S == R \cup X
  <2>4. \A k \in Job : IF k \in S
                         THEN status'[k] \in {"failed", "cancelled"}
                         ELSE PhaseOf(status'[k]) = PhaseOf(status[k])
    BY <2>2
  <2>5. S \in SUBSET LiveJobs
    BY <2>1
  <2> HIDE DEF S
  <2>6. QED
    BY <2>3, <2>4, <2>5, ReleaseReturns
<1>3. ASSUME NEW j \in Job, CancelTimedOutJob(j) PROVE [Escrow!Next]_(Escrow!vars)
  <2>1. {j} \in SUBSET LiveJobs
    BY <1>3 DEF CancelTimedOutJob, LiveJobs
  <2>2. \A k \in Job : status'[k] = IF k \in {j} THEN "cancelled" ELSE status[k]
    BY <1>3 DEF CancelTimedOutJob, TypeOK
  <2>3. spendable' = spendable /\ reserve_balance' = reserve_balance
    BY <1>3 DEF CancelTimedOutJob
  <2>4. QED
    BY <2>1, <2>2, <2>3, ReleaseReturns
<1>4. ASSUME NEW j \in Job, NEW i \in Instance, NEW seen, NEW R, NEW X,
             ClaimJob(j, i, seen, R, X)
      PROVE  [Escrow!Next]_(Escrow!vars)
  <2>1. R \cup X \in SUBSET LiveJobs
    BY <1>4 DEF ClaimJob, Candidate, ExpiredTerminal, ExpiredFor, InvalidWaiting, LiveJobs
  <2>2. j \in LiveJobs /\ j \notin R \cup X
    BY <1>4 DEF ClaimJob, Candidate, Claimable, ExpiredTerminal, ExpiredFor, LiveJobs,
       TypeOK
  <2>3. \A k \in Job : status'[k] =
          IF k = j THEN "leased" ELSE IF k \in R \cup X THEN "failed" ELSE status[k]
    BY <1>4 DEF ClaimJob, ReapedStatus
  <2>4. PhaseOf("leased") = "held" /\ PhaseOf(status[j]) = "held"
    BY <2>2, PhaseValues DEF LiveJobs
  <2>5. spendable' = spendable /\ reserve_balance' = reserve_balance
    BY <1>4 DEF ClaimJob
  <2> DEFINE S == R \cup X
  <2>6. \A k \in Job : IF k \in S
                         THEN status'[k] \in {"failed", "cancelled"}
                         ELSE PhaseOf(status'[k]) = PhaseOf(status[k])
    BY <2>2, <2>3, <2>4
  <2>7. S \in SUBSET LiveJobs
    BY <2>1
  <2> HIDE DEF S
  <2>8. QED
    BY <2>5, <2>6, <2>7, ReleaseReturns
<1>5. ASSUME NEW j \in Job, NEW i \in Instance, NEW seen, NEW R, NEW X,
              ClaimLosesInstance(j, i, seen, R, X)
       PROVE  [Escrow!Next]_(Escrow!vars)
  <2>1. R \cup X \in SUBSET LiveJobs
    BY <1>5 DEF ClaimLosesInstance, Candidate, ExpiredTerminal, ExpiredFor,
       InvalidWaiting, LiveJobs
  <2>2. \A k \in Job : status'[k] = IF k \in R \cup X THEN "failed" ELSE status[k]
    BY <1>5 DEF ClaimLosesInstance, ReapedStatus
  <2>3. spendable' = spendable /\ reserve_balance' = reserve_balance
    BY <1>5 DEF ClaimLosesInstance
  <2> DEFINE S == R \cup X
  <2>4. \A k \in Job : IF k \in S
                         THEN status'[k] \in {"failed", "cancelled"}
                         ELSE PhaseOf(status'[k]) = PhaseOf(status[k])
    BY <2>2
  <2>5. S \in SUBSET LiveJobs
    BY <2>1
  <2> HIDE DEF S
  <2>6. QED
    BY <2>3, <2>4, <2>5, ReleaseReturns
<1>6. ASSUME NEW j \in Job, NEW seen, RenewJob(j, seen)
      PROVE  [Escrow!Next]_(Escrow!vars)
  BY <1>6, QuietStutters DEF RenewJob, moneyVars
<1>7. ASSUME NEW j \in Job, FailRegulatedLease(j) PROVE [Escrow!Next]_(Escrow!vars)
  <2>1. {j} \in SUBSET LiveJobs
    BY <1>7 DEF FailRegulatedLease, LiveJobs
  <2>2. \A k \in Job : status'[k] = IF k \in {j} THEN "failed" ELSE status[k]
    BY <1>7 DEF FailRegulatedLease, TypeOK
  <2>3. spendable' = spendable /\ reserve_balance' = reserve_balance
    BY <1>7 DEF FailRegulatedLease
  <2>4. QED
    BY <2>1, <2>2, <2>3, ReleaseReturns
<1>8. ASSUME NEW j \in Job, NEW key \in Key, NEW tier \in Tier, NEW trust \in Trust,
             CompleteJob(j, key, tier, trust)
      PROVE  [Escrow!Next]_(Escrow!vars)
  <2> DEFINE d == UserDeduction(BaseCost[j], tier)
             q == NodeSpendableQuota(BaseCost[j], tier, trust)
             p == Owner[NodeOf[instance[j]]]
  <2>1. /\ BaseCost[j] \in Nat
        /\ tier \in PerformanceTier
        /\ trust \in TrustClass
    OBVIOUS
  <2>2. d \in 0 .. Cost(j) /\ q \in 0 .. d
    <3>1. d \in Nat /\ d <= Cost(j) /\ q \in Nat /\ q <= d /\ Cost(j) \in Nat
      BY <2>1, DeductionWithinReservation, ReserveNeverPays DEF Cost
    <3> HIDE DEF d, q
    <3>2. QED
      BY <3>1
  <2>3. p \in User
    BY <1>8 DEF CompleteJob, HoldsLease, TypeOK
  <2>4. /\ PhaseOf(status[j]) = "held"
        /\ \A k \in Job : PhaseOf(status'[k]) =
             IF k = j THEN "charged" ELSE PhaseOf(status[k])
    BY <1>8, PhaseValues DEF CompleteJob, HoldsLease, TypeOK
  <2>5. [k \in Job |-> PhaseOf(status'[k])] =
          [[k \in Job |-> PhaseOf(status[k])] EXCEPT ![j] = "charged"]
    BY <2>4
  <2>6. /\ spendable' = [[spendable EXCEPT ![Consumer[j]] = @ - d] EXCEPT ![p] = @ + q]
        /\ reserve_balance' = reserve_balance + (d - q)
    BY <1>8 DEF CompleteJob, ReserveInflow
  <2> HIDE DEF d, q, p
  <2>7. Escrow!Charge(j, p, d, q)
    BY <2>4, <2>5, <2>6 DEF Escrow!Charge
  <2>8. QED
    BY <2>2, <2>3, <2>7 DEF Escrow!Next
<1>9. ASSUME NEW j \in Job, NEW key \in Key, NEW retryable \in BOOLEAN,
             JobFail(j, key, retryable)
      PROVE  [Escrow!Next]_(Escrow!vars)
  <2>1. /\ status[j] = "leased" /\ status \in [Job -> Status]
        /\ spendable' = spendable /\ reserve_balance' = reserve_balance
    BY <1>9 DEF JobFail, HoldsLease, TypeOK
  <2>2. CASE status' = [status EXCEPT ![j] = "retry"]
    <3>1. PhaseOf("retry") = PhaseOf("leased")
      BY PhaseValues
    <3>2. QED
      BY <2>1, <2>2, <3>1, QuietStutters
  <2>3. CASE status' = [status EXCEPT ![j] = "failed"]
    <3>1. {j} \in SUBSET LiveJobs
      BY <2>1 DEF LiveJobs
    <3>2. \A k \in Job : status'[k] = IF k \in {j} THEN "failed" ELSE status[k]
      BY <2>1, <2>3
    <3>3. QED
      BY <2>1, <3>1, <3>2, ReleaseReturns
  <2>4. QED
    BY <1>9, <2>2, <2>3 DEF JobFail
<1>10. ASSUME \/ FleetNext \/ EnvironmentNext \/ UNCHANGED vars
      PROVE  [Escrow!Next]_(Escrow!vars)
  <2>1. /\ status' = status /\ spendable' = spendable
        /\ reserve_balance' = reserve_balance
    BY <1>10 DEF FleetNext, NodeHeartbeat, RegisterNode, PublishModel, UnpublishModel,
       EnvironmentNext, LeaseLapses, LeaseExpires, BackoffEnds, NodeFallsSilent,
       ReportChanges, SetQuarantine, vars, jobVars, moneyVars
  <2>2. QED
    BY <2>1, QuietStutters
<1>11. QED
  BY <1>1, <1>2, <1>3, <1>4, <1>6, <1>7, <1>8, <1>9, <1>10, <1>5
     DEF Next, ConsumerNext, CreateJob, CreateRegulatedJob, WorkerNext

\* The job table keeps the promise of JobEscrow for every instance of its
\* constants: a job's price is held once and then either charged, for at most
\* that price, or returned whole, whatever leases, retries, reapers,
\* cancellations and failures happen in between.
THEOREM JobLeaseImplementsEscrow == Spec => ImplementsEscrow
<1>1. Spec => [](TypeOK /\ ReservationExact /\ Solvent)
  BY TypeCorrect, ReservationsExact, AlwaysSolvent, PTL
<1>2. TypeOK /\ ReservationExact /\ Solvent /\ [Next]_vars
        => [Escrow!Next]_(Escrow!vars)
  BY EscrowNext
<1>3. QED
  BY <1>1, <1>2, EscrowInit, PTL DEF Spec, ImplementsEscrow, Escrow!Spec

-----------------------------------------------------------------------------
(***************************************************************************)
(* The attempt rows of a job against its jobs row, the finality of a job   *)
(* that has ended, the reports its attempts carry, the instance a          *)
(* regulated job is pinned to and the leases a node may run, for every     *)
(* value of the constants.                                                 *)
(*                                                                         *)
(* AttemptsMatchJob is not inductive: a claim appends attempt count + 1,   *)
(* which stays in range only because a waiting job has attempts left, and  *)
(* a report marks attempt count, which exists only because a leased job    *)
(* has had one.  AttemptHistory adds these facts.  It speaks of one job's  *)
(* columns, so each kind of step is one lemma about plain values.          *)
(***************************************************************************)
AttemptStatus == {"none", "leased", "succeeded", "failed", "expired"}

AttemptHistory(st, count, rows, max) ==
  /\ count \in 0 .. max
  /\ \A a \in 1 .. max :
       /\ rows[a] = "none" <=> a > count
       /\ rows[a] = "leased" => st = "leased" /\ a = count
       /\ st = "leased" /\ a = count => rows[a] \in {"leased", "expired"}
       /\ rows[a] = "succeeded" <=> st = "succeeded" /\ a = count
  /\ st = "none" => count = 0
  /\ st \in {"queued", "retry"} => count < max
  /\ st \in {"leased", "succeeded"} => count >= 1

Histories ==
  \A j \in Job : AttemptHistory(status[j], attempt_count[j], attempt_status[j],
                               MaxAttempts[j])

-----------------------------------------------------------------------------
\* claim_job: the previous attempt, if still leased, expires and one is added.
LEMMA HistoryClaimed ==
  ASSUME NEW max \in Nat \ {0}, NEW st \in {"queued", "retry", "leased"},
         NEW count \in Nat, NEW rows \in [1 .. max -> AttemptStatus],
         AttemptHistory(st, count, rows, max), count < max
  PROVE  AttemptHistory("leased", count + 1,
           [Closed(rows, count, "expired") EXCEPT ![count + 1] = "leased"], max)
  BY SMT DEF AttemptHistory, AttemptStatus, Closed

\* claim_job without its instance: the previous attempt alone expires.
LEMMA HistoryAbandoned ==
  ASSUME NEW max \in Nat \ {0}, NEW st \in {"queued", "retry", "leased"},
         NEW count \in Nat, NEW rows \in [1 .. max -> AttemptStatus],
         AttemptHistory(st, count, rows, max)
  PROVE  AttemptHistory(st, count, Closed(rows, count, "expired"), max)
  BY SMT DEF AttemptHistory, AttemptStatus, Closed

\* The lease ends without a result and its attempt, if still leased, is marked.
LEMMA HistoryClosed ==
  ASSUME NEW max \in Nat \ {0}, NEW count \in Nat,
         NEW rows \in [1 .. max -> AttemptStatus],
         AttemptHistory("leased", count, rows, max),
         NEW mark \in {"failed", "expired"}, NEW st,
         \/ st \in {"failed", "cancelled"}
         \/ st = "retry" /\ count < max
  PROVE  AttemptHistory(st, count, Closed(rows, count, mark), max)
  BY SMT DEF AttemptHistory, AttemptStatus, Closed

\* The lease ends with a result.
LEMMA HistorySettled ==
  ASSUME NEW max \in Nat \ {0}, NEW count \in Nat,
         NEW rows \in [1 .. max -> AttemptStatus],
         AttemptHistory("leased", count, rows, max)
  PROVE  AttemptHistory("succeeded", count, [rows EXCEPT ![count] = "succeeded"], max)
  BY SMT DEF AttemptHistory, AttemptStatus

\* reap_invalid_regulated_jobs: a waiting job fails with an attempt of its own.
LEMMA HistoryInvalidated ==
  ASSUME NEW max \in Nat \ {0}, NEW count \in Nat,
         NEW rows \in [1 .. max -> AttemptStatus],
         NEW st \in {"queued", "retry"}, AttemptHistory(st, count, rows, max)
  PROVE  AttemptHistory("failed", count + 1, [rows EXCEPT ![count + 1] = "failed"], max)
  BY SMT DEF AttemptHistory, AttemptStatus

\* A job is created, or cancelled while it waits: no attempt is touched.
LEMMA HistoryUntouched ==
  ASSUME NEW max \in Nat \ {0}, NEW count \in Nat, NEW rows, NEW st, NEW then,
         AttemptHistory(st, count, rows, max),
         \/ st = "none" /\ then = "queued"
         \/ st \in {"queued", "retry"} /\ then = "cancelled"
  PROVE  AttemptHistory(then, count, rows, max)
  BY SMT DEF AttemptHistory

\* What the two reapers leave of the jobs they end.
LEMMA HistoryReaped ==
  ASSUME TypeOK, Histories, NEW seen, NEW R, NEW X,
         R \subseteq ExpiredTerminal(seen), X \subseteq InvalidWaiting,
         NEW j \in Job
  PROVE  AttemptHistory(ReapedStatus(R, X)[j], ReapedCount(X)[j],
                        ReapedAttempts(R, X)[j], MaxAttempts[j])
<1> DEFINE H == AttemptHistory(ReapedStatus(R, X)[j], ReapedCount(X)[j],
                               ReapedAttempts(R, X)[j], MaxAttempts[j])
<1>1. /\ MaxAttempts[j] \in Nat \ {0}
      /\ attempt_count[j] \in Nat
      /\ attempt_status[j] \in [1 .. MaxAttempts[j] -> AttemptStatus]
      /\ AttemptHistory(status[j], attempt_count[j], attempt_status[j], MaxAttempts[j])
  BY JobLeaseAssumption DEF TypeOK, AttemptStatus, Histories
<1>2. CASE j \in R
  <2>1. status[j] = "leased" /\ j \notin X
    BY <1>2 DEF ExpiredTerminal, ExpiredFor, InvalidWaiting
  <2>2. /\ ReapedStatus(R, X)[j] = "failed"
        /\ ReapedCount(X)[j] = attempt_count[j]
        /\ ReapedAttempts(R, X)[j]
             = Closed(attempt_status[j], attempt_count[j], "expired")
    BY <1>2, <2>1 DEF ReapedStatus, ReapedCount, ReapedAttempts
  <2>3. AttemptHistory("failed", attempt_count[j],
          Closed(attempt_status[j], attempt_count[j], "expired"), MaxAttempts[j])
    BY <1>1, <2>1, HistoryClosed
  <2>4. QED
    BY <2>2, <2>3
<1>3. CASE j \in X /\ j \notin R
  <2>1. status[j] \in {"queued", "retry"}
    BY <1>3 DEF InvalidWaiting
  <2>2. /\ ReapedStatus(R, X)[j] = "failed"
        /\ ReapedCount(X)[j] = attempt_count[j] + 1
        /\ ReapedAttempts(R, X)[j]
             = [attempt_status[j] EXCEPT ![attempt_count[j] + 1] = "failed"]
    BY <1>3 DEF ReapedStatus, ReapedCount, ReapedAttempts
  <2>3. AttemptHistory("failed", attempt_count[j] + 1,
          [attempt_status[j] EXCEPT ![attempt_count[j] + 1] = "failed"], MaxAttempts[j])
    BY <1>1, <2>1, HistoryInvalidated
  <2>4. QED
    BY <2>2, <2>3
<1>4. CASE j \notin R /\ j \notin X
  <2>1. /\ ReapedStatus(R, X)[j] = status[j]
        /\ ReapedCount(X)[j] = attempt_count[j]
        /\ ReapedAttempts(R, X)[j] = attempt_status[j]
    BY <1>4 DEF ReapedStatus, ReapedCount, ReapedAttempts
  <2>2. QED
    BY <1>1, <2>1
<1>5. QED
  BY <1>2, <1>3, <1>4

-----------------------------------------------------------------------------
\* At the start no job has an attempt.
LEMMA HistoriesInit == Init => Histories
  BY JobLeaseAssumption DEF Init, Histories, AttemptHistory

\* Every step keeps the history of every job.
LEMMA HistoriesNext == TypeOK /\ Histories /\ [Next]_vars => Histories'
<1> SUFFICES ASSUME TypeOK, Histories, [Next]_vars,
                    NEW k \in Job
             PROVE  AttemptHistory(status'[k], attempt_count'[k], attempt_status'[k],
                                   MaxAttempts[k])
  BY DEF Histories
<1> DEFINE Kept == AttemptHistory(status'[k], attempt_count'[k], attempt_status'[k],
                                  MaxAttempts[k])
<1>0. /\ MaxAttempts[k] \in Nat \ {0}
      /\ attempt_count[k] \in Nat
      /\ attempt_status[k] \in [1 .. MaxAttempts[k] -> AttemptStatus]
      /\ AttemptHistory(status[k], attempt_count[k], attempt_status[k], MaxAttempts[k])
      /\ status \in [Job -> Status] /\ attempt_count \in [Job -> Nat]
      /\ DOMAIN attempt_status = Job
  BY JobLeaseAssumption DEF TypeOK, AttemptStatus, Histories
<1>1. ASSUME NEW j \in Job, InsertJob(j) PROVE Kept
  <2>1. /\ attempt_count' = attempt_count /\ attempt_status' = attempt_status
        /\ status' = [status EXCEPT ![j] = "queued"] /\ status[j] = "none"
    BY <1>1 DEF InsertJob, attemptVars
  <2>2. CASE k = j
    <3>1. status'[k] = "queued" /\ status[k] = "none"
      BY <1>0, <2>1, <2>2
    <3>2. QED
      BY <1>0, <2>1, <3>1, HistoryUntouched
  <2>3. CASE k # j
    <3>1. status'[k] = status[k]
      BY <1>0, <2>1, <2>3
    <3>2. QED
      BY <1>0, <2>1, <3>1
  <2>4. QED
    BY <2>2, <2>3
<1>2. ASSUME NEW seen, NEW R, NEW X, GetJob(seen, R, X) PROVE Kept
  BY <1>2, HistoryReaped DEF GetJob
<1>3. ASSUME NEW j \in Job, NEW mark, NEW st,
             status[j] = "leased", attempt_count' = attempt_count,
             status' = [status EXCEPT ![j] = st],
             attempt_status' =
               [attempt_status EXCEPT ![j] = Closed(@, attempt_count[j], mark)],
             mark \in {"failed", "expired"},
             \/ st \in {"failed", "cancelled"}
             \/ st = "retry" /\ attempt_count[j] < MaxAttempts[j]
      PROVE  Kept
  <2>1. CASE k = j
    <3>1. /\ status'[k] = st /\ attempt_count'[k] = attempt_count[k]
          /\ attempt_status'[k] = Closed(attempt_status[k], attempt_count[k], mark)
      BY <1>0, <1>3, <2>1
    <3>2. AttemptHistory(st, attempt_count[k],
            Closed(attempt_status[k], attempt_count[k], mark), MaxAttempts[k])
      BY <1>0, <1>3, <2>1, HistoryClosed
    <3>3. QED
      BY <3>1, <3>2
  <2>2. CASE k # j
    <3>1. /\ status'[k] = status[k] /\ attempt_count'[k] = attempt_count[k]
          /\ attempt_status'[k] = attempt_status[k]
      BY <1>0, <1>3, <2>2
    <3>2. QED
      BY <1>0, <3>1
  <2>3. QED
    BY <2>1, <2>2
<1>4. ASSUME NEW j \in Job, CancelTimedOutJob(j) PROVE Kept
  <2>1. CASE status[j] = "leased"
    <3>1. /\ attempt_count' = attempt_count
          /\ status' = [status EXCEPT ![j] = "cancelled"]
          /\ attempt_status' =
               [attempt_status EXCEPT ![j] = Closed(@, attempt_count[j], "failed")]
      BY <1>4, <2>1 DEF CancelTimedOutJob
    <3>2. QED
      BY <1>3, <2>1, <3>1
  <2>2. CASE status[j] # "leased"
    <3>1. /\ status[j] \in {"queued", "retry"}
          /\ attempt_count' = attempt_count /\ attempt_status' = attempt_status
          /\ status' = [status EXCEPT ![j] = "cancelled"]
      BY <1>4, <2>2 DEF CancelTimedOutJob, LiveStatus
    <3>2. CASE k = j
      <4>1. status'[k] = "cancelled" /\ status[k] \in {"queued", "retry"}
        BY <1>0, <3>1, <3>2
      <4>2. QED
        BY <1>0, <3>1, <4>1, HistoryUntouched
    <3>3. CASE k # j
      <4>1. status'[k] = status[k]
        BY <1>0, <3>1, <3>3
      <4>2. QED
        BY <1>0, <3>1, <4>1
    <3>4. QED
      BY <3>2, <3>3
  <2>3. QED
    BY <2>1, <2>2
<1>5. ASSUME NEW j \in Job, NEW i \in Instance, NEW seen, NEW R, NEW X,
             ClaimJob(j, i, seen, R, X)
      PROVE  Kept
  <2>1. R \in SUBSET Job /\ X \in SUBSET Job
    BY <1>5, JobLeaseAssumption DEF ClaimJob, Candidate, ExpiredTerminal, InvalidWaiting
  <2>2. /\ DOMAIN ReapedAttempts(R, X) = Job
        /\ ReapedStatus(R, X) \in [Job -> Status]
        /\ ReapedCount(X) \in [Job -> Nat]
    BY <2>1, ReapedType
  <2>3. CASE k # j
    <3>1. /\ status'[k] = ReapedStatus(R, X)[k]
          /\ attempt_count'[k] = ReapedCount(X)[k]
          /\ attempt_status'[k] = ReapedAttempts(R, X)[k]
      <4>1. status'[k] = ReapedStatus(R, X)[k] /\ attempt_count'[k] = ReapedCount(X)[k]
        BY <1>5, <2>2, <2>3 DEF ClaimJob
      <4>2. attempt_status'[k] = ReapedAttempts(R, X)[k]
        BY <1>5, <2>2, <2>3 DEF ClaimJob
      <4>3. QED
        BY <4>1, <4>2
    <3>2. AttemptHistory(ReapedStatus(R, X)[k], ReapedCount(X)[k],
                         ReapedAttempts(R, X)[k], MaxAttempts[k])
      BY <1>5, HistoryReaped DEF ClaimJob, Candidate
    <3>3. QED
      BY <3>1, <3>2
  <2>4. CASE k = j
    <3>1. /\ status[k] \in {"queued", "retry", "leased"}
          /\ attempt_count[k] < MaxAttempts[k]
      BY <1>5, <2>4 DEF ClaimJob, Candidate, Claimable, ExpiredFor
    <3>2. k \notin R /\ k \notin X
      <4>1. attempt_count[k] \in Nat /\ MaxAttempts[k] \in Nat
        BY <1>0
      <4>2. k \in R => attempt_count[k] >= MaxAttempts[k]
        BY <1>5 DEF ClaimJob, Candidate, ExpiredTerminal
      <4>3. QED
        BY <1>5, <2>4, <3>1, <4>1, <4>2 DEF ClaimJob, Candidate
    <3>3. /\ ReapedCount(X)[k] = attempt_count[k]
          /\ ReapedAttempts(R, X)[k] = attempt_status[k]
      BY <3>2 DEF ReapedCount, ReapedAttempts
    <3>4. status'[k] = "leased" /\ attempt_count'[k] = attempt_count[k] + 1
      BY <1>5, <2>2, <2>4, <3>3 DEF ClaimJob
    <3>5. attempt_status'[k] =
            [Closed(attempt_status[k], attempt_count[k], "expired")
               EXCEPT ![attempt_count[k] + 1] = "leased"]
      <4> DEFINE A == ReapedAttempts(R, X)
      <4>1. DOMAIN A = Job /\ A[k] = attempt_status[k]
        BY <2>2, <3>3
      <4>2. attempt_status' =
              [A EXCEPT ![j] = [Closed(A[j], attempt_count[j], "expired")
                                  EXCEPT ![attempt_count[j] + 1] = "leased"]]
        BY <1>5, <4>1 DEF ClaimJob
      <4> HIDE DEF A
      <4>3. QED
        BY <2>4, <4>1, <4>2
    <3>6. AttemptHistory("leased", attempt_count[k] + 1,
            [Closed(attempt_status[k], attempt_count[k], "expired")
               EXCEPT ![attempt_count[k] + 1] = "leased"], MaxAttempts[k])
      BY <1>0, <3>1, HistoryClaimed
    <3>7. QED
      BY <3>4, <3>5, <3>6
  <2>5. QED
    BY <2>3, <2>4
<1>6. ASSUME NEW j \in Job, NEW i \in Instance, NEW seen, NEW R, NEW X,
              ClaimLosesInstance(j, i, seen, R, X)
       PROVE  Kept
  <2>1. /\ status'[k] = ReapedStatus(R, X)[k]
        /\ attempt_count'[k] = ReapedCount(X)[k]
    BY <1>6 DEF ClaimLosesInstance
  <2>2. AttemptHistory(ReapedStatus(R, X)[k], ReapedCount(X)[k],
                       ReapedAttempts(R, X)[k], MaxAttempts[k])
    BY <1>6, HistoryReaped DEF ClaimLosesInstance, Candidate
  <2>3. CASE k # j
    <3>1. attempt_status'[k] = ReapedAttempts(R, X)[k]
      BY <1>6, <2>3 DEF ClaimLosesInstance, ReapedAttempts
    <3>2. QED
      BY <2>1, <2>2, <3>1
  <2>4. CASE k = j
    <3>1. /\ status[k] \in {"queued", "retry", "leased"}
          /\ attempt_count[k] < MaxAttempts[k]
      BY <1>6, <2>4 DEF ClaimLosesInstance, Candidate, Claimable, ExpiredFor
    <3>2. k \notin R /\ k \notin X
      <4>1. attempt_count[k] \in Nat /\ MaxAttempts[k] \in Nat
        BY <1>0
      <4>2. k \in R => attempt_count[k] >= MaxAttempts[k]
        BY <1>6 DEF ClaimLosesInstance, Candidate, ExpiredTerminal
      <4>3. QED
        BY <1>6, <2>4, <3>1, <4>1, <4>2 DEF ClaimLosesInstance, Candidate
    <3>3. /\ ReapedStatus(R, X)[k] = status[k]
          /\ ReapedCount(X)[k] = attempt_count[k]
          /\ ReapedAttempts(R, X)[k] = attempt_status[k]
      BY <3>2 DEF ReapedStatus, ReapedCount, ReapedAttempts
    <3>4. attempt_status'[k] = Closed(attempt_status[k], attempt_count[k], "expired")
      <4> DEFINE A == ReapedAttempts(R, X)
      <4>1. DOMAIN A = Job /\ A[k] = attempt_status[k]
        BY <3>3 DEF ReapedAttempts
      <4>2. attempt_status' =
              [A EXCEPT ![j] = Closed(A[j], attempt_count[j], "expired")]
        BY <1>6, <4>1 DEF ClaimLosesInstance
      <4> HIDE DEF A
      <4>3. QED
        BY <2>4, <4>1, <4>2
    <3>5. AttemptHistory(status[k], attempt_count[k],
            Closed(attempt_status[k], attempt_count[k], "expired"), MaxAttempts[k])
      BY <1>0, <3>1, HistoryAbandoned
    <3>6. QED
      BY <2>1, <3>3, <3>4, <3>5
  <2>5. QED
    BY <2>3, <2>4
<1>7. ASSUME NEW j \in Job, FailRegulatedLease(j) PROVE Kept
  <2>1. /\ status[j] = "leased" /\ attempt_count' = attempt_count
        /\ status' = [status EXCEPT ![j] = "failed"]
        /\ attempt_status' =
             [attempt_status EXCEPT ![j] = Closed(@, attempt_count[j], "failed")]
    BY <1>7 DEF FailRegulatedLease
  <2>2. QED
    BY <1>3, <2>1
<1>8. ASSUME NEW j \in Job, NEW key \in Key, NEW tier \in Tier, NEW trust \in Trust,
             CompleteJob(j, key, tier, trust)
      PROVE  Kept
  <2>1. /\ status[j] = "leased" /\ attempt_count' = attempt_count
        /\ status' = [status EXCEPT ![j] = "succeeded"]
        /\ attempt_status' = [attempt_status EXCEPT ![j][attempt_count[j]] = "succeeded"]
    BY <1>8 DEF CompleteJob, HoldsLease
  <2>2. CASE k = j
    <3>1. /\ status'[k] = "succeeded" /\ attempt_count'[k] = attempt_count[k]
          /\ attempt_status'[k]
               = [attempt_status[k] EXCEPT ![attempt_count[k]] = "succeeded"]
      BY <1>0, <2>1, <2>2
    <3>2. AttemptHistory("succeeded", attempt_count[k],
            [attempt_status[k] EXCEPT ![attempt_count[k]] = "succeeded"], MaxAttempts[k])
      BY <1>0, <2>1, <2>2, HistorySettled
    <3>3. QED
      BY <3>1, <3>2
  <2>3. CASE k # j
    <3>1. /\ status'[k] = status[k] /\ attempt_count'[k] = attempt_count[k]
          /\ attempt_status'[k] = attempt_status[k]
      BY <1>0, <2>1, <2>3
    <3>2. QED
      BY <1>0, <3>1
  <2>4. QED
    BY <2>2, <2>3
<1>9. ASSUME NEW j \in Job, NEW key \in Key, NEW retryable \in BOOLEAN,
             JobFail(j, key, retryable)
      PROVE  Kept
  <2>1. /\ status[j] = "leased" /\ attempt_count' = attempt_count
        /\ attempt_status' =
             [attempt_status EXCEPT ![j] = Closed(@, attempt_count[j], "failed")]
    BY <1>9 DEF JobFail, HoldsLease
  <2>2. CASE retryable /\ attempt_count[j] < MaxAttempts[j]
    <3>1. status' = [status EXCEPT ![j] = "retry"]
      BY <1>9, <2>2 DEF JobFail
    <3>2. QED
      BY <1>3, <2>1, <2>2, <3>1
  <2>3. CASE ~ (retryable /\ attempt_count[j] < MaxAttempts[j])
    <3>1. status' = [status EXCEPT ![j] = "failed"]
      BY <1>9, <2>3 DEF JobFail
    <3>2. QED
      BY <1>3, <2>1, <3>1
  <2>4. QED
    BY <2>2, <2>3
<1>10. ASSUME UNCHANGED <<status, attempt_count, attempt_status>> PROVE Kept
  BY <1>0, <1>10
<1>11. ASSUME NEW j \in Job, NEW seen, RenewJob(j, seen) PROVE Kept
  BY <1>10, <1>11 DEF RenewJob, attemptVars
<1>12. ASSUME FleetNext PROVE Kept
  BY <1>10, <1>12 DEF FleetNext, NodeHeartbeat, RegisterNode, PublishModel,
     UnpublishModel, jobVars, attemptVars
<1>13. ASSUME EnvironmentNext PROVE Kept
  BY <1>10, <1>13 DEF EnvironmentNext, LeaseLapses, LeaseExpires, BackoffEnds,
     NodeFallsSilent, ReportChanges, SetQuarantine, jobVars, attemptVars
<1>14. CASE UNCHANGED vars
  BY <1>10, <1>14 DEF vars, jobVars, attemptVars
<1>15. QED
  BY <1>1, <1>2, <1>4, <1>5, <1>7, <1>8, <1>9, <1>11, <1>12, <1>13, <1>14, <1>6,
     JobLeaseAssumption DEF Next, ConsumerNext, CreateJob, CreateRegulatedJob, WorkerNext

\* Attempt rows and job row never disagree: whichever of claims, reports,
\* reapers and cancellations wrote them, exactly the attempts up to
\* attempt_count exist, at most max_attempts of them, and only the last is
\* leased or succeeded, when the job is.
THEOREM AttemptsAlwaysMatch == Spec => []AttemptsMatchJob
<1>1. Histories => AttemptsMatchJob
  BY JobLeaseAssumption DEF Histories, AttemptHistory, AttemptsMatchJob
<1>2. QED
  BY <1>1, HistoriesInit, HistoriesNext, TypeInit, TypeNext, PTL DEF Spec

-----------------------------------------------------------------------------
\* No step touches a job that has ended.
LEMMA EndedIsKept ==
  ASSUME TypeOK, [Next]_vars, NEW k \in Job, status[k] \in Terminal
  PROVE  UNCHANGED <<status[k], attempt_count[k], attempt_status[k],
                     attempt_key[k], receipt[k]>>
<1> DEFINE Kept == UNCHANGED <<status[k], attempt_count[k], attempt_status[k],
                               attempt_key[k], receipt[k]>>
<1> USE DEF Terminal
<1>0. /\ status \in [Job -> Status] /\ attempt_count \in [Job -> Nat]
      /\ DOMAIN attempt_status = Job /\ DOMAIN attempt_key = Job
      /\ DOMAIN receipt = Job
  BY DEF TypeOK
<1>1. ASSUME NEW seen, NEW R, NEW X,
             R \subseteq ExpiredTerminal(seen), X \subseteq InvalidWaiting
      PROVE  /\ ReapedStatus(R, X)[k] = status[k]
             /\ ReapedCount(X)[k] = attempt_count[k]
             /\ ReapedAttempts(R, X)[k] = attempt_status[k]
  <2>1. k \notin R /\ k \notin X
    BY <1>1 DEF ExpiredTerminal, ExpiredFor, InvalidWaiting
  <2>2. QED
    BY <2>1 DEF ReapedStatus, ReapedCount, ReapedAttempts
<1>2. ASSUME NEW j \in Job, InsertJob(j) PROVE Kept
  <2>1. k # j
    BY <1>2 DEF InsertJob
  <2>2. QED
    BY <1>0, <1>2, <2>1 DEF InsertJob, attemptVars
<1>3. ASSUME NEW seen, NEW R, NEW X, GetJob(seen, R, X) PROVE Kept
  BY <1>1, <1>3 DEF GetJob
<1>4. ASSUME NEW j \in Job, CancelTimedOutJob(j) PROVE Kept
  <2>1. k # j
    BY <1>4 DEF CancelTimedOutJob, LiveStatus
  <2>2. QED
    BY <1>0, <1>4, <2>1 DEF CancelTimedOutJob
<1>5. ASSUME NEW j \in Job, NEW i \in Instance, NEW seen, NEW R, NEW X,
             ClaimJob(j, i, seen, R, X)
      PROVE  Kept
  <2>1. k # j
    BY <1>5 DEF ClaimJob, Candidate, Claimable, ExpiredFor
  <2>2. R \in SUBSET Job /\ X \in SUBSET Job
    BY <1>5, JobLeaseAssumption DEF ClaimJob, Candidate, ExpiredTerminal, InvalidWaiting
  <2>3. /\ DOMAIN ReapedAttempts(R, X) = Job
        /\ ReapedStatus(R, X) \in [Job -> Status]
        /\ ReapedCount(X) \in [Job -> Nat]
    BY <2>2, ReapedType
  <2>4. /\ status'[k] = ReapedStatus(R, X)[k]
        /\ attempt_count'[k] = ReapedCount(X)[k]
    BY <1>5, <2>1, <2>3 DEF ClaimJob
  <2>5. attempt_status'[k] = ReapedAttempts(R, X)[k]
    BY <1>5, <2>1, <2>3 DEF ClaimJob
  <2>6. attempt_key'[k] = attempt_key[k] /\ receipt'[k] = receipt[k]
    BY <1>5 DEF ClaimJob
  <2>7. QED
    BY <1>1, <1>5, <2>4, <2>5, <2>6 DEF ClaimJob, Candidate
<1>6. ASSUME NEW j \in Job, NEW i \in Instance, NEW seen, NEW R, NEW X,
              ClaimLosesInstance(j, i, seen, R, X)
       PROVE  Kept
  <2>1. k # j
    BY <1>6 DEF ClaimLosesInstance, Candidate, Claimable, ExpiredFor
  <2>2. /\ status'[k] = ReapedStatus(R, X)[k]
        /\ attempt_count'[k] = ReapedCount(X)[k]
    BY <1>6 DEF ClaimLosesInstance
  <2>3. attempt_status'[k] = ReapedAttempts(R, X)[k]
    BY <1>6, <2>1 DEF ClaimLosesInstance, ReapedAttempts
  <2>4. attempt_key'[k] = attempt_key[k] /\ receipt'[k] = receipt[k]
    BY <1>6 DEF ClaimLosesInstance
  <2>5. QED
    BY <1>1, <1>6, <2>2, <2>3, <2>4 DEF ClaimLosesInstance, Candidate
<1>7. ASSUME NEW j \in Job, FailRegulatedLease(j) PROVE Kept
  BY <1>0, <1>7 DEF FailRegulatedLease
<1>8. ASSUME NEW j \in Job, NEW key \in Key, NEW tier \in Tier, NEW trust \in Trust,
             CompleteJob(j, key, tier, trust)
      PROVE  Kept
  <2>1. k # j
    BY <1>8 DEF CompleteJob, HoldsLease
  <2>2. QED
    BY <1>0, <1>8, <2>1 DEF CompleteJob
<1>9. ASSUME NEW j \in Job, NEW key \in Key, NEW retryable \in BOOLEAN,
             JobFail(j, key, retryable)
      PROVE  Kept
  <2>1. k # j
    BY <1>9 DEF JobFail, HoldsLease
  <2>2. status'[k] = status[k]
    BY <1>0, <1>9, <2>1 DEF JobFail
  <2>3. QED
    BY <1>0, <1>9, <2>1, <2>2 DEF JobFail
<1>10. ASSUME UNCHANGED <<status, attempt_count, attemptVars, receipt>> PROVE Kept
  BY <1>10 DEF attemptVars
<1>11. ASSUME NEW j \in Job, NEW seen, RenewJob(j, seen) PROVE Kept
  BY <1>10, <1>11 DEF RenewJob, moneyVars
<1>12. ASSUME FleetNext PROVE Kept
  BY <1>10, <1>12 DEF FleetNext, NodeHeartbeat, RegisterNode, PublishModel,
     UnpublishModel, jobVars, moneyVars
<1>13. ASSUME EnvironmentNext PROVE Kept
  BY <1>10, <1>13 DEF EnvironmentNext, LeaseLapses, LeaseExpires, BackoffEnds,
     NodeFallsSilent, ReportChanges, SetQuarantine, jobVars, moneyVars
<1>14. CASE UNCHANGED vars
  BY <1>10, <1>14 DEF vars, jobVars, moneyVars
<1>15. QED
  BY <1>2, <1>3, <1>4, <1>5, <1>7, <1>8, <1>9, <1>11, <1>12, <1>13, <1>14, <1>6,
     JobLeaseAssumption DEF Next, ConsumerNext, CreateJob, CreateRegulatedJob, WorkerNext

\* A late result, a late failure report, a reaper or a cancellation that loses
\* the race for a job changes neither how the job ended nor its attempts nor
\* its receipt.
THEOREM EndedJobsAreFinal == Spec => TerminalIsFinal
<1>1. TypeOK /\ [Next]_vars =>
        [\A j \in Job : status[j] \in Terminal =>
           UNCHANGED <<status[j], attempt_count[j], attempt_status[j],
                       attempt_key[j], receipt[j]>>]_vars
  BY EndedIsKept
<1>2. QED
  BY <1>1, TypeInit, TypeNext, PTL DEF Spec, TerminalIsFinal

-----------------------------------------------------------------------------
(***************************************************************************)
(* Reports.  With TypeOK, ReportAppliedOnce is inductive: a handler writes *)
(* a key only after it found it on no attempt of the job.                  *)
(***************************************************************************)

\* One report of one job, with a key that no attempt of it carries.
LEMMA FreshKeyOnce ==
  ASSUME NEW max, NEW rows \in [1 .. max -> Key \cup {None}], NEW count, NEW key \in Key,
         \A a \in DOMAIN rows : rows[a] # key,
         \A a, b \in 1 .. max : rows[a] # None /\ rows[a] = rows[b] => a = b
  PROVE  LET new == [rows EXCEPT ![count] = key]
         IN  \A a, b \in 1 .. max : new[a] # None /\ new[a] = new[b] => a = b
  OBVIOUS

\* Every step keeps the keys of a job's attempts apart.
LEMMA ReportNext == TypeOK /\ ReportAppliedOnce /\ [Next]_vars => ReportAppliedOnce'
<1> SUFFICES ASSUME TypeOK, ReportAppliedOnce, [Next]_vars PROVE ReportAppliedOnce'
  OBVIOUS
<1>1. ASSUME attempt_key' = attempt_key PROVE ReportAppliedOnce'
  BY <1>1 DEF ReportAppliedOnce
<1>2. ASSUME NEW j \in Job, NEW key \in Key, FreshReport(j, key),
             attempt_key' = [attempt_key EXCEPT ![j][attempt_count[j]] = key]
      PROVE  ReportAppliedOnce'
  <2> SUFFICES ASSUME NEW k \in Job
               PROVE  \A a, b \in 1 .. MaxAttempts[k] :
                        attempt_key'[k][a] # None /\ attempt_key'[k][a] = attempt_key'[k][b]
                          => a = b
    BY DEF ReportAppliedOnce
  <2>1. /\ DOMAIN attempt_key = Job
        /\ attempt_key[k] \in [1 .. MaxAttempts[k] -> Key \cup {None}]
        /\ \A a, b \in 1 .. MaxAttempts[k] :
             attempt_key[k][a] # None /\ attempt_key[k][a] = attempt_key[k][b] => a = b
    BY DEF TypeOK, ReportAppliedOnce
  <2>2. CASE k # j
    BY <1>2, <2>1, <2>2
  <2>3. CASE k = j
    <3>1. attempt_key'[k] = [attempt_key[k] EXCEPT ![attempt_count[k]] = key]
      BY <1>2, <2>1, <2>3
    <3>2. \A a \in DOMAIN attempt_key[k] : attempt_key[k][a] # key
      BY <1>2, <2>3 DEF FreshReport
    <3>3. QED
      BY <2>1, <3>1, <3>2, FreshKeyOnce
  <2>4. QED
    BY <2>2, <2>3
<1>3. ASSUME NEW j \in Job, NEW key \in Key, NEW tier \in Tier, NEW trust \in Trust,
             CompleteJob(j, key, tier, trust)
      PROVE  ReportAppliedOnce'
  BY <1>2, <1>3 DEF CompleteJob
<1>4. ASSUME NEW j \in Job, NEW key \in Key, NEW retryable \in BOOLEAN,
             JobFail(j, key, retryable)
      PROVE  ReportAppliedOnce'
  BY <1>1, <1>2, <1>4 DEF JobFail
<1>5. ASSUME ConsumerNext PROVE ReportAppliedOnce'
  BY <1>1, <1>5 DEF ConsumerNext, CreateJob, CreateRegulatedJob, InsertJob, GetJob,
     CancelTimedOutJob, attemptVars
<1>6. ASSUME FleetNext \/ EnvironmentNext \/ UNCHANGED vars PROVE ReportAppliedOnce'
  BY <1>1, <1>6 DEF FleetNext, NodeHeartbeat, RegisterNode, PublishModel, UnpublishModel,
     EnvironmentNext, LeaseLapses, LeaseExpires, BackoffEnds, NodeFallsSilent,
     ReportChanges, SetQuarantine, vars, attemptVars
<1>7. ASSUME NEW j \in Job, NEW i \in Instance, NEW seen, NEW R, NEW X,
             ClaimJob(j, i, seen, R, X) \/ ClaimLosesInstance(j, i, seen, R, X)
      PROVE  ReportAppliedOnce'
  BY <1>1, <1>7 DEF ClaimJob, ClaimLosesInstance
<1>8. ASSUME NEW j \in Job, NEW seen, RenewJob(j, seen) \/ FailRegulatedLease(j)
      PROVE  ReportAppliedOnce'
  BY <1>1, <1>8 DEF RenewJob, FailRegulatedLease, attemptVars
<1>9. QED
  BY <1>3, <1>4, <1>5, <1>6, <1>7, <1>8 DEF Next, WorkerNext

\* However often a worker delivers a report, and whichever attempt is current
\* when it arrives, result_idempotency_key lets it count for one attempt of the
\* job at most.
THEOREM ReportsAppliedOnce == Spec => []ReportAppliedOnce
<1>1. Init => ReportAppliedOnce
  BY DEF Init, ReportAppliedOnce
<1>2. QED
  BY <1>1, ReportNext, TypeInit, TypeNext, PTL DEF Spec

-----------------------------------------------------------------------------
(***************************************************************************)
(* Pins                                                                    *)
(***************************************************************************)

\* No step moves a live regulated job to another instance.
LEMMA PinNext == TypeOK /\ RegulatedStaysPinned /\ [Next]_vars => RegulatedStaysPinned'
<1> SUFFICES ASSUME TypeOK, RegulatedStaysPinned, [Next]_vars,
                    NEW k \in Regulated, status'[k] \in LiveStatus
             PROVE  instance'[k] = Pin[k]
  BY DEF RegulatedStaysPinned
<1> USE DEF LiveStatus
<1>0. /\ k \in Job /\ DOMAIN status = Job /\ DOMAIN instance = Job
      /\ status[k] \in LiveStatus => instance[k] = Pin[k]
  BY JobLeaseAssumption DEF TypeOK, RegulatedStaysPinned
<1>1. ASSUME NEW j \in Job, InsertJob(j) PROVE instance'[k] = Pin[k]
  <2>1. CASE k = j
    BY <1>0, <1>1, <2>1 DEF InsertJob
  <2>2. CASE k # j
    BY <1>0, <1>1, <2>2 DEF InsertJob
  <2>3. QED
    BY <2>1, <2>2
<1>2. ASSUME instance'[k] = instance[k], status'[k] \in LiveStatus => status[k] \in LiveStatus
      PROVE  instance'[k] = Pin[k]
  BY <1>0, <1>2
<1>3. ASSUME NEW seen, NEW R, NEW X, GetJob(seen, R, X) PROVE instance'[k] = Pin[k]
  BY <1>0, <1>2, <1>3 DEF GetJob, ReapedStatus
<1>4. ASSUME NEW j \in Job, CancelTimedOutJob(j) PROVE instance'[k] = Pin[k]
  BY <1>0, <1>2, <1>4 DEF CancelTimedOutJob
<1>5. ASSUME NEW j \in Job, NEW i \in Instance, NEW seen, NEW R, NEW X,
             ClaimJob(j, i, seen, R, X)
      PROVE  instance'[k] = Pin[k]
  <2>1. CASE k = j
    <3>1. instance[k] = i /\ status[k] \in LiveStatus
      BY <1>5, <2>1 DEF ClaimJob, Candidate, RouteAllows, Claimable, ExpiredFor
    <3>2. instance'[k] = i
      BY <1>0, <1>5, <2>1 DEF ClaimJob
    <3>3. QED
      BY <1>0, <3>1, <3>2
  <2>2. CASE k # j
    <3>1. instance'[k] = instance[k] /\ status'[k] = ReapedStatus(R, X)[k]
      BY <1>0, <1>5, <2>2 DEF ClaimJob, ReapedStatus
    <3>2. QED
      BY <1>0, <1>2, <3>1 DEF ReapedStatus
  <2>3. QED
    BY <2>1, <2>2
<1>6. ASSUME NEW j \in Job, NEW i \in Instance, NEW seen, NEW R, NEW X,
             ClaimLosesInstance(j, i, seen, R, X)
      PROVE  instance'[k] = Pin[k]
  BY <1>0, <1>2, <1>6 DEF ClaimLosesInstance, ReapedStatus
<1>7. ASSUME NEW j \in Job, FailRegulatedLease(j) PROVE instance'[k] = Pin[k]
  BY <1>0, <1>2, <1>7 DEF FailRegulatedLease
<1>8. ASSUME NEW j \in Job, NEW key \in Key, NEW tier \in Tier, NEW trust \in Trust,
             CompleteJob(j, key, tier, trust)
      PROVE  instance'[k] = Pin[k]
  <2>1. instance' = instance /\ status' = [status EXCEPT ![j] = "succeeded"]
    BY <1>8 DEF CompleteJob
  <2>2. QED
    BY <1>0, <1>2, <2>1
<1>9. ASSUME NEW j \in Job, NEW key \in Key, NEW retryable \in BOOLEAN,
             JobFail(j, key, retryable)
      PROVE  instance'[k] = Pin[k]
  <2>1. instance'[k] = instance[k]
    <3>1. CASE retryable /\ attempt_count[j] < MaxAttempts[j]
      BY <1>0, <1>9, <3>1 DEF JobFail
    <3>2. CASE ~ (retryable /\ attempt_count[j] < MaxAttempts[j])
      BY <1>9, <3>2 DEF JobFail
    <3>3. QED
      BY <3>1, <3>2
  <2>2. status'[k] \in LiveStatus => status[k] \in LiveStatus
    BY <1>0, <1>9 DEF JobFail, HoldsLease
  <2>3. QED
    BY <1>2, <2>1, <2>2
<1>10. ASSUME UNCHANGED <<status, instance>> PROVE instance'[k] = Pin[k]
  BY <1>2, <1>10
<1>11. ASSUME FleetNext \/ EnvironmentNext \/ UNCHANGED vars PROVE instance'[k] = Pin[k]
  BY <1>10, <1>11 DEF FleetNext, NodeHeartbeat, RegisterNode, PublishModel, UnpublishModel,
     EnvironmentNext, LeaseLapses, LeaseExpires, BackoffEnds, NodeFallsSilent,
     ReportChanges, SetQuarantine, vars, jobVars
<1>12. ASSUME NEW j \in Job, NEW seen, RenewJob(j, seen) PROVE instance'[k] = Pin[k]
  BY <1>10, <1>12 DEF RenewJob
<1>13. QED
  BY <1>1, <1>3, <1>4, <1>5, <1>6, <1>7, <1>8, <1>9, <1>11, <1>12, JobLeaseAssumption
     DEF Next, ConsumerNext, CreateJob, CreateRegulatedJob, WorkerNext

\* Claims, lost claims, retries and reapers never hand a regulated job to an
\* instance other than the one its route was attested for.
THEOREM RegulatedAlwaysPinned == Spec => []RegulatedStaysPinned
<1>1. Init => RegulatedStaysPinned
  BY JobLeaseAssumption DEF Init, RegulatedStaysPinned, LiveStatus
<1>2. QED
  BY <1>1, PinNext, TypeInit, TypeNext, PTL DEF Spec

-----------------------------------------------------------------------------
(***************************************************************************)
(* Capacity.  The policy is counted with a clock that may see lapsing      *)
(* leases as over, so the count covers the live leases and one is free.    *)
(***************************************************************************)

\* A lease that still runs counts for every transaction.
LEMMA LiveIsActive ==
  ASSUME NEW n, NEW seen \in SUBSET Lapsing
  PROVE  LiveLeasesOn(n) \subseteq ActiveOn(n, seen)
  BY DEF LiveLeasesOn, ActiveOn, ExpiredFor, Lapsing

\* One lease added to those the policy counted stays within the policy.
LEMMA OneMoreFits ==
  ASSUME NEW S \in SUBSET Job, NEW T, NEW j, NEW limit \in Nat,
         T \subseteq S \cup {j}, Cardinality(S) < limit
  PROVE  Cardinality(T) <= limit
<1>1. IsFiniteSet(S)
  BY ReservationsAssumption, FS_Subset
<1>2. IsFiniteSet(S \cup {j}) /\ Cardinality(S \cup {j}) <= Cardinality(S) + 1
  <2>1. /\ IsFiniteSet(S \cup {j})
        /\ \/ Cardinality(S \cup {j}) = Cardinality(S)
           \/ Cardinality(S \cup {j}) = Cardinality(S) + 1
    BY <1>1, FS_AddElement, Zenon
  <2>2. QED
    BY <1>1, <2>1, FS_CardinalityType
<1>3. Cardinality(T) <= Cardinality(S \cup {j}) /\ IsFiniteSet(T)
  BY <1>2, FS_Subset
<1>4. Cardinality(S) \in Nat /\ Cardinality(T) \in Nat /\ Cardinality(S \cup {j}) \in Nat
  BY <1>1, <1>2, <1>3, FS_CardinalityType
<1>5. QED
  BY <1>2, <1>3, <1>4

\* What claim_job leaves running: nothing new but the lease it wrote.
LEMMA ClaimLeases ==
  ASSUME TypeOK, NEW j \in Job, NEW i \in Instance, NEW seen \in SUBSET Lapsing, NEW R, NEW X,
         ClaimJob(j, i, seen, R, X), NEW n \in Node
  PROVE  /\ LiveLeasesOn(n)' \subseteq LiveLeasesOn(n) \cup {j}
         /\ n # NodeOf[i] => LiveLeasesOn(n)' \subseteq LiveLeasesOn(n)
         /\ n = NodeOf[i] => j \in LiveLeasesOn(n)'
<1>0. /\ DOMAIN status = Job /\ DOMAIN instance = Job /\ DOMAIN lease = Job
      /\ DOMAIN ReapedStatus(R, X) = Job /\ DOMAIN ReapedLease(R) = Job
  BY DEF TypeOK, ReapedStatus, ReapedLease
<1>1. /\ status'[j] = "leased" /\ lease'[j] = "live" /\ instance'[j] = i
  BY <1>0 DEF ClaimJob
<1>2. ASSUME NEW k \in Job, k # j
      PROVE  /\ instance'[k] = instance[k]
             /\ status'[k] = "leased" => status[k] = "leased"
             /\ lease'[k] = "live" => lease[k] = "live"
  <2>1. /\ instance'[k] = instance[k]
        /\ status'[k] = ReapedStatus(R, X)[k] /\ lease'[k] = ReapedLease(R)[k]
    BY <1>0, <1>2 DEF ClaimJob
  <2>2. QED
    BY <2>1 DEF ReapedStatus, ReapedLease
<1>3. QED
  BY <1>1, <1>2 DEF LiveLeasesOn

\* Only a claim and a renewal let a lease run that did not run before.
LEMMA LeaseBegins ==
  ASSUME TypeOK, [Next]_vars, NEW n \in Node
  PROVE  \/ LiveLeasesOn(n)' \subseteq LiveLeasesOn(n)
         \/ \E seen \in SUBSET Lapsing, X \in SUBSET InvalidWaiting :
              \E R \in SUBSET ExpiredTerminal(seen), j \in Job, i \in Instance :
                ClaimJob(j, i, seen, R, X)
         \/ \E j \in Job, seen \in SUBSET Lapsing : RenewJob(j, seen)
<1> DEFINE Quiet == \A k \in Job :
             /\ status'[k] = "leased" => status[k] = "leased" /\ instance'[k] = instance[k]
             /\ lease'[k] = "live" => lease[k] = "live"
<1>0. DOMAIN status = Job /\ DOMAIN instance = Job /\ DOMAIN lease = Job
  BY DEF TypeOK
<1>1. ASSUME Quiet PROVE LiveLeasesOn(n)' \subseteq LiveLeasesOn(n)
  BY <1>1 DEF LiveLeasesOn
<1>2. ASSUME NEW j \in Job, InsertJob(j) PROVE Quiet
  BY <1>0, <1>2 DEF InsertJob
<1>3. ASSUME NEW seen, NEW R, NEW X, GetJob(seen, R, X) PROVE Quiet
  BY <1>0, <1>3 DEF GetJob, ReapedStatus, ReapedLease
<1>4. ASSUME NEW j \in Job, CancelTimedOutJob(j) PROVE Quiet
  BY <1>0, <1>4 DEF CancelTimedOutJob
<1>5. ASSUME NEW j \in Job, NEW i \in Instance, NEW seen, NEW R, NEW X,
             ClaimLosesInstance(j, i, seen, R, X)
      PROVE  Quiet
  BY <1>0, <1>5 DEF ClaimLosesInstance, ReapedStatus, ReapedLease
<1>6. ASSUME NEW j \in Job, FailRegulatedLease(j) PROVE Quiet
  BY <1>0, <1>6 DEF FailRegulatedLease
<1>7. ASSUME NEW j \in Job, NEW key \in Key, NEW tier \in Tier, NEW trust \in Trust,
             CompleteJob(j, key, tier, trust)
      PROVE  Quiet
  <2>1. /\ instance' = instance /\ status' = [status EXCEPT ![j] = "succeeded"]
        /\ lease' = [lease EXCEPT ![j] = "none"]
    BY <1>7 DEF CompleteJob
  <2>2. QED
    BY <1>0, <2>1
<1>8. ASSUME NEW j \in Job, NEW key \in Key, NEW retryable \in BOOLEAN,
             JobFail(j, key, retryable)
      PROVE  Quiet
  <2>1. lease' = [lease EXCEPT ![j] = "none"]
    BY <1>8 DEF JobFail
  <2>2. \/ instance' = instance
        \/ instance' = [instance EXCEPT ![j] = IF j \in Regulated THEN @ ELSE None]
    BY <1>8 DEF JobFail
  <2>3. status' = [status EXCEPT ![j] = "retry"] \/ status' = [status EXCEPT ![j] = "failed"]
    BY <1>8 DEF JobFail
  <2>4. QED
    BY <1>0, <2>1, <2>2, <2>3
<1>9. ASSUME FleetNext \/ UNCHANGED vars PROVE Quiet
  BY <1>9 DEF FleetNext, NodeHeartbeat, RegisterNode, PublishModel, UnpublishModel, vars, jobVars
<1>10. ASSUME EnvironmentNext PROVE Quiet
  BY <1>0, <1>10 DEF EnvironmentNext, LeaseLapses, LeaseExpires, BackoffEnds, NodeFallsSilent,
     ReportChanges, SetQuarantine, jobVars
<1> HIDE DEF Quiet
<1>11. ASSUME ConsumerNext PROVE Quiet
  BY <1>2, <1>3, <1>4, <1>11, JobLeaseAssumption
     DEF ConsumerNext, CreateJob, CreateRegulatedJob
<1>12. QED
  BY <1>1, <1>5, <1>6, <1>7, <1>8, <1>9, <1>10, <1>11 DEF Next, WorkerNext

\* Neither a claim nor a renewal that committed late, after its slot was given
\* away, lets more leases run on a node than its policy allows, for any number
\* of nodes and jobs and whatever limits heartbeats bring.
THEOREM CapacityAlwaysRespected == Spec => CapacityRespected
<1> DEFINE Within(n) == ~ (LiveLeasesOn(n)' \subseteq LiveLeasesOn(n)) =>
                          Cardinality(LiveLeasesOn(n)') <= max_concurrent[n]
<1>1. ASSUME TypeOK, [Next]_vars, NEW n \in Node PROVE Within(n)
  <2>0. max_concurrent[n] \in Nat
    BY <1>1, JobLeaseAssumption DEF TypeOK
  <2>1. ASSUME NEW seen \in SUBSET Lapsing, NEW R, NEW X, NEW j \in Job, NEW i \in Instance,
               ClaimJob(j, i, seen, R, X), ~ (LiveLeasesOn(n)' \subseteq LiveLeasesOn(n))
        PROVE  Cardinality(LiveLeasesOn(n)') <= max_concurrent[n]
    <3>1. n = NodeOf[i] /\ LiveLeasesOn(n)' \subseteq LiveLeasesOn(n) \cup {j}
      BY <1>1, <2>1, ClaimLeases
    <3>2. LiveLeasesOn(n) \subseteq ActiveOn(n, seen) \ {}
      BY LiveIsActive
    <3>3. Cardinality(ActiveOn(n, seen) \ {}) < max_concurrent[n]
      BY <2>1, <3>1 DEF ClaimJob, Candidate, WithinPolicy
    <3>4. ActiveOn(n, seen) \ {} \in SUBSET Job
      BY DEF ActiveOn
    <3>5. QED
      BY <2>0, <3>1, <3>2, <3>3, <3>4, OneMoreFits
  <2>2. ASSUME NEW j \in Job, NEW seen \in SUBSET Lapsing, RenewJob(j, seen),
               ~ (LiveLeasesOn(n)' \subseteq LiveLeasesOn(n))
        PROVE  Cardinality(LiveLeasesOn(n)') <= max_concurrent[n]
    <3>1. /\ status' = status /\ instance' = instance
          /\ lease' = [lease EXCEPT ![j] = "live"] /\ DOMAIN lease = Job
      BY <1>1, <2>2 DEF RenewJob, TypeOK
    <3>2. LiveLeasesOn(n)' \subseteq LiveLeasesOn(n) \cup {j}
      BY <3>1 DEF LiveLeasesOn
    <3>3. n = NodeOf[instance[j]]
      BY <2>2, <3>1 DEF LiveLeasesOn
    <3>4. Cardinality(ActiveOn(n, seen) \ {j}) < max_concurrent[n]
      BY <2>2, <3>3 DEF RenewJob, WithinPolicy
    <3>5. LiveLeasesOn(n)' \subseteq (ActiveOn(n, seen) \ {j}) \cup {j}
      BY <3>2, LiveIsActive
    <3>6. ActiveOn(n, seen) \ {j} \in SUBSET Job
      BY DEF ActiveOn
    <3>7. QED
      BY <2>0, <3>4, <3>5, <3>6, OneMoreFits
  <2>3. QED
    BY <1>1, <2>1, <2>2, LeaseBegins
<1>2. TypeOK /\ [Next]_vars => [\A n \in Node : Within(n)]_vars
  BY <1>1
<1>3. QED
  BY <1>2, TypeInit, TypeNext, PTL DEF Spec, CapacityRespected

\* A fast or standard job is never put beside a running lease, whichever leases
\* the claim's clock saw as over and whichever jobs its reapers ended.
THEOREM FastAlwaysAlone == Spec => WholeNodeForFast
<1> DEFINE Alone(j, n) ==
             /\ attempt_count'[j] > attempt_count[j]
             /\ status'[j] = "leased" /\ NodeOf[instance'[j]] = n
             /\ SpeedClass[j] # "slow"
             => LiveLeasesOn(n)' = {j}
<1>1. ASSUME TypeOK, [Next]_vars, NEW k \in Job, NEW n \in Node,
             attempt_count'[k] > attempt_count[k], status'[k] = "leased",
             NodeOf[instance'[k]] = n, SpeedClass[k] # "slow"
      PROVE  LiveLeasesOn(n)' = {k}
  <2>0. /\ attempt_count[k] \in Nat
        /\ DOMAIN status = Job /\ DOMAIN instance = Job /\ attempt_count \in [Job -> Nat]
    BY <1>1 DEF TypeOK
  <2>1. ASSUME NEW seen \in SUBSET Lapsing, NEW X \in SUBSET InvalidWaiting,
               NEW R \in SUBSET ExpiredTerminal(seen), NEW j \in Job, NEW i \in Instance,
               ClaimJob(j, i, seen, R, X)
        PROVE  LiveLeasesOn(n)' = {k}
    <3>1. k = j
      <4> SUFFICES ASSUME k # j PROVE FALSE
        OBVIOUS
      <4>1. /\ status'[k] = ReapedStatus(R, X)[k]
            /\ attempt_count'[k] = ReapedCount(X)[k]
        BY <2>1 DEF ClaimJob, ReapedStatus, ReapedCount
      <4>2. k \in X
        BY <1>1, <2>0, <4>1 DEF ReapedCount
      <4>3. QED
        BY <1>1, <4>1, <4>2 DEF ReapedStatus
    <3>2. n = NodeOf[i]
      BY <1>1, <2>0, <2>1, <3>1 DEF ClaimJob
    <3>3. /\ LiveLeasesOn(n)' \subseteq LiveLeasesOn(n) \cup {j}
          /\ j \in LiveLeasesOn(n)'
      BY <1>1, <2>1, <3>2, ClaimLeases
    <3> DEFINE Load == (ActiveOn(n, seen) \cup PinnedWaiting(n)) \ (X \cup {j})
    <3>4. Cardinality(Load) = 0
      BY <1>1, <2>1, <3>1, <3>2 DEF ClaimJob, Candidate, SpeedAllows
    <3>5. Load = {}
      <4>1. Load \subseteq Job
        BY JobLeaseAssumption DEF ActiveOn, PinnedWaiting
      <4>2. IsFiniteSet(Load)
        BY <4>1, ReservationsAssumption, FS_Subset
      <4>3. QED
        BY <3>4, <4>2, FS_EmptySet
    <3>6. LiveLeasesOn(n) \subseteq {j}
      <4>1. LiveLeasesOn(n) \subseteq ActiveOn(n, seen)
        BY LiveIsActive
      <4>2. LiveLeasesOn(n) \cap X = {}
        BY DEF LiveLeasesOn, InvalidWaiting
      <4>3. QED
        BY <3>5, <4>1, <4>2
    <3>7. QED
      BY <3>1, <3>3, <3>6
  <2>2. ASSUME attempt_count'[k] = attempt_count[k] PROVE FALSE
    BY <1>1, <2>0, <2>2
  <2>3. ASSUME NEW R, NEW X, attempt_count' = ReapedCount(X), status' = ReapedStatus(R, X)
        PROVE  FALSE
    BY <1>1, <2>0, <2>3 DEF ReapedCount, ReapedStatus
  <2>4. ASSUME NEW seen, NEW R, NEW X, GetJob(seen, R, X) PROVE FALSE
    BY <2>3, <2>4 DEF GetJob
  <2>5. ASSUME NEW j \in Job, NEW i \in Instance, NEW seen, NEW R, NEW X,
               ClaimLosesInstance(j, i, seen, R, X)
        PROVE  FALSE
    BY <2>3, <2>5 DEF ClaimLosesInstance
  <2>6. ASSUME NEW j \in Job, InsertJob(j) \/ CancelTimedOutJob(j) \/ FailRegulatedLease(j)
        PROVE  FALSE
    BY <2>2, <2>6 DEF InsertJob, CancelTimedOutJob, FailRegulatedLease
  <2>7. ASSUME NEW j \in Job, NEW seen, RenewJob(j, seen) PROVE FALSE
    BY <2>2, <2>7 DEF RenewJob
  <2>8. ASSUME NEW j \in Job, NEW key \in Key, NEW tier \in Tier, NEW trust \in Trust,
               CompleteJob(j, key, tier, trust)
        PROVE  FALSE
    BY <2>2, <2>8 DEF CompleteJob
  <2>9. ASSUME NEW j \in Job, NEW key \in Key, NEW retryable \in BOOLEAN,
               JobFail(j, key, retryable)
        PROVE  FALSE
    BY <2>2, <2>9 DEF JobFail
  <2>10. ASSUME FleetNext \/ EnvironmentNext \/ UNCHANGED vars PROVE FALSE
    BY <2>2, <2>10 DEF FleetNext, NodeHeartbeat, RegisterNode, PublishModel, UnpublishModel,
       EnvironmentNext, LeaseLapses, LeaseExpires, BackoffEnds, NodeFallsSilent,
       ReportChanges, SetQuarantine, vars, jobVars
  <2>11. ASSUME ConsumerNext PROVE FALSE
    BY <2>4, <2>6, <2>11, JobLeaseAssumption
       DEF ConsumerNext, CreateJob, CreateRegulatedJob
  <2>12. ASSUME WorkerNext PROVE LiveLeasesOn(n)' = {k}
    BY <2>1, <2>5, <2>6, <2>7, <2>8, <2>9, <2>12, Zenon DEF WorkerNext
  <2>13. QED
    BY <1>1, <2>10, <2>11, <2>12 DEF Next
<1>2. TypeOK /\ [Next]_vars => [\A j \in Job, n \in Node : Alone(j, n)]_vars
  BY <1>1
<1>3. QED
  BY <1>2, TypeInit, TypeNext, PTL DEF Spec, WholeNodeForFast
=============================================================================
