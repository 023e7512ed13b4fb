----------------------------- MODULE Settlement -----------------------------
(***************************************************************************)
(* The integer arithmetic of one settlement: what a consumer pays, what    *)
(* the node that did the work earns and what the network reserve keeps.    *)
(* All amounts are microquota; multipliers are in thousandths.             *)
(* Source: crates/mindone-accounting/src/fixed.rs.                         *)
(***************************************************************************)
EXTENDS Integers

PerformanceTier == {"high", "medium", "low"}
TrustClass == {"enhanced", "standard", "unverified"}

\* PerformanceTier::multiplier_milli
TierMilli(tier) ==
  CASE tier = "high"   -> 1500
    [] tier = "medium" -> 1000
    [] tier = "low"    -> 700

\* TrustClass::multiplier_milli
TrustMilli(trust) ==
  CASE trust = "enhanced"   -> 1100
    [] trust = "standard"   -> 1000
    [] trust = "unverified" -> 500

\* mul_ratio_ceil with the denominator MULTIPLIER_SCALE
MulMilliCeil(value, milli) == (value * milli + 999) \div 1000

\* mul_two_ratios_floor
MulTwoMilliFloor(value, first, second) ==
  (value * (first * second)) \div 1000000

\* The three amounts of Settlement::calculate.  The deduction is rounded up,
\* the node's share down, and the reserve keeps the difference.
UserDeduction(base, tier) == MulMilliCeil(base, TierMilli(tier))

NodeSpendableQuota(base, tier, trust) ==
  MulTwoMilliFloor(UserDeduction(base, tier), 800, TrustMilli(trust))

NodeContributionPoints(base, tier, trust) ==
  MulTwoMilliFloor(UserDeduction(base, tier), 1200, TrustMilli(trust))

\* Mutant of ReserveInflow: the operands swapped.
ReserveInflowNegated(base, tier, trust) ==
  NodeSpendableQuota(base, tier, trust) - UserDeduction(base, tier)

\* Mutant of ReserveInflow: a flat fifth, without the trust multiplier.
ReserveInflowFifth(base, tier, trust) == UserDeduction(base, tier) \div 5

ReserveInflow(base, tier, trust) ==
  UserDeduction(base, tier) - NodeSpendableQuota(base, tier, trust)

\* Mutant of Reservation: reserves the price of the Medium tier.
ReservationAtMedium(base) == UserDeduction(base, "medium")

\* What a job's creation sets aside: the High deduction of its base cost
\* (maximum_reservation_micro).
Reservation(base) == UserDeduction(base, "high")

=============================================================================
