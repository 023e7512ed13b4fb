------------------------------- MODULE Billing -------------------------------
(***************************************************************************)
(* The price of a job: an operator records reference profiles, a job's     *)
(* creation freezes the quote of the newest valid one, and its settlement  *)
(* charges the frozen quote whatever profiles were recorded since.         *)
(*                                                                         *)
(* Amounts are i64 in the code; MaxMicro and the rate units stand for      *)
(* their limits, scaled down together.                                     *)
(*                                                                         *)
(* Source: crates/mindone-accounting/src/billing.rs, fixed.rs,             *)
(* crates/mindone-coordinator/src/operator_billing.rs, settlement.rs,      *)
(* routes/jobs.rs, migrations/0033_billing_profile_provisioning.sql.       *)
(***************************************************************************)
EXTENDS Settlement, FiniteSets, FiniteSetsExt

CONSTANTS
  ProfileRequest,     \* [key, version, profile], a profile being [max_in, max_out, fixed,
                      \*  gpu, vram, token_rate, gpu_rate, vram_rate]
  Authorization,      \* [input, output]: tokens asked for
  MaxMicro,           \* i64::MAX
  TokensPerUnit, MicrosPerSecond, MibMicrosPerGibSecond

VARIABLES
  profiles,   \* the requests that were recorded
  lapsed,     \* versions whose validity is over
  bill        \* the job: its frozen quote and what its settlement computed

vars == <<profiles, lapsed, bill>>

-----------------------------------------------------------------------------
(***************************************************************************)
(* Quotes                                                                  *)
(***************************************************************************)
\* Mutant of CeilMulDiv: rounds down.
FloorMulDiv(left, right, denominator) == (left * right) \div denominator

\* ceil_mul_div, in i128
CeilMulDiv(left, right, denominator) == (left * right + denominator - 1) \div denominator

\* quote_server_reference_upper_bound: every part is rounded up, then added.
Quote(p, tokens) ==
  LET gpu_time == p.fixed + CeilMulDiv(tokens, p.gpu, TokensPerUnit)
      integral == gpu_time * p.vram
      token_cost == CeilMulDiv(tokens, p.token_rate, TokensPerUnit)
      gpu_cost == CeilMulDiv(gpu_time, p.gpu_rate, MicrosPerSecond)
      vram_cost == CeilMulDiv(integral, p.vram_rate, MibMicrosPerGibSecond)
  IN [tokens |-> tokens, gpu_time |-> gpu_time, integral |-> integral,
      token_cost |-> token_cost, gpu_cost |-> gpu_cost, vram_cost |-> vram_cost,
      base |-> token_cost + gpu_cost + vram_cost]

\* No checked operation overflows.
QuoteFits(q) == \A f \in DOMAIN q : q[f] <= MaxMicro

\* Settlement::calculate succeeds.
SettlementFits(base, tier, trust) ==
  /\ UserDeduction(base, tier) <= MaxMicro
  /\ NodeSpendableQuota(base, tier, trust) <= UserDeduction(base, tier)
  /\ NodeContributionPoints(base, tier, trust) <= MaxMicro

Positive(p) ==
  /\ p.max_in >= 0 /\ p.fixed >= 0
  /\ \A f \in {"max_out", "gpu", "vram", "token_rate", "gpu_rate", "vram_rate"} : p[f] > 0

\* ServerReferenceBillingProfile::validate: the largest quote and its
\* settlement at the highest rates.
ValidProfile(p) ==
  /\ Positive(p)
  /\ QuoteFits(Quote(p, p.max_in + p.max_out))
  /\ SettlementFits(Quote(p, p.max_in + p.max_out).base, "high", "enhanced")

-----------------------------------------------------------------------------
(***************************************************************************)
(* Operations                                                              *)
(***************************************************************************)
\* mindone_record_billing_profile_v1, one call under the locks of its key and
\* of its version.  A used key answers again or conflicts, and a used version
\* conflicts, without a change.
RecordOperatorBillingProfile(r) ==
  /\ ValidProfile(r.profile)
  /\ \A s \in profiles : s.key # r.key /\ s.version # r.version
  /\ profiles' = profiles \cup {r}
  /\ UNCHANGED <<lapsed, bill>>

\* valid_until passes.
ProfileLapses(r) ==
  /\ r \in profiles /\ r.version \notin lapsed
  /\ lapsed' = lapsed \cup {r.version}
  /\ UNCHANGED <<profiles, bill>>

Current == {r \in profiles : r.version \notin lapsed}

\* Mutant of Calculate: the quote of the output alone.
CalculateOutput(p, a) == Quote(p, a.output)

\* BillingSnapshot::calculate
Calculate(p, a) == Quote(p, a.input + a.output)

\* load_billing_snapshot: the highest version that is valid, within its limits;
\* no older one is tried.  The profile and the quote are frozen with the job, or
\* with the route of a Regulated job until that is used.
LoadBillingSnapshot(a, regulated) ==
  /\ bill.at = "none" /\ Current # {}
  /\ LET newest == CHOOSE r \in Current : \A s \in Current : s.version <= r.version
         p == newest.profile
         quote == Calculate(p, a)
     IN /\ a.input \in 0 .. p.max_in /\ a.output \in 1 .. p.max_out
        /\ QuoteFits(quote)
        /\ SettlementFits(quote.base, "high", "enhanced")
        /\ bill' = [at |-> IF regulated THEN "prepared" ELSE "created", authorized |-> a,
                    quote |-> quote, quoted |-> newest,
                    reserved |-> UserDeduction(quote.base, "high")]
  /\ UNCHANGED <<profiles, lapsed>>

\* BillingSnapshot::from_frozen_row, JobBillingSnapshot::from_job_row: what is
\* frozen is calculated again and compared.
FrozenRowAgrees(b) ==
  b.quote = Quote(b.quoted.profile, b.authorized.input + b.authorized.output)

Refused == bill' = [at |-> "refused"]

\* create_regulated_job on a prepared route.
CreateFromRoute ==
  /\ bill.at = "prepared"
  /\ IF FrozenRowAgrees(bill) THEN bill' = [bill EXCEPT !.at = "created"] ELSE Refused
  /\ UNCHANGED <<profiles, lapsed>>

\* Mutant of FrozenBase: priced again from the profile that is valid now.
BaseNow(b, used) ==
  IF Current = {} THEN b.quote.base
  ELSE Quote((CHOOSE r \in Current : \A s \in Current : s.version <= r.version).profile,
             b.authorized.input + b.authorized.output).base

\* frozen_base_for_authorized_usage: the tokens used never change the price.
FrozenBase(b, used) == b.quote.base

\* The amounts of complete_job for a report within the authorized tokens, at
\* the tier and the trust the instance has by then.
SettleBill(tier, trust, used) ==
  LET base == FrozenBase(bill, used) IN
  /\ bill.at = "created"
  /\ used.input <= bill.authorized.input /\ used.output <= bill.authorized.output
  /\ IF FrozenRowAgrees(bill)
       THEN bill' = [at |-> "settled", reserved |-> bill.reserved,
                     fits |-> SettlementFits(base, tier, trust),
                     paid |-> UserDeduction(base, tier),
                     earned |-> NodeSpendableQuota(base, tier, trust),
                     kept |-> ReserveInflow(base, tier, trust)]
       ELSE Refused
  /\ UNCHANGED <<profiles, lapsed>>

-----------------------------------------------------------------------------
Init ==
  /\ profiles = {} /\ lapsed = {}
  /\ bill = [at |-> "none"]

Next ==
  \/ \E r \in ProfileRequest : RecordOperatorBillingProfile(r) \/ ProfileLapses(r)
  \/ \E a \in Authorization, regulated \in BOOLEAN : LoadBillingSnapshot(a, regulated)
  \/ CreateFromRoute
  \/ \E tier \in PerformanceTier, trust \in TrustClass, used \in Authorization :
       SettleBill(tier, trust, used)

Spec == Init /\ [][Next]_vars

-----------------------------------------------------------------------------
(***************************************************************************)
(* A job created on an accepted profile can be settled: at every tier and  *)
(* every trust no amount overflows, the deduction stays within what was    *)
(* reserved, and the node's share and the reserve's are amounts the ledger *)
(* accepts, never zero, however small the job and however the profiles     *)
(* changed in between.  What was frozen agrees with itself when it is read *)
(* again.                                                                  *)
(***************************************************************************)
BillsSettle ==
  /\ bill.at # "refused"
  /\ bill.at = "settled" =>
       /\ bill.fits
       /\ bill.paid <= bill.reserved
       /\ bill.earned > 0 /\ bill.kept > 0
=============================================================================
