------------------------------ MODULE JobEscrow ------------------------------
(***************************************************************************)
(* What the coordinator promises a consumer about the money of a job:      *)
(* creating it puts its price in escrow, for as long as it runs, and it    *)
(* ends once, either charged for at most that price or given back whole.   *)
(* No account ever has more in escrow than it holds.                       *)
(*                                                                         *)
(* JobLease implements this specification; leases, attempts, retries,      *)
(* nodes and time do not appear here.                                      *)
(***************************************************************************)
EXTENDS Integers

CONSTANTS
  User,
  Job,
  Consumer,           \* Consumer[j]: the user a job is charged to
  Cost(_),            \* Cost(j): the price of a job
  ReservedBy(_, _),   \* ReservedBy(S, u): the sum of the prices of u's jobs in S
  Grant               \* Grant[u]: what u's account starts with

VARIABLES
  phase,     \* phase[j]: "none", "held", "charged" or "returned"
  balance,   \* balance[u]
  reserve    \* the network reserve

vars == <<phase, balance, reserve>>

Held == {j \in Job : phase[j] = "held"}

Init ==
  /\ phase = [j \in Job |-> "none"]
  /\ balance = Grant
  /\ reserve = 0

\* The account covers this job beside everything it already has in escrow.
Hold(j) ==
  /\ phase[j] = "none"
  /\ ReservedBy(Held, Consumer[j]) + Cost(j) <= balance[Consumer[j]]
  /\ phase' = [phase EXCEPT ![j] = "held"]
  /\ UNCHANGED <<balance, reserve>>

\* The consumer pays `charge', of which `payee' receives `share' and the
\* reserve the rest.  What it still has in escrow stays covered.
Charge(j, payee, charge, share) ==
  /\ phase[j] = "held"
  /\ phase' = [phase EXCEPT ![j] = "charged"]
  /\ balance' = [[balance EXCEPT ![Consumer[j]] = @ - charge]
                   EXCEPT ![payee] = @ + share]
  /\ reserve' = reserve + (charge - share)

Return(S) ==
  /\ S # {}
  /\ phase' = [j \in Job |-> IF j \in S THEN "returned" ELSE phase[j]]
  /\ UNCHANGED <<balance, reserve>>

Next ==
  \/ \E j \in Job : Hold(j)
  \/ \E j \in Job, payee \in User :
       \E charge \in 0 .. Cost(j) : \E share \in 0 .. charge :
         Charge(j, payee, charge, share)
  \/ \E S \in SUBSET Held : Return(S)

Spec == Init /\ [][Next]_vars
=============================================================================
