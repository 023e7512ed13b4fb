---------------------------- MODULE InstanceDrain ----------------------------
(***************************************************************************)
(* One model instance under concurrent transactions: workers lease work on *)
(* it and close the leases, its owner unpublishes and republishes it, and  *)
(* the sweep that every claim_job and get_job runs finalises it.           *)
(*                                                                         *)
(* JobLease takes a transaction as one step.  Here a transaction is the    *)
(* sequence of its statements, at PostgreSQL's default isolation level     *)
(* READ COMMITTED: each statement reads what is committed when it starts,  *)
(* and its own transaction's writes; a row lock makes it wait for the      *)
(* transaction that holds it; an UPDATE that waited looks again at the row *)
(* it locked, but not at the other tables of its WHERE clause.             *)
(*                                                                         *)
(* Source: routes/jobs.rs (claim_job, reap_expired_terminal_leases),       *)
(* settlement.rs (finalize_draining_instance), routes/nodes_models.rs      *)
(* (publish_model, unpublish_model).                                       *)
(***************************************************************************)
EXTENDS Naturals

CONSTANT Job   \* the jobs that may be leased on the instance

VARIABLES
  instance_status,   \* the committed status of the instance's row
  job_status,        \* the committed status of each job: queued (or waiting for
                     \* a retry), leased, closed
  sharing,           \* the jobs whose claim holds the row FOR SHARE
  claiming,          \* claiming[j]: the statement j's claim has reached
  closing,           \* closing[j]: the statement j's closing has reached
  unpublishing,      \* the statement unpublish_model has reached
  sweeping,          \* the statement the sweep has reached
  overtaken          \* history: the row was published again under an UPDATE
                     \* that had matched it and was waiting to finalise it

vars == <<instance_status, job_status, sharing, claiming, closing,
          unpublishing, sweeping, overtaken>>

Leased == {j \in Job : job_status[j] = "leased"}

\* Nobody holds the row exclusively: unpublish_model does from its SELECT FOR
\* UPDATE to its commit.
RowFree == unpublishing = "idle"
RowUnshared == RowFree /\ sharing = {}

-----------------------------------------------------------------------------
(***************************************************************************)
(* claim_job, from the candidate query on                                  *)
(***************************************************************************)

\* The candidate query reads the instance's status without a lock.
SelectCandidate(j) ==
  /\ claiming[j] = "idle" /\ job_status[j] = "queued"
  /\ instance_status = "published"
  /\ claiming' = [claiming EXCEPT ![j] = "selected"]
  /\ UNCHANGED <<instance_status, job_status, sharing, closing, unpublishing,
                 sweeping, overtaken>>

\* Mutant of LockShared: the status is not read again under the lock.
LockSharedUnchecked(j) ==
  /\ claiming[j] = "selected" /\ RowFree
  /\ claiming' = [claiming EXCEPT ![j] = "locked"]
  /\ sharing' = sharing \cup {j}
  /\ UNCHANGED <<instance_status, job_status, closing, unpublishing,
                 sweeping, overtaken>>

\* SELECT status FROM model_instances ... FOR SHARE, and the check after it.
LockShared(j) ==
  /\ claiming[j] = "selected" /\ RowFree
  /\ IF instance_status = "published"
       THEN /\ claiming' = [claiming EXCEPT ![j] = "locked"]
            /\ sharing' = sharing \cup {j}
       ELSE /\ claiming' = [claiming EXCEPT ![j] = "idle"]
            /\ UNCHANGED sharing
  /\ UNCHANGED <<instance_status, job_status, closing, unpublishing,
                 sweeping, overtaken>>

\* The lease is written and committed.
CommitLease(j) ==
  /\ claiming[j] = "locked"
  /\ job_status' = [job_status EXCEPT ![j] = "leased"]
  /\ sharing' = sharing \ {j}
  /\ claiming' = [claiming EXCEPT ![j] = "idle"]
  /\ UNCHANGED <<instance_status, closing, unpublishing, sweeping, overtaken>>

-----------------------------------------------------------------------------
(***************************************************************************)
(* complete_job, job_fail, the reaper, a cancellation or a lost            *)
(* attestation: the lease is closed and finalize_draining_instance runs    *)
(***************************************************************************)

\* finalize_draining_instance starts.  It sees its own job closed and the
\* others as committed; without a match it updates nothing and takes no lock.
FinalizeReads(j) ==
  /\ closing[j] = "idle" /\ job_status[j] = "leased"
  /\ closing' = [closing EXCEPT ![j] =
       IF instance_status = "draining" /\ Leased = {j} THEN "matched" ELSE "passed"]
  /\ UNCHANGED <<instance_status, job_status, sharing, claiming,
                 unpublishing, sweeping, overtaken>>

\* The commit of a transaction whose UPDATE matched nothing.  A failure that
\* may be retried makes the job available again.
CommitClose(j) ==
  /\ closing[j] = "passed"
  /\ \E s \in {"queued", "closed"} : job_status' = [job_status EXCEPT ![j] = s]
  /\ closing' = [closing EXCEPT ![j] = "idle"]
  /\ UNCHANGED <<instance_status, sharing, claiming, unpublishing, sweeping,
                 overtaken>>

\* The matching UPDATE gets the row lock, looks at the row again and commits.
FinalizeCommits(j) ==
  /\ closing[j] = "matched" /\ RowUnshared
  /\ instance_status' =
       IF instance_status = "draining" THEN "unpublished" ELSE instance_status
  /\ \E s \in {"queued", "closed"} : job_status' = [job_status EXCEPT ![j] = s]
  /\ closing' = [closing EXCEPT ![j] = "idle"]
  /\ UNCHANGED <<sharing, claiming, unpublishing, sweeping, overtaken>>

-----------------------------------------------------------------------------
(***************************************************************************)
(* The closing UPDATE of reap_expired_terminal_leases                      *)
(***************************************************************************)
\* Mutant of SweepReads: leases are not looked at.
SweepReadsAny ==
  /\ sweeping = "idle"
  /\ instance_status = "draining"
  /\ sweeping' = "matched"
  /\ UNCHANGED <<instance_status, job_status, sharing, claiming, closing,
                 unpublishing, overtaken>>

\* Mutant of SweepReads: only beside a closing lease.
SweepOfReaped ==
  /\ sweeping = "idle"
  /\ instance_status = "draining" /\ Leased = {}
  /\ \E j \in Job : closing[j] # "idle"
  /\ sweeping' = "matched"
  /\ UNCHANGED <<instance_status, job_status, sharing, claiming, closing,
                 unpublishing, overtaken>>

SweepReads ==
  /\ sweeping = "idle"
  /\ instance_status = "draining" /\ Leased = {}
  /\ sweeping' = "matched"
  /\ UNCHANGED <<instance_status, job_status, sharing, claiming, closing,
                 unpublishing, overtaken>>

SweepCommits ==
  /\ sweeping = "matched" /\ RowUnshared
  /\ instance_status' =
       IF instance_status = "draining" THEN "unpublished" ELSE instance_status
  /\ sweeping' = "idle"
  /\ UNCHANGED <<job_status, sharing, claiming, closing, unpublishing,
                 overtaken>>

-----------------------------------------------------------------------------
(***************************************************************************)
(* The owner                                                               *)
(***************************************************************************)

\* SELECT ... FOR UPDATE OF mi
LockInstance ==
  /\ RowUnshared
  /\ unpublishing' = "locked"
  /\ UNCHANGED <<instance_status, job_status, sharing, claiming, closing,
                 sweeping, overtaken>>

\* The count of leases.
CountLeases ==
  /\ unpublishing = "locked"
  /\ unpublishing' = IF Leased = {} THEN "unpublished" ELSE "draining"
  /\ UNCHANGED <<instance_status, job_status, sharing, claiming, closing,
                 sweeping, overtaken>>

\* Mutant of CommitUnpublish: before the leases are counted.
CommitUncounted ==
  /\ unpublishing # "idle"
  /\ instance_status' = unpublishing
  /\ unpublishing' = "idle"
  /\ UNCHANGED <<job_status, sharing, claiming, closing, sweeping, overtaken>>

\* The UPDATE and the commit.
CommitUnpublish ==
  /\ unpublishing \in {"unpublished", "draining"}
  /\ instance_status' = unpublishing
  /\ unpublishing' = "idle"
  /\ UNCHANGED <<job_status, sharing, claiming, closing, sweeping, overtaken>>

\* Some UPDATE has matched the draining row and waits for its lock.
FinalizeWaits == sweeping = "matched" \/ \E j \in Job : closing[j] = "matched"

\* publish_model: an upsert of the row.
PublishModel ==
  /\ RowUnshared
  /\ instance_status' = "published"
  /\ overtaken' = (overtaken \/ FinalizeWaits)
  /\ UNCHANGED <<job_status, sharing, claiming, closing, unpublishing,
                 sweeping>>

-----------------------------------------------------------------------------
Init ==
  /\ instance_status = "published"
  /\ job_status = [j \in Job |-> "queued"]
  /\ sharing = {}
  /\ claiming = [j \in Job |-> "idle"]
  /\ closing = [j \in Job |-> "idle"]
  /\ unpublishing = "idle"
  /\ sweeping = "idle"
  /\ overtaken = FALSE

Next ==
  \/ \E j \in Job : \/ SelectCandidate(j) \/ LockShared(j) \/ CommitLease(j)
                    \/ FinalizeReads(j) \/ CommitClose(j) \/ FinalizeCommits(j)
  \/ SweepReads \/ SweepCommits
  \/ LockInstance \/ CountLeases \/ CommitUnpublish
  \/ PublishModel

Spec == Init /\ [][Next]_vars

\* A transaction that has begun goes on, claims and reads keep sweeping, and of
\* the UPDATEs that wait for the row some one gets it again and again.
\* Nobody has to claim, to close a lease or to unpublish.
Fairness ==
  /\ \A j \in Job : /\ WF_vars(LockShared(j)) /\ WF_vars(CommitLease(j))
                    /\ WF_vars(CommitClose(j))
  /\ WF_vars(SweepReads)
  /\ SF_vars(SweepCommits \/ \E j \in Job : FinalizeCommits(j))
  /\ WF_vars(CountLeases) /\ WF_vars(CommitUnpublish)

FairSpec == Spec /\ Fairness

-----------------------------------------------------------------------------
TypeOK ==
  /\ instance_status \in {"published", "draining", "unpublished"}
  /\ job_status \in [Job -> {"queued", "leased", "closed"}]
  /\ sharing \subseteq Job
  /\ claiming \in [Job -> {"idle", "selected", "locked"}]
  /\ closing \in [Job -> {"idle", "matched", "passed"}]
  /\ unpublishing \in {"idle", "locked", "unpublished", "draining"}
  /\ sweeping \in {"idle", "matched"}
  /\ overtaken \in BOOLEAN

\* No lease on an instance that counts as unpublished: the shared lock of
\* claim_job and the exclusive one of unpublish_model order the two, so the
\* count never misses a lease that is about to be written, and a claim never
\* leases on an instance it read as published before the count.  Closings,
\* sweeps, counts and republications in any order keep this, as long as no
\* republication overtakes an UPDATE that waits for the row.
LeaseKeepsInstance ==
  ~ overtaken /\ Leased # {} => instance_status # "unpublished"

\* The same of every behaviour: an instance is unpublished only when its last
\* lease has been closed.
UnpublishedHoldsNoLease == Leased # {} => instance_status # "unpublished"

\* An instance the owner has taken down gets no new lease.
NoLeaseAfterUnpublish ==
  [][\A j \in Job : job_status'[j] = "leased" /\ job_status[j] = "queued" =>
       instance_status = "published"]_vars

\* The instance is unpublished in the transaction that closes its last lease:
\* once all leases are closed and no transaction is open it is not draining.
LastLeaseFinalizes ==
  (/\ Leased = {} /\ unpublishing = "idle"
   /\ \A j \in Job : claiming[j] = "idle" /\ closing[j] = "idle")
    => instance_status # "draining"

\* A draining instance without leases does not stay draining: the sweep of some
\* later claim_job or get_job finishes what the closing transactions missed.
DrainingEnds ==
  (instance_status = "draining" /\ Leased = {}) ~> (instance_status # "draining")
=============================================================================
