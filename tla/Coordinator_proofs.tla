-------------------------- MODULE Coordinator_proofs -------------------------
(***************************************************************************)
(* Theorems about the coordinator as a service, for any number of jobs,    *)
(* events, replicas and stored rows: what the row locks of claim_job and   *)
(* unpublish_model achieve, what the client of a stream gets, that         *)
(* replicas agree on their keys, and that the rate limiter lets through    *)
(* what its limits allow and refuses nothing else.                         *)
(*                                                                         *)
(* Each part has an inductive invariant of its own; a part that does not   *)
(* run stays as it is, so the invariants hold whichever part is in focus.  *)
(***************************************************************************)
EXTENDS MCCoordinator, FiniteSetTheorems, FunctionTheorems, SequenceTheorems,
        WellFoundedInduction, TLAPS

\* A step of the whole is a step of each part or leaves it alone.
LEMMA PartSteps ==
  ASSUME [Next]_vars
  PROVE  /\ [Drain!Next]_drain /\ [Stream!Next]_stream
         /\ [Service!Next]_service /\ [Limiter!Next]_limiter
  BY DEF Next, vars

-----------------------------------------------------------------------------
(***************************************************************************)
(* Draining an instance                                                    *)
(***************************************************************************)
\* No statement leaves the values its columns and its transaction may take.
LEMMA DrainTypeStep == Drain!TypeOK /\ [Drain!Next]_drain => Drain!TypeOK'
<1> SUFFICES ASSUME Drain!TypeOK, [Drain!Next]_drain PROVE Drain!TypeOK'
  OBVIOUS
<1> USE DEF Drain!TypeOK
<1>1. ASSUME NEW j \in Job, Drain!SelectCandidate(j) \/ Drain!LockShared(j) \/ Drain!CommitLease(j)
      PROVE  Drain!TypeOK'
  BY <1>1 DEF Drain!SelectCandidate, Drain!LockShared, Drain!CommitLease
<1>2. ASSUME NEW j \in Job, Drain!FinalizeReads(j) \/ Drain!CommitClose(j) \/ Drain!FinalizeCommits(j)
      PROVE  Drain!TypeOK'
  BY <1>2 DEF Drain!FinalizeReads, Drain!CommitClose, Drain!FinalizeCommits
<1>3. ASSUME Drain!SweepReads \/ Drain!SweepCommits PROVE Drain!TypeOK'
  BY <1>3 DEF Drain!SweepReads, Drain!SweepCommits
<1>4. ASSUME Drain!LockInstance \/ Drain!CountLeases \/ Drain!CommitUnpublish \/ Drain!PublishModel
      PROVE  Drain!TypeOK'
  BY <1>4 DEF Drain!LockInstance, Drain!CountLeases, Drain!CommitUnpublish, Drain!PublishModel
<1>5. CASE UNCHANGED drain
  BY <1>5 DEF drain
<1>6. QED
  BY <1>1, <1>2, <1>3, <1>4, <1>5 DEF Drain!Next

-----------------------------------------------------------------------------
(***************************************************************************)
(* The shared lock: while a claim holds it the instance stays published    *)
(* and unpublish_model has not got past its SELECT ... FOR UPDATE.         *)
(***************************************************************************)
SharedLock ==
  /\ sharing = {j \in Job : claiming[j] = "locked"}
  /\ sharing # {} => instance_status = "published" /\ unpublishing = "idle"

\* Every statement respects the lock.
LEMMA SharedLockStep == Drain!TypeOK /\ SharedLock /\ [Drain!Next]_drain => SharedLock'
<1> SUFFICES ASSUME Drain!TypeOK, SharedLock, [Drain!Next]_drain PROVE SharedLock'
  OBVIOUS
<1> USE DEF Drain!TypeOK, SharedLock, Drain!RowFree, Drain!RowUnshared
<1>1. ASSUME NEW j \in Job, Drain!SelectCandidate(j) PROVE SharedLock'
  BY <1>1 DEF Drain!SelectCandidate
<1>2. ASSUME NEW j \in Job, Drain!LockShared(j) PROVE SharedLock'
  BY <1>2 DEF Drain!LockShared
<1>3. ASSUME NEW j \in Job, Drain!CommitLease(j) PROVE SharedLock'
  BY <1>3 DEF Drain!CommitLease
<1>4. ASSUME NEW j \in Job, Drain!FinalizeReads(j) \/ Drain!CommitClose(j) \/ Drain!FinalizeCommits(j)
      PROVE  SharedLock'
  BY <1>4 DEF Drain!FinalizeReads, Drain!CommitClose, Drain!FinalizeCommits
<1>5. ASSUME Drain!SweepReads \/ Drain!SweepCommits PROVE SharedLock'
  BY <1>5 DEF Drain!SweepReads, Drain!SweepCommits
<1>6. ASSUME Drain!LockInstance \/ Drain!CountLeases \/ Drain!CommitUnpublish \/ Drain!PublishModel
      PROVE  SharedLock'
  BY <1>6 DEF Drain!LockInstance, Drain!CountLeases, Drain!CommitUnpublish, Drain!PublishModel
<1>7. CASE UNCHANGED drain
  BY <1>7 DEF drain
<1>8. QED
  BY <1>1, <1>2, <1>3, <1>4, <1>5, <1>6, <1>7 DEF Drain!Next

\* At the start no transaction is open.
LEMMA DrainInit == Drain!Init => Drain!TypeOK /\ SharedLock
  BY DEF Drain!Init, Drain!TypeOK, SharedLock

\* The lock is respected in every state.
LEMMA DrainAlways == Spec => [](Drain!TypeOK /\ SharedLock)
<1>1. Init => Drain!TypeOK /\ SharedLock
  BY DrainInit DEF Init
<1>2. Drain!TypeOK /\ SharedLock /\ [Next]_vars => (Drain!TypeOK /\ SharedLock)'
  BY PartSteps, DrainTypeStep, SharedLockStep
<1>3. QED
  BY <1>1, <1>2, PTL DEF Spec

\* A claim never writes a lease on an instance its owner has taken down, even
\* if it chose the instance before, and even if the owner publishes it again.
THEOREM NoLeaseOnceUnpublished == Spec => NoLeaseAfterUnpublish
<1>1. Drain!TypeOK /\ SharedLock /\ [Next]_vars =>
        [\A j \in Job : job_status'[j] = "leased" /\ job_status[j] = "queued" =>
           instance_status = "published"]_(Drain!vars)
  <2> SUFFICES ASSUME Drain!TypeOK, SharedLock, [Drain!Next]_drain, NEW k \in Job,
                      job_status'[k] = "leased", job_status[k] = "queued"
               PROVE  instance_status = "published"
    BY PartSteps
  <2> USE DEF Drain!TypeOK, SharedLock
  <2>1. ASSUME NEW j \in Job, Drain!CommitLease(j) PROVE instance_status = "published"
    BY <2>1 DEF Drain!CommitLease
  <2>2. ASSUME NEW j \in Job, Drain!CommitClose(j) \/ Drain!FinalizeCommits(j) PROVE FALSE
    BY <2>2 DEF Drain!CommitClose, Drain!FinalizeCommits
  <2>3. ASSUME UNCHANGED job_status PROVE FALSE
    BY <2>3
  <2>4. QED
    BY <2>1, <2>2, <2>3 DEF Drain!Next, Drain!SelectCandidate, Drain!LockShared, Drain!FinalizeReads,
       Drain!SweepReads, Drain!SweepCommits, Drain!LockInstance, Drain!CountLeases, Drain!CommitUnpublish,
       Drain!PublishModel, drain
<1>2. QED
  BY <1>1, DrainAlways, PTL DEF Spec, NoLeaseAfterUnpublish, Drain!NoLeaseAfterUnpublish

-----------------------------------------------------------------------------
(***************************************************************************)
(* A conclusion once drawn stays true while no republication overtakes it: *)
(* what the count, the sweep or a closing transaction saw of the leases    *)
(* can only shrink until it commits.                                       *)
(***************************************************************************)
Conclusions ==
  ~ overtaken =>
  /\ instance_status = "unpublished" => Drain!Leased = {}
  /\ unpublishing = "unpublished" => Drain!Leased = {}
  /\ sweeping = "matched" => instance_status # "published" /\ Drain!Leased = {}
  /\ \A j \in Job : closing[j] = "matched" =>
       instance_status # "published" /\ Drain!Leased \subseteq {j}

\* Every statement keeps the conclusions of the open transactions true.
LEMMA ConclusionsStep ==
  Drain!TypeOK /\ SharedLock /\ Conclusions /\ [Drain!Next]_drain => Conclusions'
<1> SUFFICES ASSUME Drain!TypeOK, SharedLock, Conclusions, [Drain!Next]_drain, ~ overtaken'
             PROVE  Conclusions'
  BY DEF Conclusions
<1> USE DEF Drain!TypeOK, SharedLock, Conclusions, Drain!RowFree, Drain!RowUnshared, Drain!Leased
<1>1. ASSUME NEW j \in Job, Drain!SelectCandidate(j) PROVE Conclusions'
  BY <1>1 DEF Drain!SelectCandidate
<1>2. ASSUME NEW j \in Job, Drain!LockShared(j) PROVE Conclusions'
  BY <1>2 DEF Drain!LockShared
<1>3. ASSUME NEW j \in Job, Drain!CommitLease(j) PROVE Conclusions'
  <2>1. instance_status = "published" /\ unpublishing = "idle"
    BY <1>3 DEF Drain!CommitLease
  <2>2. sweeping # "matched" /\ \A k \in Job : closing[k] # "matched"
    BY <1>3, <2>1 DEF Drain!CommitLease
  <2>3. QED
    BY <1>3, <2>1, <2>2 DEF Drain!CommitLease
<1>4. ASSUME NEW j \in Job, Drain!FinalizeReads(j) PROVE Conclusions'
  BY <1>4 DEF Drain!FinalizeReads
<1>5. ASSUME NEW j \in Job, Drain!CommitClose(j) PROVE Conclusions'
  BY <1>5 DEF Drain!CommitClose
<1>6. ASSUME NEW j \in Job, Drain!FinalizeCommits(j) PROVE Conclusions'
  <2>1. Drain!Leased' = {}
    BY <1>6 DEF Drain!FinalizeCommits
  <2>2. instance_status' # "published"
    BY <1>6 DEF Drain!FinalizeCommits
  <2>3. QED
    BY <1>6, <2>1, <2>2 DEF Drain!FinalizeCommits
<1>7. ASSUME Drain!SweepReads PROVE Conclusions'
  BY <1>7 DEF Drain!SweepReads
<1>8. ASSUME Drain!SweepCommits PROVE Conclusions'
  BY <1>8 DEF Drain!SweepCommits
<1>9. ASSUME Drain!LockInstance PROVE Conclusions'
  BY <1>9 DEF Drain!LockInstance
<1>10. ASSUME Drain!CountLeases PROVE Conclusions'
  BY <1>10 DEF Drain!CountLeases
<1>11. ASSUME Drain!CommitUnpublish PROVE Conclusions'
  BY <1>11 DEF Drain!CommitUnpublish
<1>12. ASSUME Drain!PublishModel PROVE Conclusions'
  <2>1. sweeping # "matched" /\ \A k \in Job : closing[k] # "matched"
    BY <1>12 DEF Drain!PublishModel, Drain!FinalizeWaits
  <2>2. QED
    BY <1>12, <2>1 DEF Drain!PublishModel
<1>13. CASE UNCHANGED drain
  BY <1>13 DEF drain
<1>14. QED
  BY <1>1, <1>2, <1>3, <1>4, <1>5, <1>6, <1>7, <1>8, <1>9, <1>10, <1>11, <1>12,
     <1>13 DEF Drain!Next

\* None of the concurrent ways of taking the instance down (the owner's own
\* count, a closing transaction, the sweep) unpublishes it under a lease, for
\* any number of jobs, unless a republication overtook a waiting UPDATE.
THEOREM LeasesKeepInstance == Spec => []LeaseKeepsInstance
<1>1. Init => Conclusions
  BY DEF Init, Drain!Init, Conclusions, Drain!Leased
<1>2. Drain!TypeOK /\ Conclusions => LeaseKeepsInstance
  BY DEF Conclusions, LeaseKeepsInstance, Drain!LeaseKeepsInstance
<1>3. Drain!TypeOK /\ SharedLock /\ Conclusions /\ [Next]_vars => Conclusions'
  BY PartSteps, ConclusionsStep
<1>4. QED
  BY <1>1, <1>2, <1>3, DrainAlways, PTL DEF Spec

-----------------------------------------------------------------------------
(***************************************************************************)
(* Streams.  The log of a job is a run of data events from 0 on, which may *)
(* be closed by upstream_done and then grows no more.                      *)
(***************************************************************************)
DataEvent(i) == [sequence |-> i, kind |-> "data"]
DoneEvent(i) == [sequence |-> i, kind |-> "upstream_done"]
OpenLog(n) == {DataEvent(i) : i \in 0 .. n - 1}
ClosedLog(n) == OpenLog(n) \cup {DoneEvent(n)}

\* The parts' Cardinality is the one of FiniteSets.
LEMMA StreamCardinality == ASSUME NEW S PROVE Stream!Cardinality(S) = Cardinality(S)
  BY DEF Stream!Cardinality, Cardinality

\* An interval from a up to, not including, b.
LEMMA IntervalCardinality ==
  ASSUME NEW a \in Nat, NEW b \in Nat, a <= b
  PROVE  IsFiniteSet(a .. b - 1) /\ Cardinality(a .. b - 1) = b - a
<1>1. CASE a = b
  <2>1. a .. b - 1 = {}
    BY <1>1
  <2>2. QED
    BY <1>1, <2>1, FS_EmptySet
<1>2. CASE a < b
  <2>1. a \in Int /\ b - 1 \in Int /\ a <= b - 1
    BY <1>2
  <2>2. Cardinality(a .. b - 1) = IF a > b - 1 THEN 0 ELSE (b - 1) - a + 1
    BY <2>1, FS_Interval
  <2>3. QED
    BY <2>1, <2>2, FS_Interval
<1>3. QED
  BY <1>1, <1>2

\* How many events a log has.
LEMMA OpenCardinality ==
  ASSUME NEW n \in Nat
  PROVE  IsFiniteSet(OpenLog(n)) /\ Cardinality(OpenLog(n)) = n
<1> DEFINE f == [i \in 0 .. n - 1 |-> DataEvent(i)]
<1>1. IsFiniteSet(0 .. n - 1) /\ Cardinality(0 .. n - 1) = n
  BY IntervalCardinality
<1>2. f \in Bijection(0 .. n - 1, OpenLog(n))
  <2>1. \A i, j \in 0 .. n - 1 : f[i] = f[j] => i = j
    BY DEF DataEvent
  <2>2. f \in [0 .. n - 1 -> OpenLog(n)]
    BY DEF OpenLog
  <2>3. \A e \in OpenLog(n) : \E i \in 0 .. n - 1 : f[i] = e
    BY DEF OpenLog
  <2>4. QED
    BY <2>1, <2>2, <2>3, Fun_IsBij
<1>3. QED
  BY <1>1, <1>2, FS_Bijection DEF ExistsBijection

LEMMA ClosedCardinality ==
  ASSUME NEW n \in Nat
  PROVE  Cardinality(ClosedLog(n)) = n + 1
<1>1. DoneEvent(n) \notin OpenLog(n)
  BY DEF OpenLog, DoneEvent, DataEvent
<1>2. QED
  BY <1>1, OpenCardinality, FS_AddElement DEF ClosedLog

LogSound ==
  \E n \in 0 .. MaxEvents :
    \/ rows = OpenLog(n)
    \/ 1 <= n /\ n < MaxEvents /\ rows = ClosedLog(n)

\* What a reader finds in an open log, and in a closed one.
LEMMA OpenLogFacts ==
  ASSUME NEW n \in 0 .. MaxEvents, rows = OpenLog(n)
  PROVE  /\ Stream!Cardinality(rows) = n /\ Stream!Data = 0 .. n - 1
         /\ ~ Stream!UpstreamDone /\ ~ Stream!Complete
<1>1. n \in Nat
  BY StreamAssumption
<1>2. Stream!Cardinality(rows) = n
  BY <1>1, OpenCardinality, StreamCardinality
<1>3. \A e \in rows : e.kind = "data" /\ e.sequence \in 0 .. n - 1
  BY DEF OpenLog, DataEvent
<1>4. ~ Stream!UpstreamDone
  BY <1>3 DEF Stream!UpstreamDone
<1>5. Stream!Data = 0 .. n - 1
  <2>1. Stream!Data \subseteq 0 .. n - 1
    BY <1>3 DEF Stream!Data
  <2>2. \A i \in 0 .. n - 1 : DataEvent(i) \in rows /\ DataEvent(i).kind = "data"
                              /\ DataEvent(i).sequence = i
    BY DEF OpenLog, DataEvent
  <2>3. 0 .. n - 1 \subseteq Stream!Data
    BY <2>2 DEF Stream!Data
  <2>4. QED
    BY <2>1, <2>3
<1>6. ~ Stream!Complete
  <2>1. {e \in rows : e.kind = "upstream_done"} = {}
    BY <1>3
  <2>2. QED
    BY <2>1 DEF Stream!Complete
<1>7. QED
  BY <1>2, <1>4, <1>5, <1>6

LEMMA ClosedLogFacts ==
  ASSUME NEW n \in 0 .. MaxEvents, 1 <= n, rows = ClosedLog(n)
  PROVE  /\ Stream!Cardinality(rows) = n + 1 /\ Stream!Data = 0 .. n - 1
         /\ Stream!UpstreamDone /\ Stream!Complete
<1>1. n \in Nat
  BY StreamAssumption
<1>2. Stream!Cardinality(rows) = n + 1
  BY <1>1, ClosedCardinality, StreamCardinality
<1>3. \A e \in rows : \/ e.kind = "data" /\ e.sequence \in 0 .. n - 1
                      \/ e = DoneEvent(n)
  BY DEF ClosedLog, OpenLog, DataEvent
<1>4. DoneEvent(n) \in rows /\ DoneEvent(n).kind = "upstream_done" /\ DoneEvent(n).sequence = n
  BY DEF ClosedLog, DoneEvent
<1>5. \A i \in 0 .. n - 1 : DataEvent(i) \in rows /\ DataEvent(i).kind = "data"
                            /\ DataEvent(i).sequence = i
  BY DEF ClosedLog, OpenLog, DataEvent
<1>6. Stream!Data = 0 .. n - 1
  <2>1. Stream!Data \subseteq 0 .. n - 1
    BY <1>3, <1>4 DEF Stream!Data
  <2>2. 0 .. n - 1 \subseteq Stream!Data
    BY <1>5 DEF Stream!Data
  <2>3. QED
    BY <2>1, <2>2
<1>7. Stream!Complete
  <2>1. {e.sequence : e \in rows} = 0 .. n
    <3>1. {e.sequence : e \in rows} \subseteq 0 .. n
      BY <1>1, <1>3, <1>4
    <3>2. \A i \in 0 .. n : i \in 0 .. n - 1 \/ i = n
      BY <1>1
    <3>3. \A i \in 0 .. n : \E e \in rows : i = e.sequence
      BY <1>4, <1>5, <3>2
    <3>4. 0 .. n \subseteq {e.sequence : e \in rows}
      BY <3>3
    <3>5. QED
      BY <3>1, <3>4
  <2>2. {e \in rows : e.kind = "upstream_done"} = {DoneEvent(n)}
    BY <1>3, <1>4
  <2>3. Stream!Cardinality(rows) - 1 = n /\ Stream!Cardinality(rows) >= 2
    BY <1>1, <1>2
  <2>4. QED
    BY <2>1, <2>2, <2>3 DEF Stream!Complete, DoneEvent
<1>8. Stream!UpstreamDone
  BY <1>4 DEF Stream!UpstreamDone
<1>9. QED
  BY <1>2, <1>6, <1>7, <1>8

\* An upload that is accepted keeps the log's shape; a closed log stays.
LEMMA AppendKeepsLog ==
  ASSUME LogSound, NEW event \in Stream!Event, Stream!Replayed(event) \/ Stream!Appendable(event),
         rows' = rows \cup {event}
  PROVE  LogSound' /\ (Stream!UpstreamDone => rows' = rows)
<1> USE StreamAssumption
<1>0. event = DataEvent(event.sequence) \/ event = DoneEvent(event.sequence)
  BY DEF Stream!Event, DataEvent, DoneEvent
<1>1. PICK n \in 0 .. MaxEvents : \/ rows = OpenLog(n)
                                  \/ 1 <= n /\ n < MaxEvents /\ rows = ClosedLog(n)
  BY DEF LogSound
<1>2. CASE Stream!Replayed(event)
  <2>1. PICK row \in rows : row.sequence = event.sequence /\ row.kind = event.kind
    BY <1>2 DEF Stream!Replayed
  <2>2. row = DataEvent(row.sequence) \/ row = DoneEvent(row.sequence)
    BY <1>1, <2>1 DEF OpenLog, ClosedLog, DataEvent, DoneEvent
  <2>3. row = event
    BY <1>0, <2>1, <2>2 DEF DataEvent, DoneEvent
  <2>4. rows' = rows
    BY <2>1, <2>3
  <2>5. QED
    BY <1>1, <2>4 DEF LogSound
<1>3. CASE Stream!Appendable(event)
  <2>1. rows = OpenLog(n)
    BY <1>1, <1>3, ClosedLogFacts DEF Stream!Appendable
  <2>2. ~ Stream!UpstreamDone /\ event.sequence = n /\ n < MaxEvents
    BY <1>3, <2>1, OpenLogFacts DEF Stream!Appendable
  <2>3. CASE event = DataEvent(n)
    <3>1. n + 1 \in 0 .. MaxEvents /\ 0 .. (n + 1) - 1 = (0 .. n - 1) \cup {n}
      BY <2>2
    <3>2. rows' = OpenLog(n + 1)
      BY <2>1, <2>3, <3>1 DEF OpenLog
    <3>3. QED
      BY <2>2, <3>1, <3>2 DEF LogSound
  <2>4. CASE event = DoneEvent(n)
    <3>1. rows # {}
      BY <1>3, <2>4 DEF Stream!Appendable, DoneEvent
    <3>2. n >= 1
      BY <2>1, <3>1 DEF OpenLog
    <3>3. rows' = ClosedLog(n)
      BY <2>1, <2>4 DEF ClosedLog
    <3>4. QED
      BY <2>2, <3>2, <3>3 DEF LogSound
  <2>5. QED
    BY <1>0, <2>2, <2>3, <2>4
<1>4. QED
  BY <1>2, <1>3

-----------------------------------------------------------------------------
(***************************************************************************)
(* The gateway reads the log in pages.                                     *)
(***************************************************************************)
\* A page of an unbroken log is an interval from the cursor on.
LEMMA PageIsInterval ==
  ASSUME NEW n \in Nat, Stream!Data = 0 .. n - 1, NEW c \in Nat, c <= n
  PROVE  \E b \in c .. n : b <= c + PageSize /\ Stream!Page(c) = c .. b - 1
<1> USE StreamAssumption
<1>1. \A s \in 0 .. n - 1 : s >= c =>
        Stream!Cardinality({t \in Stream!Data : c <= t /\ t < s}) = s - c
  <2> SUFFICES ASSUME NEW s \in 0 .. n - 1, s >= c
               PROVE  Stream!Cardinality({t \in Stream!Data : c <= t /\ t < s}) = s - c
    OBVIOUS
  <2>1. {t \in Stream!Data : c <= t /\ t < s} = c .. s - 1
    OBVIOUS
  <2>2. Cardinality(c .. s - 1) = s - c
    BY IntervalCardinality
  <2>3. QED
    BY <2>1, <2>2, StreamCardinality
<1>2. Stream!Page(c) = {s \in 0 .. n - 1 : s >= c /\ s - c < PageSize}
  BY <1>1 DEF Stream!Page
<1>3. CASE n <= c + PageSize
  <2>1. Stream!Page(c) = c .. n - 1
    BY <1>2, <1>3
  <2>2. QED
    BY <1>3, <2>1
<1>4. CASE c + PageSize < n
  <2> DEFINE b == c + PageSize
  <2>1. Stream!Page(c) = c .. b - 1
    BY <1>2, <1>4
  <2>2. b \in c .. n /\ b <= c + PageSize
    BY <1>4
  <2> HIDE DEF b
  <2>3. QED
    BY <2>1, <2>2
<1>5. QED
  BY <1>3, <1>4

\* In order, an interval is counted through.
LEMMA IntervalInOrder ==
  ASSUME NEW a \in Nat, NEW b \in Nat, a <= b
  PROVE  Stream!InOrder(a .. b - 1) = [k \in 1 .. b - a |-> a + k - 1]
<1> DEFINE S == a .. b - 1
<1>1. Stream!Cardinality(S) = b - a
  BY IntervalCardinality, StreamCardinality
<1>2. \A s \in S : Stream!Cardinality({t \in S : t < s}) = s - a
  <2> SUFFICES ASSUME NEW s \in S PROVE Stream!Cardinality({t \in S : t < s}) = s - a
    OBVIOUS
  <2>1. {t \in S : t < s} = a .. s - 1
    OBVIOUS
  <2>2. Cardinality(a .. s - 1) = s - a
    BY IntervalCardinality
  <2>3. QED
    BY <2>1, <2>2, StreamCardinality
<1>3. ASSUME NEW k \in 1 .. b - a
      PROVE  (CHOOSE s \in S : Stream!Cardinality({t \in S : t < s}) = k - 1) = a + k - 1
  <2>1. a + k - 1 \in S /\ \A s \in S : s - a = k - 1 <=> s = a + k - 1
    OBVIOUS
  <2>2. QED
    BY <1>2, <2>1
<1> HIDE DEF S
<1>4. Stream!InOrder(S) = [k \in 1 .. b - a |-> a + k - 1]
  BY <1>1, <1>3 DEF Stream!InOrder
<1>5. QED
  BY <1>4 DEF S

StreamStatus == {"queued", "leased", "succeeded", "failed", "cancelled"}

StreamType ==
  /\ Stream!TypeOK
  /\ frames \in Seq(Nat) /\ pending \in Seq(Nat)
  /\ reading # None => reading \in [status : StreamStatus, events : Seq(Nat) \cup {None}]
  /\ submitting # None => submitting.sequence = next

\* What was written and what is pending is the beginning of the log.
ShownSound ==
  /\ \A k \in 1 .. Len(frames) : frames[k] = k - 1
  /\ \A k \in 1 .. Len(pending) : pending[k] = Len(frames) + k - 1
  /\ next_sequence = Len(frames) + Len(pending)
  /\ 0 .. next_sequence - 1 \subseteq Stream!Data

\* A read goes on from there, and what it has seen of the job is still true.
ReadSound ==
  reading # None =>
    /\ pending = <<>> /\ terminal = None
    /\ reading.status = "succeeded" => status = "succeeded"
    /\ reading.events # None =>
         /\ Len(reading.events) <= PageSize
         /\ \A k \in 1 .. Len(reading.events) : reading.events[k] = next_sequence + k - 1
         /\ 0 .. next_sequence + Len(reading.events) - 1 \subseteq Stream!Data

\* A result stands on a closed log, and [DONE] on a job settled by it.
EndSound ==
  /\ validated \/ status = "succeeded" => Stream!UpstreamDone
  /\ terminal # "corrupt"
  /\ terminal = "done" \/ ended = "done" =>
       status = "succeeded" /\ Stream!Data = 0 .. next_sequence - 1
  /\ ended # None => pending = <<>>

StreamInv == StreamType /\ LogSound /\ ShownSound /\ ReadSound /\ EndSound

\* The data of a log are counted from 0 on.
LEMMA DataIsInterval ==
  ASSUME LogSound
  PROVE  \E n \in 0 .. MaxEvents : Stream!Data = 0 .. n - 1
<1>1. PICK n \in 0 .. MaxEvents : \/ rows = OpenLog(n)
                                  \/ 1 <= n /\ n < MaxEvents /\ rows = ClosedLog(n)
  BY DEF LogSound
<1>2. Stream!Data = 0 .. n - 1
  BY <1>1, OpenLogFacts, ClosedLogFacts
<1>3. QED
  BY <1>2

\* The cursor stands in the log.
LEMMA CursorInLog ==
  ASSUME NEW n \in Nat, Stream!Data = 0 .. n - 1, NEW c \in Nat, 0 .. c - 1 \subseteq Stream!Data
  PROVE  c <= n
<1>1. CASE c = 0
  BY <1>1
<1>2. CASE c > 0
  <2>1. c - 1 \in 0 .. c - 1
    BY <1>2
  <2>2. QED
    BY <2>1
<1>3. QED
  BY <1>1, <1>2

\* The second read finds the events that come next.
LEMMA RowsRead ==
  ASSUME StreamInv, Stream!ReadRows
  PROVE  \E m \in Nat : /\ m <= PageSize
                        /\ reading'.events = [k \in 1 .. m |-> next_sequence + k - 1]
                        /\ 0 .. next_sequence + m - 1 \subseteq Stream!Data
                        /\ reading' = [reading EXCEPT !.events = reading'.events]
                        /\ reading'.status = reading.status
<1> USE StreamAssumption
<1>1. PICK n \in 0 .. MaxEvents : Stream!Data = 0 .. n - 1
  BY DataIsInterval DEF StreamInv
<1>2. next_sequence \in Nat /\ next_sequence <= n
  <2>1. next_sequence \in Nat /\ n \in Nat
    BY DEF StreamInv, StreamType, Stream!TypeOK
  <2>2. 0 .. next_sequence - 1 \subseteq Stream!Data
    BY DEF StreamInv, ShownSound
  <2>3. QED
    BY <1>1, <2>1, <2>2, CursorInLog
<1>3. reading \in [status : StreamStatus, events : Seq(Nat) \cup {None}]
  BY DEF StreamInv, StreamType, Stream!ReadRows
<1>4. CASE reading.status = "queued"
  <2>1. reading' = [reading EXCEPT !.events = <<>>]
    BY <1>4 DEF Stream!ReadRows
  <2>2. reading'.events = <<>> /\ reading'.status = reading.status
    BY <1>3, <2>1
  <2>3. <<>> = [k \in 1 .. 0 |-> next_sequence + k - 1]
    OBVIOUS
  <2>4. 0 .. next_sequence + 0 - 1 \subseteq Stream!Data
    BY <1>2 DEF StreamInv, ShownSound
  <2>5. QED
    BY <2>1, <2>2, <2>3, <2>4
<1>5. CASE reading.status # "queued"
  <2>1. PICK b \in next_sequence .. n :
          b <= next_sequence + PageSize /\ Stream!Page(next_sequence) = next_sequence .. b - 1
    BY <1>1, <1>2, PageIsInterval
  <2> DEFINE m == b - next_sequence
  <2>2. m \in Nat /\ m <= PageSize /\ b \in Nat /\ next_sequence <= b
    BY <1>2, <2>1
  <2>3. Stream!InOrder(Stream!Page(next_sequence)) = [k \in 1 .. m |-> next_sequence + k - 1]
    BY <1>2, <2>1, <2>2, IntervalInOrder
  <2>4. reading' = [reading EXCEPT !.events = [k \in 1 .. m |-> next_sequence + k - 1]]
    BY <1>5, <2>3 DEF Stream!ReadRows
  <2>5. 0 .. next_sequence + m - 1 \subseteq Stream!Data
    BY <1>1, <1>2, <2>1
  <2> HIDE DEF m
  <2>6. reading'.events = [k \in 1 .. m |-> next_sequence + k - 1]
        /\ reading'.status = reading.status
    BY <1>3, <2>4
  <2>7. QED
    BY <2>2, <2>4, <2>5, <2>6
<1>6. QED
  BY <1>4, <1>5

\* The third read hands them over, and concludes only what is so.
LEMMA StateRead ==
  ASSUME StreamInv, Stream!ReadState
  PROVE  /\ pending' = reading.events /\ pending' \in Seq(Nat)
         /\ next_sequence' = next_sequence + Len(reading.events)
         /\ reading' = None
         /\ terminal' \in {None, "done", "error"}
         /\ terminal' = "done" =>
              status = "succeeded" /\ Stream!Data = 0 .. next_sequence' - 1
<1> USE StreamAssumption
<1> DEFINE page == reading.events
           cursor == IF page = <<>> THEN next_sequence ELSE page[Len(page)] + 1
           claimed == reading.status # "queued"
           more == claimed /\ \E s \in Stream!Data : s >= cursor
           verdict == Stream!Concludes(reading.status, more, claimed /\ Stream!UpstreamDone)
<1>1. page \in Seq(Nat) /\ reading # None /\ next_sequence \in Nat
  BY DEF StreamInv, StreamType, Stream!TypeOK, Stream!ReadState
<1>2. cursor = next_sequence + Len(page)
  <2>1. CASE page = <<>>
    BY <1>1, <2>1
  <2>2. CASE page # <<>>
    <3>1. Len(page) \in 1 .. Len(page)
      BY <1>1, <2>2
    <3>2. page[Len(page)] = next_sequence + Len(page) - 1
      BY <1>1, <3>1 DEF StreamInv, ReadSound, Stream!ReadState
    <3>3. QED
      BY <1>1, <2>2, <3>2
  <2>3. QED
    BY <2>1, <2>2
<1>3. terminal' = verdict /\ reading' = None
      /\ IF verdict = "corrupt" THEN UNCHANGED <<next_sequence, pending>>
                                ELSE next_sequence' = cursor /\ pending' = page
  BY DEF Stream!ReadState
<1>4. reading.status = "succeeded" => status = "succeeded" /\ Stream!UpstreamDone
  BY <1>1 DEF StreamInv, ReadSound, EndSound
<1> HIDE DEF page, cursor, more
<1>5. verdict \in {None, "done", "error"} /\ (verdict = "done" => reading.status = "succeeded" /\ ~ more)
  BY <1>4 DEF Stream!Concludes
<1>6. ASSUME reading.status = "succeeded", ~ more PROVE Stream!Data = 0 .. cursor - 1
  <2>1. PICK n \in 0 .. MaxEvents : Stream!Data = 0 .. n - 1
    BY DataIsInterval DEF StreamInv
  <2>2. cursor \in Nat /\ 0 .. cursor - 1 \subseteq Stream!Data
    BY <1>1, <1>2 DEF StreamInv, ReadSound, Stream!ReadState, page
  <2>3. cursor <= n
    BY <2>1, <2>2, CursorInLog
  <2>4. \A s \in 0 .. n - 1 : s < cursor
    BY <1>6, <2>1, <2>2 DEF more
  <2>5. n <= cursor
    BY <2>2, <2>4
  <2>6. QED
    BY <2>1, <2>2, <2>3, <2>5
<1>7. next_sequence' = cursor /\ pending' = page
  BY <1>3, <1>5
<1>8. QED
  BY <1>1, <1>2, <1>3, <1>4, <1>5, <1>6, <1>7 DEF page

\* Every step keeps the types.
LEMMA StreamTypeNext == StreamInv /\ [Stream!Next]_stream => StreamType'
<1> SUFFICES ASSUME StreamInv, [Stream!Next]_stream PROVE StreamType'
  OBVIOUS
<1> USE StreamAssumption
    DEF StreamInv, Stream!jobVars, Stream!workerVars, Stream!gatewayVars, Stream!clientVars,
        Stream!Open, Stream!Polling, Stream!HoldsLease, StreamType, Stream!TypeOK, Stream!Terminal,
        StreamStatus
<1>1. ASSUME NEW kind \in {"data", "upstream_done"}, Stream!SubmitStreamEvent(kind) PROVE StreamType'
  BY <1>1 DEF Stream!SubmitStreamEvent
<1>2. ASSUME NEW event \in posted, NEW heard \in BOOLEAN,
             Stream!AppendJobStreamEvent(event, heard)
      PROVE StreamType'
  <2>1. event \in Stream!Event /\ rows' = rows \cup {event} /\ posted' = posted
    BY <1>2 DEF Stream!AppendJobStreamEvent
  <2>2. CASE /\ submitting = event /\ submitting' = None /\ next' = next + 1
             /\ worker' = IF event.kind = "data" THEN worker ELSE "complete"
    <3>1. next \in 0 .. MaxEvents
      BY <2>1, <2>2 DEF Stream!Event
    <3>2. QED
      BY <1>2, <2>1, <2>2, <3>1 DEF Stream!AppendJobStreamEvent
  <2>3. CASE UNCHANGED <<submitting, next, worker>>
    BY <1>2, <2>1, <2>3 DEF Stream!AppendJobStreamEvent
  <2>4. QED
    BY <1>2, <2>2, <2>3 DEF Stream!AppendJobStreamEvent
<1>3. ASSUME Stream!ClaimJob PROVE StreamType'
  BY <1>3 DEF Stream!ClaimJob
<1>4. ASSUME Stream!WorkerGivesUp PROVE StreamType'
  BY <1>4 DEF Stream!WorkerGivesUp
<1>5. ASSUME Stream!ValidateJobResult PROVE StreamType'
  BY <1>5 DEF Stream!ValidateJobResult
<1>6. ASSUME Stream!CompleteJob PROVE StreamType'
  BY <1>6 DEF Stream!CompleteJob
<1>7. ASSUME Stream!JobFail PROVE StreamType'
  BY <1>7 DEF Stream!JobFail
<1>8. ASSUME Stream!LeaseExpires PROVE StreamType'
  BY <1>8 DEF Stream!LeaseExpires
<1>9. ASSUME Stream!ReapExpiredLease PROVE StreamType'
  BY <1>9 DEF Stream!ReapExpiredLease
<1>10. ASSUME Stream!WritePending PROVE StreamType'
  BY <1>10 DEF Stream!WritePending
<1>11. ASSUME Stream!WriteTerminal PROVE StreamType'
  <2>1. ended' \in {"done", "error", "timeout", "unconfirmed"}
    BY <1>11 DEF Stream!WriteTerminal, EndSound
  <2>2. QED
    BY <1>11, <2>1 DEF Stream!WriteTerminal
<1>12. ASSUME Stream!DeadlinePasses PROVE StreamType'
  BY <1>12 DEF Stream!DeadlinePasses
<1>13. ASSUME Stream!GatewayTimesOut PROVE StreamType'
  BY <1>13 DEF Stream!GatewayTimesOut
<1>14. ASSUME Stream!CancelFails PROVE StreamType'
  BY <1>14 DEF Stream!CancelFails
<1>15. ASSUME Stream!ReadJob PROVE StreamType'
  BY <1>15 DEF Stream!ReadJob
<1>16. ASSUME Stream!ReadRows PROVE StreamType'
  <2>1. PICK m \in Nat : /\ reading'.events = [k \in 1 .. m |-> next_sequence + k - 1]
                        /\ reading' = [reading EXCEPT !.events = reading'.events]
    BY <1>16, RowsRead
  <2>2. reading'.events \in Seq(Nat)
    <3>1. \A k \in 1 .. m : next_sequence + k - 1 \in Nat
      OBVIOUS
    <3>2. [k \in 1 .. m |-> next_sequence + k - 1] \in Seq(Nat)
      BY <3>1
    <3>3. QED
      BY <2>1, <3>2
  <2>3. reading' \in [status : StreamStatus, events : Seq(Nat) \cup {None}]
    BY <1>16, <2>1, <2>2 DEF Stream!ReadRows
  <2>4. QED
    BY <1>16, <2>3 DEF Stream!ReadRows
<1>17. ASSUME Stream!ReadState PROVE StreamType'
  <2>1. /\ pending' \in Seq(Nat) /\ Len(pending') <= PageSize
        /\ next_sequence' \in Nat /\ reading' = None /\ terminal' \in {None, "done", "error"}
        /\ 0 .. next_sequence' - 1 \subseteq Stream!Data
    BY <1>17, StateRead DEF ReadSound, Stream!ReadState
  <2>2. PICK n \in 0 .. MaxEvents : Stream!Data = 0 .. n - 1
    BY DataIsInterval
  <2>3. n \in Nat /\ next_sequence' <= n
    <3>1. n \in Nat
      OBVIOUS
    <3> DEFINE c == next_sequence'
    <3>2. c \in Nat /\ 0 .. c - 1 \subseteq Stream!Data
      BY <2>1
    <3> HIDE DEF c
    <3>3. c <= n
      BY <2>2, <3>1, <3>2, CursorInLog
    <3>4. QED
      BY <3>1, <3>3 DEF c
  <2>4. QED
    BY <1>17, <2>1, <2>2, <2>3 DEF Stream!ReadState
<1>18. ASSUME Stream!ReadFails PROVE StreamType'
  BY <1>18 DEF Stream!ReadFails
<1>19. ASSUME Stream!ClientDisconnects PROVE StreamType'
  <2>1. connected' \in BOOLEAN
    BY <1>19 DEF Stream!ClientDisconnects
  <2>2. QED
    BY <1>19, <2>1 DEF Stream!ClientDisconnects
<1>20. CASE UNCHANGED stream
  BY <1>20 DEF stream
<1>21. QED
  BY <1>1, <1>2, <1>3, <1>4, <1>5, <1>6, <1>7, <1>8, <1>9, <1>10, <1>11, <1>12, <1>13, <1>14, <1>15, <1>16, <1>17, <1>18, <1>19, <1>20
     DEF Stream!Next, Stream!WorkerNext, Stream!GatewayNext, Stream!ReadStep

\* The log keeps its shape; only an upload that is accepted touches it.
LEMMA LogNext ==
  StreamInv /\ [Stream!Next]_stream =>
    /\ LogSound' /\ Stream!Data \subseteq Stream!Data'
    /\ Stream!UpstreamDone \/ status \in Stream!Terminal => rows' = rows
<1> SUFFICES ASSUME StreamInv, [Stream!Next]_stream
             PROVE  /\ LogSound' /\ Stream!Data \subseteq Stream!Data'
                    /\ Stream!UpstreamDone \/ status \in Stream!Terminal => rows' = rows
  OBVIOUS
<1>1. ASSUME NEW event \in posted, NEW heard \in BOOLEAN,
             Stream!AppendJobStreamEvent(event, heard)
      PROVE  /\ LogSound' /\ Stream!Data \subseteq Stream!Data'
             /\ Stream!UpstreamDone \/ status \in Stream!Terminal => rows' = rows
  <2>1. /\ event \in Stream!Event /\ rows' = rows \cup {event}
        /\ Stream!Replayed(event) \/ Stream!Appendable(event)
        /\ status \notin Stream!Terminal
    BY <1>1 DEF Stream!AppendJobStreamEvent, StreamInv, StreamType, Stream!TypeOK,
       Stream!HoldsLease, Stream!Terminal
  <2>2. LogSound' /\ (Stream!UpstreamDone => rows' = rows)
    BY <2>1, AppendKeepsLog DEF StreamInv
  <2>3. QED
    BY <2>1, <2>2 DEF Stream!Data
<1>2. ASSUME rows' = rows
      PROVE  /\ LogSound' /\ Stream!Data \subseteq Stream!Data'
             /\ Stream!UpstreamDone \/ status \in Stream!Terminal => rows' = rows
  BY <1>2 DEF StreamInv, LogSound, Stream!Data
<1>3. \/ rows' = rows
      \/ \E event \in posted, heard \in BOOLEAN : Stream!AppendJobStreamEvent(event, heard)
  BY DEF Stream!Next, Stream!WorkerNext, Stream!GatewayNext, Stream!ReadStep, stream,
     Stream!jobVars, Stream!ClaimJob, Stream!SubmitStreamEvent, Stream!WorkerGivesUp,
     Stream!ValidateJobResult, Stream!CompleteJob, Stream!JobFail, Stream!LeaseExpires,
     Stream!ReapExpiredLease, Stream!WritePending, Stream!WriteTerminal,
     Stream!DeadlinePasses, Stream!GatewayTimesOut, Stream!CancelFails, Stream!ReadJob,
     Stream!ReadRows, Stream!ReadState, Stream!ReadFails, Stream!ClientDisconnects
<1>4. QED
  BY <1>1, <1>2, <1>3

\* What the client is shown stays the beginning of the log.
LEMMA ShownNext == StreamInv /\ [Stream!Next]_stream => ShownSound'
<1> SUFFICES ASSUME StreamInv, [Stream!Next]_stream PROVE ShownSound'
  OBVIOUS
<1> USE StreamAssumption
    DEF StreamInv, Stream!jobVars, Stream!workerVars, Stream!gatewayVars, Stream!clientVars,
        Stream!Open, Stream!Polling, Stream!HoldsLease, ShownSound, StreamType, Stream!Data
<1>1. ASSUME NEW kind \in {"data", "upstream_done"}, Stream!SubmitStreamEvent(kind) PROVE ShownSound'
  BY <1>1 DEF Stream!SubmitStreamEvent
<1>2. ASSUME NEW event \in posted, NEW heard \in BOOLEAN,
             Stream!AppendJobStreamEvent(event, heard)
      PROVE ShownSound'
  BY <1>2 DEF Stream!AppendJobStreamEvent
<1>3. ASSUME Stream!ClaimJob PROVE ShownSound'
  BY <1>3 DEF Stream!ClaimJob
<1>4. ASSUME Stream!WorkerGivesUp PROVE ShownSound'
  BY <1>4 DEF Stream!WorkerGivesUp
<1>5. ASSUME Stream!ValidateJobResult PROVE ShownSound'
  BY <1>5 DEF Stream!ValidateJobResult
<1>6. ASSUME Stream!CompleteJob PROVE ShownSound'
  BY <1>6 DEF Stream!CompleteJob
<1>7. ASSUME Stream!JobFail PROVE ShownSound'
  BY <1>7 DEF Stream!JobFail
<1>8. ASSUME Stream!LeaseExpires PROVE ShownSound'
  BY <1>8 DEF Stream!LeaseExpires
<1>9. ASSUME Stream!ReapExpiredLease PROVE ShownSound'
  BY <1>9 DEF Stream!ReapExpiredLease
<1>10. ASSUME Stream!WritePending PROVE ShownSound'
  <2>1. /\ pending # <<>> /\ pending' = Tail(pending) /\ frames' = Append(frames, Head(pending))
        /\ next_sequence' = next_sequence /\ rows' = rows
    BY <1>10 DEF Stream!WritePending
  <2>2. /\ Len(pending') = Len(pending) - 1 /\ Len(frames') = Len(frames) + 1
        /\ \A k \in 1 .. Len(pending') : pending'[k] = pending[k + 1]
    BY <2>1
  <2>3. Len(frames) \in Nat /\ Len(pending) \in Nat \ {0}
    BY <2>1
  <2>4. ASSUME NEW k \in 1 .. Len(frames') PROVE frames'[k] = k - 1
    <3>1. CASE k = Len(frames) + 1
      <4>1. Head(pending) = pending[1] /\ 1 \in 1 .. Len(pending)
        BY <2>1, <2>3
      <4>2. Head(pending) = Len(frames)
        BY <2>3, <4>1
      <4>3. QED
        BY <2>1, <2>3, <3>1, <4>2
    <3>2. CASE k \in 1 .. Len(frames)
      BY <2>1, <3>2
    <3>3. QED
      BY <2>2, <2>3, <3>1, <3>2
  <2>5. ASSUME NEW k \in 1 .. Len(pending') PROVE pending'[k] = Len(frames') + k - 1
    <3>1. k + 1 \in 1 .. Len(pending) /\ pending'[k] = pending[k + 1]
      BY <2>2, <2>3
    <3>2. pending[k + 1] = Len(frames) + (k + 1) - 1
      BY <3>1
    <3>3. QED
      BY <2>2, <2>3, <3>1, <3>2
  <2>6. QED
    BY <2>1, <2>2, <2>3, <2>4, <2>5
<1>11. ASSUME Stream!WriteTerminal PROVE ShownSound'
  BY <1>11 DEF Stream!WriteTerminal
<1>12. ASSUME Stream!DeadlinePasses PROVE ShownSound'
  BY <1>12 DEF Stream!DeadlinePasses
<1>13. ASSUME Stream!GatewayTimesOut PROVE ShownSound'
  BY <1>13 DEF Stream!GatewayTimesOut
<1>14. ASSUME Stream!CancelFails PROVE ShownSound'
  BY <1>14 DEF Stream!CancelFails
<1>15. ASSUME Stream!ReadJob PROVE ShownSound'
  BY <1>15 DEF Stream!ReadJob
<1>16. ASSUME Stream!ReadRows PROVE ShownSound'
  BY <1>16 DEF Stream!ReadRows
<1>17. ASSUME Stream!ReadState PROVE ShownSound'
  <2>1. /\ pending' = reading.events /\ pending = <<>> /\ pending' \in Seq(Nat)
        /\ next_sequence' = next_sequence + Len(reading.events)
        /\ \A k \in 1 .. Len(reading.events) : reading.events[k] = next_sequence + k - 1
        /\ 0 .. next_sequence' - 1 \subseteq Stream!Data
    BY <1>17, StateRead DEF ReadSound, Stream!ReadState
  <2>2. frames' = frames /\ rows' = rows
    BY <1>17 DEF Stream!ReadState
  <2>3. Len(pending) = 0 /\ Len(frames) \in Nat /\ Len(pending') \in Nat
    BY <2>1
  <2>4. next_sequence = Len(frames)
    BY <2>3
  <2>5. \A k \in 1 .. Len(pending') : pending'[k] = Len(frames') + k - 1
    BY <2>1, <2>2, <2>4
  <2>6. QED
    BY <2>1, <2>2, <2>3, <2>4, <2>5
<1>18. ASSUME Stream!ReadFails PROVE ShownSound'
  BY <1>18 DEF Stream!ReadFails
<1>19. ASSUME Stream!ClientDisconnects PROVE ShownSound'
  BY <1>19 DEF Stream!ClientDisconnects
<1>20. CASE UNCHANGED stream
  BY <1>20 DEF stream
<1>21. QED
  BY <1>1, <1>2, <1>3, <1>4, <1>5, <1>6, <1>7, <1>8, <1>9, <1>10, <1>11, <1>12, <1>13, <1>14, <1>15, <1>16, <1>17, <1>18, <1>19, <1>20
     DEF Stream!Next, Stream!WorkerNext, Stream!GatewayNext, Stream!ReadStep

\* What a read has seen stays true until it is used.
LEMMA ReadNext == StreamInv /\ [Stream!Next]_stream => ReadSound'
<1> SUFFICES ASSUME StreamInv, [Stream!Next]_stream PROVE ReadSound'
  OBVIOUS
<1> USE StreamAssumption
    DEF StreamInv, Stream!jobVars, Stream!workerVars, Stream!gatewayVars, Stream!clientVars,
        Stream!Open, Stream!Polling, Stream!HoldsLease, ReadSound, StreamType, Stream!Data
<1>1. ASSUME NEW kind \in {"data", "upstream_done"}, Stream!SubmitStreamEvent(kind) PROVE ReadSound'
  BY <1>1 DEF Stream!SubmitStreamEvent
<1>2. ASSUME NEW event \in posted, NEW heard \in BOOLEAN,
             Stream!AppendJobStreamEvent(event, heard)
      PROVE ReadSound'
  BY <1>2 DEF Stream!AppendJobStreamEvent
<1>3. ASSUME Stream!ClaimJob PROVE ReadSound'
  BY <1>3 DEF Stream!ClaimJob
<1>4. ASSUME Stream!WorkerGivesUp PROVE ReadSound'
  BY <1>4 DEF Stream!WorkerGivesUp
<1>5. ASSUME Stream!ValidateJobResult PROVE ReadSound'
  BY <1>5 DEF Stream!ValidateJobResult
<1>6. ASSUME Stream!CompleteJob PROVE ReadSound'
  BY <1>6 DEF Stream!CompleteJob
<1>7. ASSUME Stream!JobFail PROVE ReadSound'
  BY <1>7 DEF Stream!JobFail
<1>8. ASSUME Stream!LeaseExpires PROVE ReadSound'
  BY <1>8 DEF Stream!LeaseExpires
<1>9. ASSUME Stream!ReapExpiredLease PROVE ReadSound'
  BY <1>9 DEF Stream!ReapExpiredLease
<1>10. ASSUME Stream!WritePending PROVE ReadSound'
  BY <1>10 DEF Stream!WritePending
<1>11. ASSUME Stream!WriteTerminal PROVE ReadSound'
  BY <1>11 DEF Stream!WriteTerminal
<1>12. ASSUME Stream!DeadlinePasses PROVE ReadSound'
  BY <1>12 DEF Stream!DeadlinePasses
<1>13. ASSUME Stream!GatewayTimesOut PROVE ReadSound'
  BY <1>13 DEF Stream!GatewayTimesOut
<1>14. ASSUME Stream!CancelFails PROVE ReadSound'
  BY <1>14 DEF Stream!CancelFails
<1>15. ASSUME Stream!ReadJob PROVE ReadSound'
  BY <1>15 DEF Stream!ReadJob
<1>16. ASSUME Stream!ReadRows PROVE ReadSound'
  <2>1. PICK m \in Nat : /\ m <= PageSize
                        /\ reading'.events = [k \in 1 .. m |-> next_sequence + k - 1]
                        /\ 0 .. next_sequence + m - 1 \subseteq Stream!Data
                        /\ reading'.status = reading.status
    BY <1>16, RowsRead
  <2>2. Len(reading'.events) = m
    BY <2>1
  <2>3. UNCHANGED <<pending, terminal, status, next_sequence, rows>> /\ reading # None
    BY <1>16 DEF Stream!ReadRows
  <2>4. QED
    BY <2>1, <2>2, <2>3
<1>17. ASSUME Stream!ReadState PROVE ReadSound'
  BY <1>17 DEF Stream!ReadState
<1>18. ASSUME Stream!ReadFails PROVE ReadSound'
  BY <1>18 DEF Stream!ReadFails
<1>19. ASSUME Stream!ClientDisconnects PROVE ReadSound'
  BY <1>19 DEF Stream!ClientDisconnects
<1>20. CASE UNCHANGED stream
  BY <1>20 DEF stream
<1>21. QED
  BY <1>1, <1>2, <1>3, <1>4, <1>5, <1>6, <1>7, <1>8, <1>9, <1>10, <1>11, <1>12, <1>13, <1>14, <1>15, <1>16, <1>17, <1>18, <1>19, <1>20
     DEF Stream!Next, Stream!WorkerNext, Stream!GatewayNext, Stream!ReadStep

\* A stream ends as the job has ended.
LEMMA EndNext == StreamInv /\ [Stream!Next]_stream => EndSound'
<1> SUFFICES ASSUME StreamInv, [Stream!Next]_stream PROVE EndSound'
  OBVIOUS
<1> USE StreamAssumption
    DEF StreamInv, Stream!jobVars, Stream!workerVars, Stream!gatewayVars, Stream!clientVars,
        Stream!Open, Stream!Polling, Stream!HoldsLease, EndSound, ReadSound, StreamType, Stream!TypeOK, Stream!Data,
        Stream!UpstreamDone, Stream!Terminal
<1>1. ASSUME NEW kind \in {"data", "upstream_done"}, Stream!SubmitStreamEvent(kind) PROVE EndSound'
  BY <1>1 DEF Stream!SubmitStreamEvent
<1>2. ASSUME NEW event \in posted, NEW heard \in BOOLEAN,
             Stream!AppendJobStreamEvent(event, heard)
      PROVE EndSound'
  BY <1>2 DEF Stream!AppendJobStreamEvent
<1>3. ASSUME Stream!ClaimJob PROVE EndSound'
  BY <1>3 DEF Stream!ClaimJob
<1>4. ASSUME Stream!WorkerGivesUp PROVE EndSound'
  BY <1>4 DEF Stream!WorkerGivesUp
<1>5. ASSUME Stream!ValidateJobResult PROVE EndSound'
  <2>1. Stream!UpstreamDone
    <3>1. PICK n \in 0 .. MaxEvents : \/ rows = OpenLog(n)
                                      \/ 1 <= n /\ n < MaxEvents /\ rows = ClosedLog(n)
      BY DEF LogSound
    <3>2. QED
      BY <1>5, <3>1, OpenLogFacts, ClosedLogFacts DEF Stream!ValidateJobResult
  <2>2. QED
    BY <1>5, <2>1 DEF Stream!ValidateJobResult
<1>6. ASSUME Stream!CompleteJob PROVE EndSound'
  BY <1>6 DEF Stream!CompleteJob
<1>7. ASSUME Stream!JobFail PROVE EndSound'
  BY <1>7 DEF Stream!JobFail
<1>8. ASSUME Stream!LeaseExpires PROVE EndSound'
  BY <1>8 DEF Stream!LeaseExpires
<1>9. ASSUME Stream!ReapExpiredLease PROVE EndSound'
  BY <1>9 DEF Stream!ReapExpiredLease
<1>10. ASSUME Stream!WritePending PROVE EndSound'
  BY <1>10 DEF Stream!WritePending
<1>11. ASSUME Stream!WriteTerminal PROVE EndSound'
  BY <1>11 DEF Stream!WriteTerminal
<1>12. ASSUME Stream!DeadlinePasses PROVE EndSound'
  BY <1>12 DEF Stream!DeadlinePasses
<1>13. ASSUME Stream!GatewayTimesOut PROVE EndSound'
  BY <1>13 DEF Stream!GatewayTimesOut
<1>14. ASSUME Stream!CancelFails PROVE EndSound'
  BY <1>14 DEF Stream!CancelFails
<1>15. ASSUME Stream!ReadJob PROVE EndSound'
  BY <1>15 DEF Stream!ReadJob
<1>16. ASSUME Stream!ReadRows PROVE EndSound'
  BY <1>16 DEF Stream!ReadRows
<1>17. ASSUME Stream!ReadState PROVE EndSound'
  <2>1. /\ terminal' \in {None, "done", "error"}
        /\ terminal' = "done" => status = "succeeded" /\ Stream!Data = 0 .. next_sequence' - 1
    BY <1>17, StateRead
  <2>2. UNCHANGED <<status, validated, rows, ended>> /\ ended = None
    BY <1>17 DEF Stream!ReadState
  <2>3. QED
    BY <2>1, <2>2
<1>18. ASSUME Stream!ReadFails PROVE EndSound'
  BY <1>18 DEF Stream!ReadFails
<1>19. ASSUME Stream!ClientDisconnects PROVE EndSound'
  BY <1>19 DEF Stream!ClientDisconnects
<1>20. CASE UNCHANGED stream
  BY <1>20 DEF stream
<1>21. QED
  BY <1>1, <1>2, <1>3, <1>4, <1>5, <1>6, <1>7, <1>8, <1>9, <1>10, <1>11, <1>12, <1>13, <1>14, <1>15, <1>16, <1>17, <1>18, <1>19, <1>20
     DEF Stream!Next, Stream!WorkerNext, Stream!GatewayNext, Stream!ReadStep

\* A stream begins with an empty log.
LEMMA StreamInit == Init => StreamInv
<1> SUFFICES ASSUME Init PROVE StreamInv
  OBVIOUS
<1> USE StreamAssumption DEF Init, Stream!Created
<1>1. StreamType
  <2>1. connected \in BOOLEAN
    OBVIOUS
  <2>2. frames \in Seq(Nat) /\ pending \in Seq(Nat) /\ Len(pending) = 0
    OBVIOUS
  <2>3. /\ rows \subseteq Stream!Event /\ posted \subseteq Stream!Event
        /\ next \in 0 .. MaxEvents + 1 /\ next_sequence \in 0 .. MaxEvents
        /\ submitting = None /\ reading = None /\ terminal = None /\ ended = None
        /\ status = "queued" /\ lease = "none" /\ worker = "idle"
    OBVIOUS
  <2>4. validated \in BOOLEAN /\ overdue \in BOOLEAN
    OBVIOUS
  <2> HIDE DEF Init, Stream!Created
  <2>5. Len(pending) <= PageSize
    BY <2>2
  <2>6. QED
    BY <2>1, <2>2, <2>3, <2>4, <2>5 DEF StreamType, Stream!TypeOK
<1>2. OpenLog(0) = {}
  BY DEF OpenLog
<1>3. LogSound
  BY <1>2 DEF LogSound
<1>4. ShownSound /\ ReadSound /\ EndSound
  BY DEF ShownSound, ReadSound, EndSound
<1>5. QED
  BY <1>1, <1>3, <1>4 DEF StreamInv

\* The client of a stream gets the log's events in order, none twice and none
\* left out, and [DONE] only after the whole log of a settled job, however
\* uploads are repeated and overtake the gateway's three reads; the log of a
\* job that has ended never changes.
THEOREM StreamAlwaysSound == Spec => StreamSound
<1>1. StreamInv /\ [Next]_vars => StreamInv'
  BY PartSteps, StreamTypeNext, LogNext, ShownNext, ReadNext, EndNext DEF StreamInv
<1>2. StreamInv => /\ Stream!TypeOK /\ Stream!FramesInOrder
                   /\ Stream!DoneMeansComplete /\ Stream!SettledLogComplete
  <2> SUFFICES ASSUME StreamInv
               PROVE  /\ Stream!FramesInOrder /\ Stream!DoneMeansComplete
                      /\ Stream!SettledLogComplete
    BY DEF StreamInv, StreamType
  <2> USE DEF StreamInv, StreamType, ShownSound, EndSound
  <2>1. Stream!FramesInOrder
    <3> DEFINE shown == frames \o pending
    <3>1. Len(frames) \in Nat /\ Len(pending) \in Nat /\ Len(shown) = Len(frames) + Len(pending)
      OBVIOUS
    <3>2. \A k \in 1 .. Len(shown) :
            shown[k] = IF k <= Len(frames) THEN frames[k] ELSE pending[k - Len(frames)]
      OBVIOUS
    <3> HIDE DEF shown
    <3>3. ASSUME NEW k \in 1 .. Len(shown) PROVE shown[k] = k - 1
      <4>1. CASE k <= Len(frames)
        BY <3>1, <3>2, <4>1
      <4>2. CASE k > Len(frames)
        <5>1. k - Len(frames) \in 1 .. Len(pending)
          BY <3>1, <4>2
        <5>2. pending[k - Len(frames)] = Len(frames) + (k - Len(frames)) - 1
          BY <5>1
        <5>3. QED
          BY <3>1, <3>2, <4>2, <5>2
      <4>3. QED
        BY <3>1, <4>1, <4>2
    <3>4. QED
      BY <3>1, <3>3 DEF Stream!FramesInOrder, shown
  <2>2. Stream!DoneMeansComplete
    <3> SUFFICES ASSUME ended = "done"
                 PROVE  Len(frames) = Stream!Cardinality(Stream!Data)
      BY DEF Stream!DoneMeansComplete
    <3>1. pending = <<>> /\ Stream!Data = 0 .. next_sequence - 1
      BY StreamAssumption
    <3>2. next_sequence = Len(frames) /\ next_sequence \in Nat
      BY <3>1
    <3>3. Cardinality(0 .. next_sequence - 1) = next_sequence
      BY <3>2, IntervalCardinality
    <3>4. QED
      BY <3>1, <3>2, <3>3, StreamCardinality
  <2>3. Stream!SettledLogComplete
    <3>1. PICK n \in 0 .. MaxEvents : \/ rows = OpenLog(n)
                                      \/ 1 <= n /\ n < MaxEvents /\ rows = ClosedLog(n)
      BY DEF LogSound
    <3>2. QED
      BY <3>1, OpenLogFacts, ClosedLogFacts DEF Stream!SettledLogComplete
  <2>4. QED
    BY <2>1, <2>2, <2>3
<1>3. StreamInv /\ [Next]_vars =>
        [(status \in Stream!Terminal) => (rows' = rows)]_(Stream!vars)
  BY PartSteps, LogNext
<1>4. QED
  BY <1>1, <1>2, <1>3, StreamInit, PTL DEF Spec, StreamSound, Stream!NothingAfterEnd

-----------------------------------------------------------------------------
(***************************************************************************)
(* Replicas.  A key that is bound stays bound: what a process has compared *)
(* is still so when it serves.                                             *)
(***************************************************************************)
Key == {NoKey} \cup {c.hmac : c \in Configuration}
Saw == [key : Key, rows : BOOLEAN, catalog : BOOLEAN]
Running == [at : {"configured", "prepared", "serving"}, config : Configuration, security : Key]
Preparing == [at : {"preparing"}, config : Configuration, security : Key, saw : Saw]

ServiceType ==
  /\ hmac_state \in Key
  /\ catalog_on \in BOOLEAN
  /\ hidden_row \in [Hidden -> [status : {"none", "leased", "over", "ended"}, key : Key]]
  /\ DOMAIN stored = StoredJob
  /\ replica \in [Replica -> {Service!Down} \cup Running \cup Preparing]

\* What the database holds.
KeysBound ==
  /\ std_state = NoKey => hmac_state = NoKey
  /\ std_state # NoKey => std_state # hmac_state
  /\ std_state # NoKey => \A j \in StoredJob : stored[j] \in {"absent", std_state}
  /\ std_state = NoKey => \A j \in StoredJob : stored[j] \in {"absent", "plain"}
  /\ \A c \in Hidden : hidden_row[c].key \in {NoKey, hmac_state}

\* What a process has established.
ReplicasSound ==
  \A r \in Replica :
    /\ replica[r].at \in {"configured", "prepared", "preparing", "serving"} =>
         replica[r].config.std # replica[r].config.hmac
    /\ replica[r].at \in {"prepared", "preparing", "serving"} =>
         std_state # NoKey /\ replica[r].config.std = std_state
    /\ replica[r].at = "preparing" => replica[r].saw.key \in {NoKey, hmac_state}
    /\ replica[r].at = "serving" => replica[r].security \in {NoKey, hmac_state}

ServiceInv == ServiceType /\ KeysBound /\ ReplicasSound

\* Every configuration has a key for the data at rest.
LEMMA ConfigurationHasKey == \A c \in Configuration : c.std # NoKey /\ c.hmac \in Key
  BY ServiceAssumption DEF Configuration, Conf, Key

\* The key of the private challenges is bound once, to a key that differs.
LEMMA ServiceNext == ServiceInv /\ [Service!Next]_service => ServiceInv'
<1> SUFFICES ASSUME ServiceInv, [Service!Next]_service PROVE ServiceInv'
  OBVIOUS
<1> USE ConfigurationHasKey
    DEF ServiceInv, ServiceType, KeysBound, ReplicasSound, Running, Preparing, Service!Down,
        Service!At, Service!Fails, Service!Serving, Service!KeyAccepted, Service!Protected,
        Service!FromEnv
<1>1. ASSUME NEW c \in Configuration, Service!DatabaseMigrate(c) PROVE ServiceInv'
  BY <1>1 DEF Service!DatabaseMigrate
<1>2. ASSUME Service!CatalogSwitches PROVE ServiceInv'
  BY <1>2 DEF Service!CatalogSwitches
<1>3. ASSUME NEW c \in Hidden, Service!HiddenLeaseOver(c) PROVE ServiceInv'
  BY <1>3 DEF Service!HiddenLeaseOver
<1>4. ASSUME NEW r \in Replica, NEW c \in Configuration, Service!Configure(r, c) PROVE ServiceInv'
  BY <1>4 DEF Service!Configure, Key
<1>5. ASSUME NEW r \in Replica, Service!PrepareRuntime(r) PROVE ServiceInv'
  BY <1>5 DEF Service!PrepareRuntime
<1>6. ASSUME NEW r \in Replica, Service!BeginPrepare(r) PROVE ServiceInv'
  BY <1>6 DEF Service!BeginPrepare, Service!PrivateRows, Saw, Key
<1>7. ASSUME NEW r \in Replica, Service!FinishPrepare(r) PROVE ServiceInv'
  BY <1>7 DEF Service!FinishPrepare, Service!Decide, Saw
<1>8. ASSUME NEW r \in Replica, Service!Stops(r) PROVE ServiceInv'
  BY <1>8 DEF Service!Stops
<1>9. ASSUME NEW r \in Replica, NEW j \in StoredJob, Service!StoreJob(r, j) PROVE ServiceInv'
  BY <1>9 DEF Service!StoreJob
<1>10. ASSUME NEW r \in Replica, NEW c \in Hidden, Service!IssueHidden(r, c) PROVE ServiceInv'
  BY <1>10 DEF Service!IssueHidden, Service!MayIssue, Key
<1>11. ASSUME NEW r \in Replica, NEW c \in Hidden, Service!SubmitHidden(r, c) PROVE ServiceInv'
  BY <1>11 DEF Service!SubmitHidden, Service!Ended
<1>12. ASSUME NEW r \in Replica, Service!SweepExpired(r) PROVE ServiceInv'
  BY <1>12 DEF Service!SweepExpired, Service!Ended
<1>13. CASE UNCHANGED service
  BY <1>13 DEF service
<1>14. QED
  BY <1>1, <1>2, <1>3, <1>4, <1>5, <1>6, <1>7, <1>8, <1>9, <1>10, <1>11, <1>12, <1>13
     DEF Service!Next

\* Nothing is bound before the first start.
LEMMA ServiceInit == Service!Init => ServiceInv
<1> SUFFICES ASSUME Service!Init PROVE ServiceInv
  OBVIOUS
<1> USE DEF Service!Init
<1>1. ServiceType
  BY DEF ServiceType, Key, Running, Preparing
<1>2. KeysBound
  BY DEF KeysBound
<1>3. ReplicasSound
  BY DEF ReplicasSound, Service!Down
<1>4. QED
  BY <1>1, <1>2, <1>3 DEF ServiceInv

\* However many processes start beside each other, crash and are configured
\* anew: the ones that serve agree on their keys with the database and with
\* every row it holds, and no row is left unprotected.
THEOREM ReplicasAlwaysAgree == Spec => []Service!ReplicasAgree
<1>1. Init => ServiceInv
  BY ServiceInit DEF Init
<1>2. ServiceInv /\ [Next]_vars => ServiceInv'
  BY PartSteps, ServiceNext
<1>3. ServiceInv => Service!ReplicasAgree
  BY DEF ServiceInv, KeysBound, ReplicasSound, Service!ReplicasAgree, Service!Serving
<1>4. QED
  BY <1>1, <1>2, <1>3, PTL DEF Spec

-----------------------------------------------------------------------------
(***************************************************************************)
(* The rate limiter                                                        *)
(*                                                                         *)
(* The bound on a stretch is no invariant of the table: a window that has  *)
(* ended leaves it.  So every request let through has a place: the number  *)
(* of requests that the same key paid for since is bounded by the window   *)
(* that counts now, by that window and the one before it, or the request   *)
(* lies so far back that no later one is in a stretch with it.             *)
(***************************************************************************)
\* A set of numbers has a least one.
LEMMA LeastNumber ==
  ASSUME NEW S \in SUBSET Nat, S # {}
  PROVE  \E m \in S : \A k \in S : m <= k
<1> DEFINE Less == {p \in Nat \X Nat : p[1] < p[2]}
<1>1. IsWellFoundedOn(Less, Nat)
  BY NatLessThanWellFounded DEF OpToRel
<1>2. PICK m \in S : \A k \in S : ~ (<<k, m>> \in Less)
  BY <1>1, WFMin
<1>3. ASSUME NEW k \in S PROVE m <= k
  <2>1. ~ (<<k, m>> \in Less) /\ k \in Nat /\ m \in Nat
    BY <1>2
  <2>2. <<k, m>> \in Nat \X Nat => ~ (<<k, m>>[1] < <<k, m>>[2])
    BY <2>1
  <2> QED
    BY <2>1, <2>2
<1> QED
  BY <1>3

\* The limiter counts with the same Cardinality.
LEMMA LimiterCardinality == \A S : Limiter!Cardinality(S) = Cardinality(S)
  BY DEF Limiter!Cardinality, Cardinality

\* What a request carries: a client's address with one limit, or with the larger
\* allowance and a credential; and what the table has of a key.
Client == Peer \cup Forwarded
Shapes ==
  {<<[key |-> c, limit |-> Limit]>> : c \in Client}
    \cup {<<[key |-> c, limit |-> Limit * Burst], [key |-> tk, limit |-> Limit]>> :
          c \in Client, tk \in Token}
LimitedRequest == [now : Nat, limits : Shapes]
RateWindow == [started : Nat, count : Nat]
RateTable(w) ==
  /\ IsFiniteSet(DOMAIN w) /\ Cardinality(DOMAIN w) <= MaxBuckets
  /\ \A x \in DOMAIN w : w[x] \in RateWindow

\* What a request pays, by key.
LEMMA ShapeFacts ==
  ASSUME NEW r \in LimitedRequest
  PROVE  /\ r.now \in Nat /\ Limit \in Nat /\ Limit * Burst \in Nat
         /\ Limit >= 1 /\ Limit <= Limit * Burst
         /\ \/ /\ r.limits \in {<<[key |-> c, limit |-> Limit]>> : c \in Client}
               /\ Len(r.limits) = 1 /\ DOMAIN r.limits = {1}
               /\ r.limits[1].key \in Client /\ r.limits[1].limit = Limit
            \/ /\ Len(r.limits) = 2 /\ DOMAIN r.limits = {1, 2}
               /\ r.limits[1].key \in Client /\ r.limits[1].limit = Limit * Burst
               /\ r.limits[2].key \in Token /\ r.limits[2].limit = Limit
               /\ r.limits[1].key # r.limits[2].key
<1>1. Limit \in Nat /\ Burst \in Nat /\ Limit >= 1 /\ Burst >= 1
  BY LimiterAssumption
<1>2. Limit * Burst \in Nat /\ Limit <= Limit * Burst
  BY <1>1
<1>3. r.now \in Nat /\ r.limits \in Shapes
  BY DEF LimitedRequest
<1>4. CASE r.limits \in {<<[key |-> c, limit |-> Limit]>> : c \in Client}
  BY <1>1, <1>2, <1>3, <1>4
<1>5. CASE r.limits \in {<<[key |-> c, limit |-> Limit * Burst], [key |-> tk, limit |-> Limit]>> :
                           c \in Client, tk \in Token}
  <2>1. PICK c \in Client, tk \in Token :
          r.limits = <<[key |-> c, limit |-> Limit * Burst], [key |-> tk, limit |-> Limit]>>
    BY <1>5
  <2>2. c # tk
    BY LimiterAssumption DEF Client
  <2> QED
    BY <1>1, <1>2, <1>3, <2>1, <2>2
<1> QED
  BY <1>3, <1>4, <1>5 DEF Shapes

\* What a window is when its key is charged.
OneMore(t, x, now) ==
  IF x \in DOMAIN t THEN [started |-> t[x].started, count |-> t[x].count + 1]
  ELSE [started |-> now, count |-> 1]

\* One key that is charged.
LEMMA ChargedOnce ==
  ASSUME NEW left, RateTable(left.table), NEW now \in Nat, NEW key,
         NEW after \in Limiter!Charged(left, now, key)
  PROVE  /\ RateTable(after.table) /\ left.gone \subseteq after.gone
         /\ key \in DOMAIN after.table
         /\ after.table[key] = OneMore(left.table, key, now)
         /\ \A x \in DOMAIN after.table \ {key} :
              x \in DOMAIN left.table /\ after.table[x] = left.table[x]
         /\ \A x \in DOMAIN left.table : x \in DOMAIN after.table \/ x \in after.gone
<1> DEFINE t == left.table
           D == DOMAIN t
<1>1. IsFiniteSet(D) /\ Cardinality(D) \in Nat /\ Cardinality(D) <= MaxBuckets
      /\ MaxBuckets \in Nat /\ MaxBuckets >= 1
  BY FS_CardinalityType, LimiterAssumption DEF RateTable
<1>2. \A x \in D : t[x] \in RateWindow
  BY DEF RateTable
<1>3. CASE key \notin D /\ Cardinality(D) >= MaxBuckets
  <2>1. PICK k \in Limiter!Oldest(t) :
          after = [table |-> Limiter!Counted(Limiter!Without(t, k), now, key),
                   gone |-> left.gone \cup {k}]
    BY <1>3, LimiterCardinality DEF Limiter!Charged
  <2>2. k \in D /\ k # key
    BY <1>3, <2>1 DEF Limiter!Oldest
  <2> DEFINE w == Limiter!Without(t, k)
  <2>3. DOMAIN w = D \ {k} /\ \A x \in D \ {k} : w[x] = t[x]
    BY DEF Limiter!Without
  <2> DEFINE u == Limiter!Counted(w, now, key)
  <2>4. DOMAIN u = (D \ {k}) \cup {key} /\ u[key] = [started |-> now, count |-> 1]
        /\ \A x \in D \ {k} : u[x] = t[x]
    BY <1>3, <2>3 DEF Limiter!Counted
  <2>5. after.table = u /\ after.gone = left.gone \cup {k}
    BY <2>1
  <2>6. IsFiniteSet(D \ {k}) /\ Cardinality(D \ {k}) = Cardinality(D) - 1
    BY <1>1, <2>2, FS_RemoveElement
  <2>7. IsFiniteSet((D \ {k}) \cup {key})
        /\ Cardinality((D \ {k}) \cup {key}) = Cardinality(D \ {k}) + 1
    BY <1>3, <2>6, FS_AddElement
  <2>8. RateTable(u)
    <3>1. \A x \in DOMAIN u : u[x] \in RateWindow
      BY <1>2, <2>4 DEF RateWindow
    <3> QED
      BY <1>1, <2>4, <2>6, <2>7, <3>1 DEF RateTable
  <2> HIDE DEF u, w
  <2> QED
    BY <1>3, <2>2, <2>4, <2>5, <2>8 DEF OneMore
<1>4. CASE key \in D \/ Cardinality(D) < MaxBuckets
  <2> DEFINE u == Limiter!Counted(t, now, key)
  <2>1. after.table = u /\ after.gone = left.gone
    BY <1>1, <1>4, LimiterCardinality DEF Limiter!Charged
  <2>2. /\ DOMAIN u = D \cup {key}
        /\ \A x \in D \ {key} : u[x] = t[x]
        /\ u[key] = IF key \in D THEN [t[key] EXCEPT !.count = @ + 1]
                    ELSE [started |-> now, count |-> 1]
    BY DEF Limiter!Counted
  <2>3. u[key] = IF key \in D THEN [started |-> t[key].started, count |-> t[key].count + 1]
                 ELSE [started |-> now, count |-> 1]
    <3>1. ASSUME NEW q \in RateWindow
          PROVE  [q EXCEPT !.count = @ + 1] = [started |-> q.started, count |-> q.count + 1]
      BY DEF RateWindow
    <3>2. key \in D => t[key] \in RateWindow
      BY <1>2
    <3>3. CASE key \in D
      <4> DEFINE q == t[key]
      <4>1. q \in RateWindow /\ u[key] = [q EXCEPT !.count = @ + 1]
        BY <2>2, <3>2, <3>3
      <4> HIDE DEF q
      <4>2. u[key] = [started |-> q.started, count |-> q.count + 1]
        BY <3>1, <4>1
      <4> QED
        BY <3>3, <4>2 DEF q
    <3>4. CASE key \notin D
      BY <2>2, <3>4
    <3> QED
      BY <3>3, <3>4
  <2>4. IsFiniteSet(D \cup {key}) /\ Cardinality(D \cup {key}) <= MaxBuckets
    <3>1. CASE key \in D
      <4>1. D \cup {key} = D
        BY <3>1
      <4> QED
        BY <1>1, <4>1
    <3>2. CASE key \notin D
      <4>1. IsFiniteSet(D \cup {key}) /\ Cardinality(D \cup {key}) = Cardinality(D) + 1
        BY <1>1, <3>2, FS_AddElement
      <4>2. Cardinality(D) < MaxBuckets
        BY <1>4, <3>2
      <4> HIDE DEF D
      <4> QED
        BY <1>1, <4>1, <4>2
    <3> QED
      BY <3>1, <3>2
  <2>5. RateTable(u)
    <3>1. \A x \in DOMAIN u : u[x] \in RateWindow
      BY <1>2, <2>2, <2>3 DEF RateWindow
    <3> QED
      BY <2>2, <2>4, <3>1 DEF RateTable
  <2> HIDE DEF u
  <2> QED
    BY <2>1, <2>2, <2>3, <2>5 DEF OneMore
<1> QED
  BY <1>1, <1>3, <1>4

\* The keys a request is charged to.
KeysOf(r) == {r.limits[x].key : x \in DOMAIN r.limits}

\* All keys of a request that are charged.
LEMMA ChargedFor ==
  ASSUME NEW t, RateTable(t), NEW gone, NEW r \in LimitedRequest,
         NEW after \in Limiter!ChargedAll([table |-> t, gone |-> gone], r.now, r.limits)
  PROVE  /\ RateTable(after.table) /\ gone \subseteq after.gone
         /\ \A x \in DOMAIN after.table :
              \/ x \in DOMAIN t /\ after.table[x] = t[x]
              \/ x \in KeysOf(r) /\ after.table[x] = OneMore(t, x, r.now)
              \/ x \in KeysOf(r) /\ after.table[x] = [started |-> r.now, count |-> 1]
         /\ \A x : x \notin after.gone =>
              IF x \in KeysOf(r)
              THEN x \in DOMAIN after.table /\ after.table[x] = OneMore(t, x, r.now)
              ELSE /\ x \in DOMAIN after.table <=> x \in DOMAIN t
                   /\ x \in DOMAIN t => after.table[x] = t[x]
<1> DEFINE left == [table |-> t, gone |-> gone]
<1>1. left.table = t /\ left.gone = gone /\ r.now \in Nat
  BY ShapeFacts
<1> HIDE DEF left
<1>2. CASE Len(r.limits) = 1
  <2> DEFINE k == r.limits[1].key
  <2>1. after \in Limiter!Charged(left, r.now, k)
    BY <1>2 DEF Limiter!ChargedAll, left
  <2>2. KeysOf(r) = {r.limits[1].key}
    <3>1. DOMAIN r.limits = {1}
      BY <1>2, ShapeFacts
    <3> QED
      BY <3>1 DEF KeysOf
  <2>3. /\ RateTable(after.table) /\ gone \subseteq after.gone
        /\ k \in DOMAIN after.table /\ after.table[k] = OneMore(t, k, r.now)
        /\ \A x \in DOMAIN after.table \ {k} : x \in DOMAIN t /\ after.table[x] = t[x]
        /\ \A x \in DOMAIN t : x \in DOMAIN after.table \/ x \in after.gone
    <3>1. RateTable(left.table)
      BY <1>1
    <3> HIDE DEF k
    <3> QED
      BY <1>1, <2>1, <3>1, ChargedOnce
  <2> HIDE DEF k
  <2>4. KeysOf(r) = {k}
    BY <2>2 DEF k
  <2> QED
    BY <2>3, <2>4
<1>3. CASE Len(r.limits) = 2
  <2> DEFINE k == r.limits[1].key
             m == r.limits[2].key
  <2>1. PICK one \in Limiter!Charged(left, r.now, k) : after \in Limiter!Charged(one, r.now, m)
    BY <1>3 DEF Limiter!ChargedAll, left
  <2>2. KeysOf(r) = {k, m} /\ k # m
    <3>1. DOMAIN r.limits = {1, 2} /\ k # m
      BY <1>3, ShapeFacts
    <3> QED
      BY <3>1 DEF KeysOf
  <2>3. /\ RateTable(one.table) /\ gone \subseteq one.gone
        /\ k \in DOMAIN one.table /\ one.table[k] = OneMore(t, k, r.now)
        /\ \A x \in DOMAIN one.table \ {k} : x \in DOMAIN t /\ one.table[x] = t[x]
        /\ \A x \in DOMAIN t : x \in DOMAIN one.table \/ x \in one.gone
    <3>1. RateTable(left.table)
      BY <1>1
    <3> HIDE DEF k
    <3> QED
      BY <1>1, <2>1, <3>1, ChargedOnce
  <2>4. /\ RateTable(after.table) /\ one.gone \subseteq after.gone
        /\ m \in DOMAIN after.table /\ after.table[m] = OneMore(one.table, m, r.now)
        /\ \A x \in DOMAIN after.table \ {m} : x \in DOMAIN one.table /\ after.table[x] = one.table[x]
        /\ \A x \in DOMAIN one.table : x \in DOMAIN after.table \/ x \in after.gone
    BY <1>1, <2>1, <2>3, ChargedOnce
  <2> HIDE DEF k, m
  <2>5. m \in DOMAIN one.table => m \in DOMAIN t /\ one.table[m] = t[m]
    BY <2>2, <2>3
  <2>6. m \notin after.gone => after.table[m] = OneMore(t, m, r.now)
    BY <2>3, <2>4, <2>5 DEF OneMore
  <2>7. after.table[m] = OneMore(t, m, r.now) \/ after.table[m] = [started |-> r.now, count |-> 1]
    BY <2>4, <2>5 DEF OneMore
  <2>8. ASSUME NEW x \in DOMAIN after.table
        PROVE  \/ x \in DOMAIN t /\ after.table[x] = t[x]
               \/ x \in KeysOf(r) /\ after.table[x] = OneMore(t, x, r.now)
               \/ x \in KeysOf(r) /\ after.table[x] = [started |-> r.now, count |-> 1]
    <3>1. CASE x = m
      BY <2>2, <2>7, <3>1
    <3>2. CASE x # m
      BY <2>2, <2>3, <2>4, <3>2
    <3> QED
      BY <3>1, <3>2
  <2>9. ASSUME NEW x, x \notin after.gone
        PROVE  IF x \in KeysOf(r)
               THEN x \in DOMAIN after.table /\ after.table[x] = OneMore(t, x, r.now)
               ELSE /\ x \in DOMAIN after.table <=> x \in DOMAIN t
                    /\ x \in DOMAIN t => after.table[x] = t[x]
    <3>1. CASE x = m
      BY <2>2, <2>4, <2>6, <2>9, <3>1
    <3>2. CASE x = k
      <4>1. x \in DOMAIN after.table /\ after.table[x] = one.table[x] /\ x \in KeysOf(r)
        BY <2>2, <2>3, <2>4, <2>9, <3>2
      <4> QED
        BY <2>3, <3>2, <4>1
    <3>3. CASE x # m /\ x # k
      <4>1. x \notin KeysOf(r) /\ x \notin one.gone
        BY <2>2, <2>4, <2>9, <3>3
      <4>2. x \in DOMAIN after.table <=> x \in DOMAIN one.table
        BY <2>4, <2>9, <3>3
      <4>3. x \in DOMAIN one.table <=> x \in DOMAIN t
        BY <2>3, <3>3, <4>1
      <4>4. x \in DOMAIN t => after.table[x] = t[x]
        BY <2>3, <2>4, <3>3, <4>2, <4>3
      <4> QED
        BY <4>1, <4>2, <4>3, <4>4
    <3> QED
      BY <3>1, <3>2, <3>3
  <2>10. RateTable(after.table) /\ gone \subseteq after.gone
    BY <2>3, <2>4
  <2> QED
    BY <2>8, <2>9, <2>10
<1> QED
  BY <1>2, <1>3, ShapeFacts

-----------------------------------------------------------------------------
\* The requests from the a-th to the b-th that key paid for under the limit.
Paying(s, key, limit, a, b) == {i \in a .. b : Limiter!Pays(s[i], key, limit)}

\* They are finitely many.
LEMMA PayingFinite ==
  ASSUME NEW s, NEW key, NEW limit, NEW a \in Nat, NEW b \in Nat
  PROVE  /\ IsFiniteSet(Paying(s, key, limit, a, b))
         /\ Cardinality(Paying(s, key, limit, a, b)) \in Nat
<1>1. IsFiniteSet(a .. b)
  BY FS_Interval
<1>2. Paying(s, key, limit, a, b) \subseteq a .. b
  BY DEF Paying
<1> QED
  BY <1>1, <1>2, FS_Subset, FS_CardinalityType

\* One more request counts if it pays.
LEMMA PayingGrows ==
  ASSUME NEW s \in Seq(LimitedRequest), NEW r \in LimitedRequest, NEW key, NEW limit, NEW a \in 1 .. Len(s)
  PROVE  Cardinality(Paying(Append(s, r), key, limit, a, Len(s) + 1))
           = Cardinality(Paying(s, key, limit, a, Len(s)))
               + (IF Limiter!Pays(r, key, limit) THEN 1 ELSE 0)
<1> DEFINE n == Len(s)
           u == Append(s, r)
           P == Paying(s, key, limit, a, n)
<1>1. n \in Nat /\ u[n + 1] = r /\ \A i \in 1 .. n : u[i] = s[i]
  OBVIOUS
<1>2. IsFiniteSet(P) /\ Cardinality(P) \in Nat
  BY <1>1, PayingFinite
<1>3. n + 1 \notin P
  BY <1>1 DEF Paying
<1>0. /\ a .. n + 1 = (a .. n) \cup {n + 1}
      /\ \A i \in a .. n : u[i] = s[i]
  BY <1>1
<1>4. CASE Limiter!Pays(r, key, limit)
  <2>1. Paying(u, key, limit, a, n + 1) = P \cup {n + 1}
    <3> HIDE DEF u, n
    <3> QED
      BY <1>0, <1>1, <1>4 DEF Paying
  <2> HIDE DEF P, u
  <2> QED
    BY <1>2, <1>3, <1>4, <2>1, FS_AddElement DEF P, u
<1>5. CASE ~ Limiter!Pays(r, key, limit)
  <2>1. Paying(u, key, limit, a, n + 1) = P
    <3> HIDE DEF u, n
    <3> QED
      BY <1>0, <1>1, <1>5 DEF Paying
  <2> QED
    BY <1>2, <1>5, <2>1
<1> QED
  BY <1>4, <1>5

\* Where a request that paid stands: in the window that counts now, in one that
\* has ended, in the one before the one that counts now, or further back.
InWindow(s, w, key, limit, a) ==
  /\ key \in DOMAIN w
  /\ Cardinality(Paying(s, key, limit, a, Len(s))) <= limit
  /\ Cardinality(Paying(s, key, limit, a, Len(s))) <= w[key].count
  /\ s[a].now < w[key].started + Window
WindowOver(s, w, now, key, limit, a) ==
  /\ key \notin DOMAIN w
  /\ Cardinality(Paying(s, key, limit, a, Len(s))) <= limit
  /\ s[a].now < now
NextWindow(s, w, key, limit, a) ==
  /\ key \in DOMAIN w
  /\ Cardinality(Paying(s, key, limit, a, Len(s))) <= 2 * limit
  /\ Cardinality(Paying(s, key, limit, a, Len(s))) <= limit + w[key].count
  /\ s[a].now < w[key].started + MaxWait
LongAgo(s, now, key, limit, a) ==
  /\ s[a].now + Window < now + MaxWait
  /\ \E m \in a .. Len(s) :
       /\ Cardinality(Paying(s, key, limit, a, m)) <= 2 * limit
       /\ \A b \in m + 1 .. Len(s) :
            Limiter!Pays(s[b], key, limit) => s[a].now + Window < s[b].now + 2 * MaxWait
Placed(s, w, now, key, limit, a) ==
  \/ InWindow(s, w, key, limit, a) \/ WindowOver(s, w, now, key, limit, a)
  \/ NextWindow(s, w, key, limit, a) \/ LongAgo(s, now, key, limit, a)

\* Time passes.
LEMMA PlacedLater ==
  ASSUME NEW s \in Seq(LimitedRequest), NEW w, NEW now \in Nat, NEW later \in Nat, now <= later,
         NEW key, NEW limit \in Nat, NEW a \in 1 .. Len(s), Placed(s, w, now, key, limit, a)
  PROVE  Placed(s, w, later, key, limit, a)
<1>0. s[a] \in LimitedRequest
  BY ElementOfSeq
<1>1. s[a].now \in Nat /\ Window \in Nat /\ MaxWait \in Nat
  BY <1>0, LimiterAssumption DEF LimitedRequest
<1>2. WindowOver(s, w, now, key, limit, a) => WindowOver(s, w, later, key, limit, a)
  BY <1>1 DEF WindowOver
<1>3. LongAgo(s, now, key, limit, a) => LongAgo(s, later, key, limit, a)
  <2>1. s[a].now + Window < now + MaxWait => s[a].now + Window < later + MaxWait
    BY <1>1
  <2> QED
    BY <2>1 DEF LongAgo
<1> QED
  BY <1>2, <1>3 DEF Placed

\* The windows that are over are left out.
LEMMA PlacedRetained ==
  ASSUME NEW s \in Seq(LimitedRequest), NEW w, RateTable(w), NEW now \in Nat, NEW read \in Nat, read <= now,
         NEW key, NEW limit \in Nat, NEW a \in 1 .. Len(s), Placed(s, w, now, key, limit, a),
         NEW kept, DOMAIN kept = {x \in DOMAIN w : read < w[x].started + Window},
         \A x \in DOMAIN kept : kept[x] = w[x]
  PROVE  Placed(s, kept, now, key, limit, a)
<1>0. s[a] \in LimitedRequest
  BY ElementOfSeq
<1>1. /\ s[a].now \in Nat /\ Window \in Nat /\ MaxWait \in Nat /\ Len(s) \in Nat
      /\ key \in DOMAIN w => w[key].started \in Nat /\ w[key].count \in Nat
  BY <1>0, LimiterAssumption, LenProperties DEF LimitedRequest, RateTable, RateWindow
<1> DEFINE n == Cardinality(Paying(s, key, limit, a, Len(s)))
<1>2. n \in Nat
  BY <1>1, PayingFinite
<1>3. key \in DOMAIN kept <=> key \in DOMAIN w /\ read < w[key].started + Window
  OBVIOUS
<1>4. key \in DOMAIN kept => kept[key] = w[key]
  OBVIOUS
<1>5. CASE InWindow(s, w, key, limit, a)
  <2>1. CASE key \in DOMAIN kept
    BY <1>4, <1>5, <2>1 DEF InWindow, Placed
  <2>2. CASE key \notin DOMAIN kept
    <3>1. s[a].now < now
      BY <1>1, <1>3, <1>5, <2>2 DEF InWindow
    <3> QED
      BY <1>5, <2>2, <3>1 DEF InWindow, WindowOver, Placed
  <2> QED
    BY <2>1, <2>2
<1>6. CASE WindowOver(s, w, now, key, limit, a)
  BY <1>3, <1>6 DEF WindowOver, Placed
<1>7. CASE NextWindow(s, w, key, limit, a)
  <2>1. CASE key \in DOMAIN kept
    BY <1>4, <1>7, <2>1 DEF NextWindow, Placed
  <2>2. CASE key \notin DOMAIN kept
    <3>1. s[a].now + Window < now + MaxWait
      <4>1. w[key].started + Window <= now /\ s[a].now < w[key].started + MaxWait
        BY <1>1, <1>3, <1>7, <2>2 DEF NextWindow
      <4>2. w[key].started \in Nat
        BY <1>1, <1>7 DEF NextWindow
      <4> DEFINE from == w[key].started
                 when == s[a].now
      <4>3. from \in Nat /\ when \in Nat /\ from + Window <= now /\ when < from + MaxWait
        BY <1>1, <4>1, <4>2
      <4> HIDE DEF from, when
      <4>4. when + Window < now + MaxWait
        BY <1>1, <4>3
      <4> QED
        BY <4>4 DEF when
    <3>2. LongAgo(s, now, key, limit, a)
      <4>1. Len(s) \in a .. Len(s) /\ Len(s) + 1 .. Len(s) = {}
        BY <1>1
      <4> QED
        BY <1>7, <3>1, <4>1 DEF NextWindow, LongAgo
    <3> QED
      BY <3>2 DEF Placed
  <2> QED
    BY <2>1, <2>2
<1>8. CASE LongAgo(s, now, key, limit, a)
  BY <1>8 DEF Placed
<1> QED
  BY <1>5, <1>6, <1>7, <1>8 DEF Placed

\* A request is let through.
LEMMA PlacedCharged ==
  ASSUME NEW s \in Seq(LimitedRequest), NEW w, RateTable(w), NEW now \in Nat,
         NEW r \in LimitedRequest, r.now <= now, now <= r.now + MaxWait,
         NEW key, NEW limit \in Nat, limit >= 1,
         NEW a \in 1 .. Len(s), Placed(s, w, now, key, limit, a),
         NEW after,
         IF key \in KeysOf(r) THEN key \in DOMAIN after /\ after[key] = OneMore(w, key, r.now)
         ELSE /\ key \in DOMAIN after <=> key \in DOMAIN w
              /\ key \in DOMAIN w => after[key] = w[key],
         Limiter!Pays(r, key, limit) => key \in KeysOf(r)
                                       /\ (key \in DOMAIN w => w[key].count < limit)
  PROVE  Placed(Append(s, r), after, now, key, limit, a)
<1> DEFINE u == Append(s, r)
           p == Cardinality(Paying(s, key, limit, a, Len(s)))
           q == Cardinality(Paying(u, key, limit, a, Len(u)))
<1>0. s[a] \in LimitedRequest
  BY ElementOfSeq
<1>1. /\ s[a].now \in Nat /\ Window \in Nat /\ MaxWait \in Nat /\ Len(s) \in Nat /\ r.now \in Nat
      /\ key \in DOMAIN w => w[key].started \in Nat /\ w[key].count \in Nat
  BY <1>0, LimiterAssumption, LenProperties DEF LimitedRequest, RateTable, RateWindow
<1>2. u[a] = s[a] /\ Len(u) = Len(s) + 1 /\ a <= Len(s) /\ a \in Nat
      /\ u[Len(s) + 1] = r /\ \A i \in 1 .. Len(s) : u[i] = s[i]
  BY <1>1
<1>3. p \in Nat /\ q = p + (IF Limiter!Pays(r, key, limit) THEN 1 ELSE 0)
  BY <1>1, <1>2, PayingFinite, PayingGrows
<1>4. CASE InWindow(s, w, key, limit, a) \/ NextWindow(s, w, key, limit, a)
  <2>1. key \in DOMAIN w /\ key \in DOMAIN after /\ after[key].started = w[key].started
    BY <1>4 DEF InWindow, NextWindow, OneMore
  <2>2. /\ after[key].count = w[key].count + (IF key \in KeysOf(r) THEN 1 ELSE 0)
        /\ Limiter!Pays(r, key, limit) => key \in KeysOf(r) /\ w[key].count + 1 <= limit
    <3>1. after[key].count = w[key].count + (IF key \in KeysOf(r) THEN 1 ELSE 0)
      BY <1>1, <1>4, <2>1 DEF OneMore
    <3>2. Limiter!Pays(r, key, limit) => w[key].count + 1 <= limit
      BY <1>1, <2>1
    <3> QED
      BY <3>1, <3>2
  <2> DEFINE c == w[key].count
             d == after[key].count
  <2>3. c \in Nat /\ d = c + (IF key \in KeysOf(r) THEN 1 ELSE 0)
        /\ (Limiter!Pays(r, key, limit) => key \in KeysOf(r) /\ c + 1 <= limit)
    BY <1>1, <2>1, <2>2
  <2>4. CASE InWindow(s, w, key, limit, a)
    <3>1. p <= limit /\ p <= c /\ s[a].now < w[key].started + Window
      BY <2>4 DEF InWindow
    <3> HIDE DEF p, q, c, d, u
    <3>2. q <= limit /\ q <= d
      BY <1>3, <2>3, <3>1
    <3> QED
      BY <1>2, <2>1, <3>1, <3>2 DEF InWindow, Placed, q, d, u
  <2>5. CASE NextWindow(s, w, key, limit, a)
    <3>1. p <= 2 * limit /\ p <= limit + c /\ s[a].now < w[key].started + MaxWait
      BY <2>5 DEF NextWindow
    <3> HIDE DEF p, q, c, d, u
    <3>2. q <= 2 * limit /\ q <= limit + d
      BY <1>3, <2>3, <3>1
    <3> QED
      BY <1>2, <2>1, <3>1, <3>2 DEF NextWindow, Placed, q, d, u
  <2> QED
    BY <1>4, <2>4, <2>5
<1>5. CASE WindowOver(s, w, now, key, limit, a)
  <2>1. key \notin DOMAIN w /\ p <= limit /\ s[a].now < now
    BY <1>5 DEF WindowOver
  <2>2. CASE key \in KeysOf(r)
    <3>1. key \in DOMAIN after /\ after[key].started = r.now /\ after[key].count = 1
      BY <2>1, <2>2 DEF OneMore
    <3> DEFINE d == after[key].count
               from == after[key].started
    <3> HIDE DEF p, q, u
    <3>2. q <= 2 * limit /\ q <= limit + 1 /\ s[a].now < r.now + MaxWait
      BY <1>1, <1>3, <2>1
    <3> QED
      BY <1>2, <3>1, <3>2 DEF NextWindow, Placed, q, u
  <2>3. CASE key \notin KeysOf(r)
    <3>1. key \notin DOMAIN after /\ ~ Limiter!Pays(r, key, limit)
      BY <2>1, <2>3
    <3>2. q = p
      BY <1>3, <3>1
    <3> HIDE DEF p, q
    <3> QED
      BY <1>2, <2>1, <3>1, <3>2 DEF WindowOver, Placed, q
  <2> QED
    BY <2>2, <2>3
<1>6. CASE LongAgo(s, now, key, limit, a)
  <2>1. PICK m \in a .. Len(s) :
          /\ Cardinality(Paying(s, key, limit, a, m)) <= 2 * limit
          /\ \A b \in m + 1 .. Len(s) :
               Limiter!Pays(s[b], key, limit) => s[a].now + Window < s[b].now + 2 * MaxWait
    BY <1>6 DEF LongAgo
  <2>2. s[a].now + Window < now + MaxWait
    BY <1>6 DEF LongAgo
  <2>3. s[a].now + Window < r.now + 2 * MaxWait
    BY <1>1, <2>2
  <2>4. Paying(u, key, limit, a, m) = Paying(s, key, limit, a, m)
    <3>1. \A i \in a .. m : u[i] = s[i]
      BY <1>1, <1>2
    <3> HIDE DEF u
    <3> QED
      BY <3>1 DEF Paying
  <2>5. \A b \in m + 1 .. Len(u) :
          Limiter!Pays(u[b], key, limit) => u[a].now + Window < u[b].now + 2 * MaxWait
    <3> SUFFICES ASSUME NEW b \in m + 1 .. Len(u), Limiter!Pays(u[b], key, limit)
                 PROVE  u[a].now + Window < u[b].now + 2 * MaxWait
      OBVIOUS
    <3>1. CASE b = Len(s) + 1
      BY <1>2, <2>3, <3>1
    <3>2. CASE b # Len(s) + 1
      <4>1. b \in m + 1 .. Len(s) /\ b \in 1 .. Len(s)
        BY <1>1, <1>2, <3>2
      <4>2. u[b] = s[b]
        BY <1>2, <4>1
      <4> QED
        BY <1>2, <2>1, <4>1, <4>2
    <3> QED
      BY <3>1, <3>2
  <2>6. m \in a .. Len(u)
    BY <1>1, <1>2
  <2> HIDE DEF u
  <2> QED
    BY <1>2, <2>1, <2>2, <2>4, <2>5, <2>6 DEF LongAgo, Placed, u
<1> QED
  BY <1>4, <1>5, <1>6 DEF Placed

\* The request that is let through has its place as well.
LEMMA PlacedNew ==
  ASSUME NEW s \in Seq(LimitedRequest), NEW w, RateTable(w), NEW now \in Nat,
         NEW r \in LimitedRequest, NEW key \in KeysOf(r), NEW limit \in Nat, limit >= 1,
         NEW after, key \in DOMAIN after, after[key] = OneMore(w, key, r.now),
         key \in DOMAIN w => r.now < w[key].started + Window
  PROVE  Placed(Append(s, r), after, now, key, limit, Len(s) + 1)
<1> DEFINE u == Append(s, r)
           a == Len(s) + 1
<1>1. u[a] = r /\ Len(u) = a /\ a \in Nat /\ r.now \in Nat /\ Window \in Nat /\ Window >= 1
  BY LimiterAssumption, LenProperties DEF LimitedRequest
<1>2. Paying(u, key, limit, a, a) \subseteq {a} /\ a .. a = {a}
  BY <1>1 DEF Paying
<1>3. Cardinality(Paying(u, key, limit, a, a)) <= 1
  <2>1. IsFiniteSet({a}) /\ Cardinality({a}) = 1
    BY FS_Singleton
  <2> HIDE DEF a, u
  <2> QED
    BY <1>2, <2>1, FS_Subset
<1>4. Cardinality(Paying(u, key, limit, a, a)) \in Nat
  <2> HIDE DEF a, u
  <2> QED
    BY <1>1, PayingFinite
<1>5. after[key].count >= 1 /\ after[key].count \in Nat /\ r.now < after[key].started + Window
  <2>1. CASE key \in DOMAIN w
    <3>1. w[key].count \in Nat /\ w[key].started \in Nat
      BY <2>1 DEF RateTable, RateWindow
    <3> QED
      BY <2>1, <3>1 DEF OneMore
  <2>2. CASE key \notin DOMAIN w
    BY <1>1, <2>2 DEF OneMore
  <2> QED
    BY <2>1, <2>2
<1> DEFINE p == Cardinality(Paying(u, key, limit, a, a))
<1> HIDE DEF p
<1>6. p <= limit /\ p <= after[key].count
  BY <1>3, <1>4, <1>5 DEF p
<1>7. InWindow(u, after, key, limit, a)
  <2> HIDE DEF a, u
  <2> QED
    BY <1>1, <1>5, <1>6 DEF InWindow, p
<1> QED
  BY <1>7 DEF Placed

\* What a stretch from t on let through.
Stretch(s, key, limit, t) ==
  {i \in 1 .. Len(s) : /\ Limiter!Pays(s[i], key, limit)
                       /\ t <= s[i].now
                       /\ s[i].now < t + (Window + 1 - 2 * MaxWait)}

\* Every request that paid for the key is placed.
EachPlaced(s, w, now, key, limit) ==
  \A a \in 1 .. Len(s) : Limiter!Pays(s[a], key, limit) => Placed(s, w, now, key, limit, a)

\* What the places come to.
LEMMA PlacedBounds ==
  ASSUME NEW s \in Seq(LimitedRequest), NEW w, NEW now \in Nat, NEW key, NEW limit \in Nat,
         EachPlaced(s, w, now, key, limit), NEW t \in Nat
  PROVE  Cardinality(Stretch(s, key, limit, t)) <= 2 * limit
<1> DEFINE P == {i \in 1 .. Len(s) : /\ Limiter!Pays(s[i], key, limit)
                                     /\ t <= s[i].now
                                     /\ s[i].now < t + (Window + 1 - 2 * MaxWait)}
<1> SUFFICES Cardinality(P) <= 2 * limit
  BY DEF Stretch
<1> \A a \in 1 .. Len(s) : Limiter!Pays(s[a], key, limit) => Placed(s, w, now, key, limit, a)
  BY DEF EachPlaced
<1>0. Len(s) \in Nat /\ Window \in Nat /\ MaxWait \in Nat /\ 2 * limit \in Nat /\ 0 <= 2 * limit
      /\ limit <= 2 * limit
  BY LimiterAssumption, LenProperties
<1>1. \A i \in 1 .. Len(s) : s[i].now \in Nat
  <2>1. \A i \in 1 .. Len(s) : s[i] \in LimitedRequest
    BY ElementOfSeq
  <2> QED
    BY <2>1 DEF LimitedRequest
<1>2. CASE P = {}
  BY <1>0, <1>2, FS_EmptySet
<1>3. CASE P # {}
  <2>1. P \in SUBSET Nat
    BY <1>0
  <2>2. PICK a \in P : \A k \in P : a <= k
    <3> HIDE DEF P
    <3> QED
      BY <1>3, <2>1, LeastNumber
  <2>3. a \in 1 .. Len(s) /\ Limiter!Pays(s[a], key, limit) /\ Placed(s, w, now, key, limit, a)
        /\ t <= s[a].now /\ a \in Nat
    BY <1>0, <2>2
  <2>4. P \subseteq Paying(s, key, limit, a, Len(s))
    BY <1>0, <2>1, <2>2 DEF Paying
  <2>5. CASE InWindow(s, w, key, limit, a) \/ WindowOver(s, w, now, key, limit, a)
             \/ NextWindow(s, w, key, limit, a)
    <3>1. Cardinality(Paying(s, key, limit, a, Len(s))) <= 2 * limit
          /\ IsFiniteSet(Paying(s, key, limit, a, Len(s)))
          /\ Cardinality(Paying(s, key, limit, a, Len(s))) \in Nat
      BY <1>0, <2>3, <2>5, PayingFinite DEF InWindow, WindowOver, NextWindow
    <3>2. Cardinality(P) <= Cardinality(Paying(s, key, limit, a, Len(s))) /\ Cardinality(P) \in Nat
      <4> HIDE DEF P
      <4> QED
        BY <2>4, <3>1, FS_Subset, FS_CardinalityType
    <3> HIDE DEF P
    <3> QED
      BY <1>0, <3>1, <3>2 DEF P
  <2>6. CASE LongAgo(s, now, key, limit, a)
    <3>1. PICK m \in a .. Len(s) :
            /\ Cardinality(Paying(s, key, limit, a, m)) <= 2 * limit
            /\ \A b \in m + 1 .. Len(s) :
                 Limiter!Pays(s[b], key, limit) => s[a].now + Window < s[b].now + 2 * MaxWait
      BY <2>6 DEF LongAgo
    <3>2. ASSUME NEW b \in P, b > m PROVE FALSE
      <4> DEFINE x == s[a].now
                 y == s[b].now
      <4>1. b \in m + 1 .. Len(s) /\ Limiter!Pays(s[b], key, limit)
            /\ y < t + (Window + 1 - 2 * MaxWait) /\ y \in Nat /\ x \in Nat /\ t <= x
        BY <1>0, <1>1, <2>3, <3>2
      <4>2. x + Window < y + 2 * MaxWait
        BY <3>1, <4>1
      <4> HIDE DEF x, y
      <4> QED
        BY <1>0, <4>1, <4>2
    <3>3. P \subseteq Paying(s, key, limit, a, m)
      BY <2>2, <2>3, <3>1, <3>2 DEF Paying
    <3>4. IsFiniteSet(Paying(s, key, limit, a, m)) /\ Cardinality(Paying(s, key, limit, a, m)) \in Nat
      BY <1>0, <2>3, <3>1, PayingFinite
    <3>5. Cardinality(P) <= Cardinality(Paying(s, key, limit, a, m)) /\ Cardinality(P) \in Nat
      <4> HIDE DEF P
      <4> QED
        BY <3>3, <3>4, FS_Subset, FS_CardinalityType
    <3> HIDE DEF P
    <3> QED
      BY <1>0, <3>1, <3>4, <3>5 DEF P
  <2> QED
    BY <2>3, <2>5, <2>6 DEF Placed
<1> QED
  BY <1>2, <1>3

\* The requests that a window which started then may have counted.
Around(s, x, from) ==
  {i \in 1 .. Len(s) : /\ Limiter!Pays(s[i], x, Limit * Burst)
                       /\ from <= s[i].now + MaxWait /\ s[i].now < from + Window}

\* They are finitely many.
LEMMA AroundFinite ==
  ASSUME NEW s \in Seq(LimitedRequest), NEW x, NEW from
  PROVE  IsFiniteSet(Around(s, x, from)) /\ Cardinality(Around(s, x, from)) \in Nat
<1>1. IsFiniteSet(1 .. Len(s)) /\ Around(s, x, from) \subseteq 1 .. Len(s)
  BY FS_Interval, LenProperties DEF Around
<1> QED
  BY <1>1, FS_Subset, FS_CardinalityType

\* One more request counts if it pays and comes in that time.
LEMMA AroundGrows ==
  ASSUME NEW s \in Seq(LimitedRequest), NEW r \in LimitedRequest, NEW x, NEW from \in Nat
  PROVE  /\ Cardinality(Around(s, x, from)) <= Cardinality(Around(Append(s, r), x, from))
         /\ (Limiter!Pays(r, x, Limit * Burst) /\ from <= r.now + MaxWait /\ r.now < from + Window) =>
              Cardinality(Around(s, x, from)) + 1 <= Cardinality(Around(Append(s, r), x, from))
<1> DEFINE n == Len(s)
           u == Append(s, r)
           P == Around(s, x, from)
           Q == Around(u, x, from)
<1>1. n \in Nat /\ Len(u) = n + 1 /\ u[n + 1] = r /\ u \in Seq(LimitedRequest)
      /\ \A i \in 1 .. n : u[i] = s[i]
  BY LenProperties
<1>2. IsFiniteSet(P) /\ Cardinality(P) \in Nat /\ IsFiniteSet(Q) /\ Cardinality(Q) \in Nat
  <2> HIDE DEF u
  <2> QED
    BY <1>1, AroundFinite
<1>3. P \subseteq Q /\ n + 1 \notin P
  <2> HIDE DEF u, n
  <2>1. P \subseteq 1 .. n /\ 1 .. n \subseteq 1 .. Len(u)
    BY <1>1 DEF Around, n
  <2>2. P \subseteq Q
    BY <1>1, <2>1 DEF Around
  <2>3. n + 1 \notin 1 .. n
    BY <1>1
  <2> QED
    BY <2>1, <2>2, <2>3
<1>4. Cardinality(P) <= Cardinality(Q)
  <2> HIDE DEF P, Q
  <2> QED
    BY <1>2, <1>3, FS_Subset
<1>5. ASSUME Limiter!Pays(r, x, Limit * Burst), from <= r.now + MaxWait, r.now < from + Window
      PROVE  Cardinality(P) + 1 <= Cardinality(Q)
  <2>1. n + 1 \in Q
    <3> HIDE DEF u, n
    <3>1. n + 1 \in 1 .. Len(u)
      BY <1>1
    <3> QED
      BY <1>1, <1>5, <3>1 DEF Around
  <2> HIDE DEF P, Q
  <2>2. P \cup {n + 1} \subseteq Q
    BY <1>3, <2>1
  <2>3. Cardinality(P \cup {n + 1}) = Cardinality(P) + 1
    BY <1>2, <1>3, FS_AddElement
  <2>4. Cardinality(P \cup {n + 1}) <= Cardinality(Q)
    BY <1>2, <2>2, FS_Subset
  <2> QED
    BY <2>3, <2>4
<1> QED
  BY <1>4, <1>5

-----------------------------------------------------------------------------
\* What the limiter relies on: nobody waits longer for the lock than MaxWait, no
\* window has counted more than was let through around it, every request let
\* through has its place, and the last refusal was right when it was made.
Waiting ==
  \A h \in Handler : arriving[h] # None =>
    arriving[h].now <= clock /\ clock <= arriving[h].now + MaxWait
CountsPaid ==
  \A x \in DOMAIN windows :
    /\ windows[x].started <= clock
    /\ windows[x].count <= Cardinality(Around(admitted, x, windows[x].started))
AllPlaced ==
  \A key, limit, a :
    key \notin evicted /\ limit \in {Limit, Limit * Burst} /\ a \in 1 .. Len(admitted)
      /\ Limiter!Pays(admitted[a], key, limit) =>
        Placed(admitted, windows, clock, key, limit, a)
RefusedRight ==
  refusal # None =>
    /\ refusal.seen \in 0 .. Len(admitted)
    /\ \E x \in DOMAIN refusal.limits, t \in 0 .. refusal.now :
         LET l == refusal.limits[x] IN
         /\ refusal.now < t + Window + MaxWait
         /\ Cardinality(Limiter!Paid(l.key, Limit * Burst, t, Window + 2 * MaxWait, refusal.seen)) >= l.limit
LimiterType ==
  /\ clock \in Nat /\ RateTable(windows)
  /\ arriving \in [Handler -> LimitedRequest \cup {None}]
  /\ admitted \in Seq(LimitedRequest)
LimiterInv == LimiterType /\ Waiting /\ CountsPaid /\ AllPlaced /\ RefusedRight

\* The same of any list of admitted requests and any refused request.
RefusedFor(s, q) ==
  \E x \in DOMAIN q.limits, t \in 0 .. q.now :
    /\ q.now < t + Window + MaxWait
    /\ Cardinality({i \in 1 .. q.seen : /\ Limiter!Pays(s[i], q.limits[x].key, Limit * Burst)
                                        /\ t <= s[i].now
                                        /\ s[i].now < t + (Window + 2 * MaxWait)}) >= q.limits[x].limit

\* The table starts empty and nobody has asked.
LEMMA LimiterInit == Limiter!Init => LimiterInv
<1> SUFFICES ASSUME Limiter!Init PROVE LimiterInv
  OBVIOUS
<1>1. /\ clock = 0 /\ windows = << >> /\ arriving = [h \in Handler |-> None]
      /\ admitted = <<>> /\ refusal = None /\ evicted = {}
  BY DEF Limiter!Init
<1>2. DOMAIN windows = {} /\ Len(admitted) = 0 /\ admitted \in Seq(LimitedRequest)
  BY <1>1
<1>3. RateTable(windows)
  BY <1>2, FS_EmptySet, LimiterAssumption DEF RateTable
<1>4. \A a : a \notin 1 .. Len(admitted)
  BY <1>2
<1> QED
  BY <1>1, <1>2, <1>3, <1>4 DEF LimiterInv, LimiterType, Waiting, CountsPaid, AllPlaced, RefusedRight

\* A request reads the time and waits; what was let through stays.
LEMMA LimiterArrives ==
  ASSUME LimiterInv, NEW h \in Handler, NEW peer \in Peer, NEW header \in Forwarded \cup {None},
         NEW token \in Token \cup {None}, Limiter!Arrive(h, peer, header, token)
  PROVE  LimiterInv'
<1> DEFINE c == Limiter!ClientRateKey(peer, header)
           r == [now |-> clock, limits |-> Limiter!RequestLimits(c, token)]
<1>1. arriving' = [arriving EXCEPT ![h] = r] /\ UNCHANGED <<clock, windows, admitted, refusal, evicted>>
  BY DEF Limiter!Arrive
<1>2. c \in Client
  BY DEF Limiter!ClientRateKey, Client
<1>3. r \in LimitedRequest
  <2> HIDE DEF c
  <2>1. Limiter!RequestLimits(c, token) \in Shapes
    <3>1. CASE token = None
      BY <1>2, <3>1 DEF Limiter!RequestLimits, Shapes
    <3>2. CASE token # None
      BY <1>2, <3>2 DEF Limiter!RequestLimits, Shapes
    <3> QED
      BY <3>1, <3>2
  <2> QED
    BY <2>1 DEF LimiterInv, LimiterType, LimitedRequest
<1>4. r.now = clock /\ clock \in Nat /\ MaxWait \in Nat
  BY LimiterAssumption DEF LimiterInv, LimiterType
<1> HIDE DEF r
<1>5. Waiting'
  <2>1. \A g \in Handler : arriving'[g] = IF g = h THEN r ELSE arriving[g]
    BY <1>1 DEF LimiterInv, LimiterType
  <2> QED
    BY <1>1, <1>4, <2>1 DEF LimiterInv, Waiting
<1>6. LimiterType'
  BY <1>1, <1>3 DEF LimiterInv, LimiterType, RateTable
<1>7. CountsPaid' /\ AllPlaced' /\ RefusedRight'
  BY <1>1 DEF LimiterInv, CountsPaid, AllPlaced, RefusedRight, Limiter!Paid
<1> QED
  BY <1>5, <1>6, <1>7 DEF LimiterInv

\* Time passes only as far as those that wait allow.
LEMMA LimiterTicks ==
  ASSUME LimiterInv, Limiter!Tick
  PROVE  LimiterInv'
<1>1. /\ clock' = clock + 1 /\ UNCHANGED <<windows, arriving, admitted, refusal, evicted>>
      /\ \A h \in Handler : arriving[h] # None => clock < arriving[h].now + MaxWait
  BY DEF Limiter!Tick
<1>2. clock \in Nat /\ clock' \in Nat /\ clock <= clock' /\ MaxWait \in Nat
  BY <1>1, LimiterAssumption DEF LimiterInv, LimiterType
<1>3. LimiterType'
  BY <1>1, <1>2 DEF LimiterInv, LimiterType, RateTable
<1>4. Waiting'
  <2> SUFFICES ASSUME NEW h \in Handler, arriving[h] # None
               PROVE  arriving[h].now <= clock' /\ clock' <= arriving[h].now + MaxWait
    BY <1>1 DEF Waiting
  <2>1. arriving[h].now \in Nat
    BY DEF LimiterInv, LimiterType, LimitedRequest
  <2> QED
    BY <1>1, <1>2, <2>1 DEF LimiterInv, Waiting
<1>5. CountsPaid'
  <2>1. \A x \in DOMAIN windows : windows[x].started \in Nat
    BY DEF LimiterInv, LimiterType, RateTable, RateWindow
  <2> QED
    BY <1>1, <1>2, <2>1 DEF LimiterInv, CountsPaid
<1>6. AllPlaced'
  <2> SUFFICES ASSUME NEW key, NEW limit, NEW a, key \notin evicted, limit \in {Limit, Limit * Burst},
                      a \in 1 .. Len(admitted), Limiter!Pays(admitted[a], key, limit)
               PROVE  Placed(admitted, windows, clock', key, limit, a)
    BY <1>1 DEF AllPlaced
  <2>1. Placed(admitted, windows, clock, key, limit, a)
    BY DEF LimiterInv, AllPlaced
  <2>2. limit \in Nat
    BY LimiterAssumption
  <2>3. admitted \in Seq(LimitedRequest)
    BY DEF LimiterInv, LimiterType
  <2> QED
    BY <1>2, <2>1, <2>2, <2>3, PlacedLater
<1>7. RefusedRight'
  BY <1>1 DEF LimiterInv, RefusedRight, Limiter!Paid
<1> QED
  BY <1>3, <1>4, <1>5, <1>6, <1>7 DEF LimiterInv

\* A refusal holds as more requests are let through.
LEMMA RefusalStays ==
  ASSUME LimiterInv, NEW r \in LimitedRequest, admitted' = Append(admitted, r), UNCHANGED refusal
  PROVE  RefusedRight'
<1>1. admitted \in Seq(LimitedRequest) /\ Len(admitted) \in Nat
  BY LenProperties DEF LimiterInv, LimiterType
<1>2. Len(admitted') = Len(admitted) + 1 /\ \A i \in 1 .. Len(admitted) : admitted'[i] = admitted[i]
  BY <1>1
<1> SUFFICES ASSUME refusal # None
             PROVE  RefusedRight'
  BY DEF RefusedRight
<1>3. refusal.seen \in 0 .. Len(admitted)
  BY DEF LimiterInv, RefusedRight
<1>4. \A key, limit, t, length : Limiter!Paid(key, limit, t, length, refusal.seen)'
                                   = Limiter!Paid(key, limit, t, length, refusal.seen)
  <2>1. \A i \in 1 .. refusal.seen : i \in 1 .. Len(admitted)
    BY <1>1, <1>3
  <2>2. \A i \in 1 .. refusal.seen : admitted'[i] = admitted[i]
    BY <1>2, <2>1
  <2> QED
    BY <2>2 DEF Limiter!Paid
<1>5. refusal.seen \in 0 .. Len(admitted')
  BY <1>1, <1>2, <1>3
<1> QED
  BY <1>4, <1>5 DEF LimiterInv, RefusedRight

\* The table after the windows that are over are left out.
LEMMA RetainedFacts ==
  ASSUME LimiterInv, NEW now \in Nat, now <= clock
  PROVE  /\ RateTable(Limiter!Retained(now))
         /\ DOMAIN Limiter!Retained(now) = {x \in DOMAIN windows : now < windows[x].started + Window}
         /\ \A x \in DOMAIN Limiter!Retained(now) : Limiter!Retained(now)[x] = windows[x]
         /\ \A key, limit, a :
              key \notin evicted /\ limit \in {Limit, Limit * Burst} /\ a \in 1 .. Len(admitted)
                /\ Limiter!Pays(admitted[a], key, limit) =>
                  Placed(admitted, Limiter!Retained(now), clock, key, limit, a)
<1> DEFINE w == Limiter!Retained(now)
<1>1. DOMAIN w = {x \in DOMAIN windows : now < windows[x].started + Window}
      /\ \A x \in DOMAIN w : w[x] = windows[x]
  BY DEF Limiter!Retained
<1>2. RateTable(windows) /\ clock \in Nat /\ admitted \in Seq(LimitedRequest)
  BY DEF LimiterInv, LimiterType
<1> HIDE DEF w
<1>3. RateTable(w)
  <2>1. DOMAIN w \subseteq DOMAIN windows
    BY <1>1
  <2>2. IsFiniteSet(DOMAIN w) /\ Cardinality(DOMAIN w) <= Cardinality(DOMAIN windows)
        /\ Cardinality(DOMAIN w) \in Nat /\ Cardinality(DOMAIN windows) \in Nat
    BY <1>2, <2>1, FS_Subset, FS_CardinalityType DEF RateTable
  <2>3. MaxBuckets \in Nat
    BY LimiterAssumption
  <2> QED
    BY <1>1, <1>2, <2>2, <2>3 DEF RateTable
<1>4. ASSUME NEW key, NEW limit, NEW a, key \notin evicted, limit \in {Limit, Limit * Burst},
             a \in 1 .. Len(admitted), Limiter!Pays(admitted[a], key, limit)
      PROVE  Placed(admitted, w, clock, key, limit, a)
  <2>1. Placed(admitted, windows, clock, key, limit, a)
    BY <1>4 DEF LimiterInv, AllPlaced
  <2>2. limit \in Nat
    BY <1>4, LimiterAssumption
  <2> QED
    BY <1>1, <1>2, <1>4, <2>1, <2>2, PlacedRetained
<1> QED
  BY <1>1, <1>3, <1>4 DEF w

\* A refusal: the full window it met had counted its limit of requests around it.
LEMMA LimiterRefuses ==
  ASSUME LimiterInv, NEW h \in Handler, Limiter!Allow(h),
         Limiter!Full(Limiter!Retained(arriving[h].now), arriving[h].limits)
  PROVE  LimiterInv'
<1> DEFINE r == arriving[h]
           w == Limiter!Retained(r.now)
<1>1. /\ r # None /\ arriving' = [arriving EXCEPT ![h] = None] /\ windows' = w
      /\ refusal' = [now |-> r.now, limits |-> r.limits, seen |-> Len(admitted)]
      /\ UNCHANGED <<clock, admitted, evicted>>
  BY DEF Limiter!Allow
<1>2. r \in LimitedRequest /\ r.now <= clock /\ clock <= r.now + MaxWait
  BY <1>1 DEF LimiterInv, LimiterType, Waiting
<1>3. r.now \in Nat /\ clock \in Nat /\ MaxWait \in Nat /\ Window \in Nat
      /\ admitted \in Seq(LimitedRequest) /\ Len(admitted) \in Nat
  BY <1>2, LimiterAssumption, LenProperties DEF LimiterInv, LimiterType, LimitedRequest
<1> HIDE DEF r
<1>4. /\ RateTable(w)
      /\ DOMAIN w = {x \in DOMAIN windows : r.now < windows[x].started + Window}
      /\ \A x \in DOMAIN w : w[x] = windows[x]
      /\ \A key, limit, a :
           key \notin evicted /\ limit \in {Limit, Limit * Burst} /\ a \in 1 .. Len(admitted)
             /\ Limiter!Pays(admitted[a], key, limit) =>
               Placed(admitted, w, clock, key, limit, a)
  BY <1>2, <1>3, RetainedFacts
<1>5. Limiter!Full(w, r.limits)
  BY DEF r
<1> HIDE DEF w
<1>6. LimiterType' /\ Waiting'
  <2>1. arriving' \in [Handler -> LimitedRequest \cup {None}]
        /\ \A g \in Handler : arriving'[g] = IF g = h THEN None ELSE arriving[g]
    BY <1>1 DEF LimiterInv, LimiterType
  <2>2. RateTable(windows)'
    BY <1>1, <1>4 DEF RateTable
  <2> QED
    BY <1>1, <2>1, <2>2 DEF LimiterInv, LimiterType, Waiting
<1>7. CountsPaid'
  BY <1>1, <1>4 DEF LimiterInv, CountsPaid
<1>8. AllPlaced'
  BY <1>1, <1>4 DEF AllPlaced
<1>9. RefusedRight'
  <2>1. PICK x \in DOMAIN r.limits : r.limits[x].key \in DOMAIN w /\ w[r.limits[x].key].count >= r.limits[x].limit
    BY <1>5 DEF Limiter!Full
  <2> DEFINE k == r.limits[x].key
             from == windows[k].started
             count == windows[k].count
             t == IF from >= MaxWait THEN from - MaxWait ELSE 0
             n == Len(admitted)
  <2>2. /\ k \in DOMAIN windows /\ r.now < from + Window /\ from <= clock
        /\ count >= r.limits[x].limit /\ count <= Cardinality(Around(admitted, k, from))
        /\ from \in Nat /\ count \in Nat
    <3>1. k \in DOMAIN windows /\ r.now < from + Window /\ count >= r.limits[x].limit
      BY <1>4, <2>1
    <3>2. windows[k] \in RateWindow
      BY <3>1 DEF LimiterInv, LimiterType, RateTable
    <3> HIDE DEF k
    <3> QED
      BY <3>1, <3>2 DEF LimiterInv, CountsPaid, RateWindow
  <2> HIDE DEF k, from, count, n
  <2>3. t \in Nat /\ t <= r.now /\ r.now < t + Window + MaxWait /\ from <= t + MaxWait /\ t <= from
        /\ from - MaxWait <= t
    BY <1>2, <1>3, <2>2
  <2> HIDE DEF t
  <2>4. Around(admitted, k, from) \subseteq Limiter!Paid(k, Limit * Burst, t, Window + 2 * MaxWait, n)
    <3> SUFFICES ASSUME NEW i \in 1 .. n, Limiter!Pays(admitted[i], k, Limit * Burst),
                        from <= admitted[i].now + MaxWait, admitted[i].now < from + Window
                 PROVE  t <= admitted[i].now /\ admitted[i].now < t + (Window + 2 * MaxWait)
      BY DEF Around, Limiter!Paid, n
    <3>1. admitted[i] \in LimitedRequest
      BY <1>3, ElementOfSeq DEF n
    <3> DEFINE y == admitted[i].now
    <3>2. y \in Nat
      BY <3>1 DEF LimitedRequest
    <3>3. from <= y + MaxWait /\ y < from + Window
      OBVIOUS
    <3>4. t = from - MaxWait \/ t = 0
      BY DEF t
    <3> HIDE DEF y
    <3>5. t <= y /\ y < t + (Window + 2 * MaxWait)
      BY <1>3, <2>2, <2>3, <3>2, <3>3, <3>4
    <3> QED
      BY <3>5 DEF y
  <2>5. IsFiniteSet(Limiter!Paid(k, Limit * Burst, t, Window + 2 * MaxWait, n))
    <3>1. IsFiniteSet(1 .. n)
      BY <1>3, FS_Interval DEF n
    <3>2. Limiter!Paid(k, Limit * Burst, t, Window + 2 * MaxWait, n) \subseteq 1 .. n
      BY DEF Limiter!Paid
    <3> QED
      BY <3>1, <3>2, FS_Subset
  <2>6. Cardinality(Around(admitted, k, from))
          <= Cardinality(Limiter!Paid(k, Limit * Burst, t, Window + 2 * MaxWait, n))
    BY <2>4, <2>5, FS_Subset
  <2>7. r.limits[x].limit \in Nat
    BY <1>2, ShapeFacts
  <2>8. Cardinality(Limiter!Paid(k, Limit * Burst, t, Window + 2 * MaxWait, n)) >= r.limits[x].limit
    <3>1. Cardinality(Limiter!Paid(k, Limit * Burst, t, Window + 2 * MaxWait, n)) \in Nat
          /\ Cardinality(Around(admitted, k, from)) \in Nat
      BY <1>3, <2>5, AroundFinite, FS_CardinalityType
    <3> QED
      BY <2>2, <2>6, <2>7, <3>1
  <2> DEFINE q == [now |-> r.now, limits |-> r.limits, seen |-> n]
  <2>9. /\ q.now = r.now /\ q.limits = r.limits /\ q.seen = n
    OBVIOUS
  <2>10. refusal' = q /\ admitted' = admitted
    BY <1>1 DEF n
  <2> HIDE DEF q
  <2>11. t \in 0 .. q.now /\ n \in Nat
    BY <1>3, <2>3, <2>9 DEF n
  <2>12. RefusedFor(admitted, q)
    BY <2>1, <2>3, <2>8, <2>9, <2>11 DEF RefusedFor, k, Limiter!Paid
  <2>13. RefusedFor(admitted', refusal')
    BY <2>10, <2>12
  <2>14. refusal'.seen \in 0 .. Len(admitted')
    BY <2>9, <2>10, <2>11 DEF n
  <2> QED
    BY <2>13, <2>14 DEF RefusedRight, RefusedFor, Limiter!Paid
<1> QED
  BY <1>6, <1>7, <1>8, <1>9 DEF LimiterInv

\* A request let through finds its place in the windows it was charged to.
LEMMA LimiterAdmits ==
  ASSUME LimiterInv, NEW h \in Handler, Limiter!Allow(h),
         ~ Limiter!Full(Limiter!Retained(arriving[h].now), arriving[h].limits)
  PROVE  LimiterInv'
<1> DEFINE q == arriving[h]
           r == [now |-> q.now, limits |-> q.limits]
           w == Limiter!Retained(q.now)
<1>1. /\ q # None /\ arriving' = [arriving EXCEPT ![h] = None]
      /\ \E left \in Limiter!ChargedAll([table |-> w, gone |-> evicted], q.now, q.limits) :
           windows' = left.table /\ evicted' = left.gone
      /\ admitted' = Append(admitted, r) /\ UNCHANGED <<clock, refusal>>
  BY DEF Limiter!Allow
<1>2. q \in LimitedRequest /\ q.now <= clock /\ clock <= q.now + MaxWait
  BY <1>1 DEF LimiterInv, LimiterType, Waiting
<1>3. r \in LimitedRequest /\ r.now = q.now /\ r.limits = q.limits
  BY <1>2 DEF LimitedRequest
<1>4. r.now \in Nat /\ clock \in Nat /\ MaxWait \in Nat /\ Window \in Nat
      /\ admitted \in Seq(LimitedRequest) /\ Len(admitted) \in Nat
  BY <1>3, LimiterAssumption, LenProperties DEF LimiterInv, LimiterType, LimitedRequest
<1>5. ~ Limiter!Full(w, r.limits)
  OBVIOUS
<1>6. \E left \in Limiter!ChargedAll([table |-> w, gone |-> evicted], r.now, r.limits) :
        windows' = left.table /\ evicted' = left.gone
  BY <1>1, <1>3
<1>7. /\ RateTable(w)
      /\ DOMAIN w = {x \in DOMAIN windows : r.now < windows[x].started + Window}
      /\ \A x \in DOMAIN w : w[x] = windows[x]
      /\ \A key, limit, a :
           key \notin evicted /\ limit \in {Limit, Limit * Burst} /\ a \in 1 .. Len(admitted)
             /\ Limiter!Pays(admitted[a], key, limit) =>
               Placed(admitted, w, clock, key, limit, a)
  BY <1>2, <1>3, <1>4, RetainedFacts
<1> HIDE DEF q, r, w
<1>8. /\ RateTable(windows') /\ evicted \subseteq evicted'
      /\ \A x \in DOMAIN windows' :
           \/ x \in DOMAIN w /\ windows'[x] = w[x]
           \/ x \in KeysOf(r) /\ windows'[x] = OneMore(w, x, r.now)
           \/ x \in KeysOf(r) /\ windows'[x] = [started |-> r.now, count |-> 1]
      /\ \A x : x \notin evicted' =>
           IF x \in KeysOf(r)
           THEN x \in DOMAIN windows' /\ windows'[x] = OneMore(w, x, r.now)
           ELSE /\ x \in DOMAIN windows' <=> x \in DOMAIN w
                /\ x \in DOMAIN w => windows'[x] = w[x]
  BY <1>3, <1>6, <1>7, ChargedFor
<1>9. LimiterType' /\ Waiting'
  <2>1. arriving' \in [Handler -> LimitedRequest \cup {None}]
        /\ \A g \in Handler : arriving'[g] = IF g = h THEN None ELSE arriving[g]
    BY <1>1 DEF LimiterInv, LimiterType
  <2>2. RateTable(windows)'
    BY <1>8 DEF RateTable
  <2>3. admitted' \in Seq(LimitedRequest)
    BY <1>1, <1>3, <1>4
  <2> QED
    BY <1>1, <1>4, <2>1, <2>2, <2>3 DEF LimiterInv, LimiterType, Waiting
<1>10. \A key \in KeysOf(r) : Limiter!Pays(r, key, Limit * Burst)
  <2>1. \A x \in DOMAIN r.limits : r.limits[x].limit <= Limit * Burst
    <3>1. /\ Limit \in Nat /\ Limit * Burst \in Nat /\ Limit <= Limit * Burst
          /\ \A x \in DOMAIN r.limits : r.limits[x].limit = Limit \/ r.limits[x].limit = Limit * Burst
      BY <1>3, ShapeFacts
    <3> QED
      BY <3>1
  <2> QED
    BY <2>1 DEF KeysOf, Limiter!Pays
<1>11. \A key, limit : Limiter!Pays(r, key, limit) /\ limit \in Nat =>
         key \in KeysOf(r) /\ (key \in DOMAIN w => w[key].count < limit)
  <2> SUFFICES ASSUME NEW key, NEW limit \in Nat, Limiter!Pays(r, key, limit)
               PROVE  key \in KeysOf(r) /\ (key \in DOMAIN w => w[key].count < limit)
    OBVIOUS
  <2>1. PICK x \in DOMAIN r.limits : r.limits[x].key = key /\ r.limits[x].limit <= limit
    BY DEF Limiter!Pays
  <2>2. r.limits[x].limit \in Nat
    BY <1>3, ShapeFacts
  <2>3. ASSUME key \in DOMAIN w PROVE w[key].count < limit
    <3>1. w[key].count \in Nat
      BY <1>7, <2>3 DEF RateTable, RateWindow
    <3>2. ~ (w[key].count >= r.limits[x].limit)
      BY <1>5, <2>1, <2>3 DEF Limiter!Full
    <3> QED
      BY <2>1, <2>2, <3>1, <3>2
  <2> QED
    BY <2>1, <2>3 DEF KeysOf
<1>12. CountsPaid'
  <2> SUFFICES ASSUME NEW x \in DOMAIN windows'
               PROVE  /\ windows'[x].started <= clock
                      /\ windows'[x].count <= Cardinality(Around(Append(admitted, r), x, windows'[x].started))
    BY <1>1 DEF CountsPaid
  <2> DEFINE u == Append(admitted, r)
  <2>1. u \in Seq(LimitedRequest)
    BY <1>3, <1>4
  <2> HIDE DEF u
  <2>2. \A from \in Nat : Cardinality(Around(admitted, x, from)) \in Nat /\ Cardinality(Around(u, x, from)) \in Nat
    BY <1>4, <2>1, AroundFinite
  <2>3. \A from \in Nat :
          /\ Cardinality(Around(admitted, x, from)) <= Cardinality(Around(u, x, from))
          /\ (Limiter!Pays(r, x, Limit * Burst) /\ from <= r.now + MaxWait /\ r.now < from + Window) =>
               Cardinality(Around(admitted, x, from)) + 1 <= Cardinality(Around(u, x, from))
    BY <1>3, <1>4, AroundGrows DEF u
  <2>4. x \in DOMAIN w =>
          /\ w[x].started \in Nat /\ w[x].count \in Nat /\ w[x].started <= clock
          /\ w[x].count <= Cardinality(Around(admitted, x, w[x].started))
          /\ r.now < w[x].started + Window
    BY <1>7 DEF LimiterInv, CountsPaid, RateTable, RateWindow
  <2>5. CASE x \in DOMAIN w /\ windows'[x] = w[x]
    <3> DEFINE from == w[x].started
    <3>1. from \in Nat /\ w[x].count \in Nat /\ from <= clock
          /\ w[x].count <= Cardinality(Around(admitted, x, from))
      BY <2>4, <2>5
    <3> HIDE DEF from
    <3>2. w[x].count <= Cardinality(Around(u, x, from))
      BY <2>2, <2>3, <3>1
    <3> QED
      BY <2>5, <3>1, <3>2 DEF u, from
  <2>6. CASE x \in KeysOf(r) /\ x \in DOMAIN w /\ windows'[x] = OneMore(w, x, r.now)
    <3> DEFINE from == w[x].started
    <3>1. from \in Nat /\ w[x].count \in Nat /\ from <= clock
          /\ w[x].count <= Cardinality(Around(admitted, x, from)) /\ r.now < from + Window
      BY <2>4, <2>6
    <3>2. windows'[x] = [started |-> from, count |-> w[x].count + 1]
      BY <2>6 DEF OneMore
    <3> HIDE DEF from
    <3>3. from <= r.now + MaxWait
      BY <1>2, <1>3, <1>4, <3>1
    <3>4. w[x].count + 1 <= Cardinality(Around(u, x, from))
      BY <1>10, <2>2, <2>3, <2>6, <3>1, <3>3
    <3> QED
      BY <3>1, <3>2, <3>4 DEF u
  <2>7. CASE x \in KeysOf(r) /\ windows'[x] = [started |-> r.now, count |-> 1]
    <3>1. r.now <= r.now + MaxWait /\ r.now < r.now + Window
      BY <1>4, LimiterAssumption
    <3>2. Cardinality(Around(admitted, x, r.now)) + 1 <= Cardinality(Around(u, x, r.now))
      BY <1>4, <1>10, <2>3, <2>7, <3>1
    <3> DEFINE before == Cardinality(Around(admitted, x, r.now))
               after == Cardinality(Around(u, x, r.now))
    <3>3. before \in Nat /\ after \in Nat /\ before + 1 <= after
      BY <1>4, <2>2, <3>2
    <3> HIDE DEF before, after
    <3>4. 1 <= after
      BY <3>3
    <3>5. 1 <= Cardinality(Around(u, x, r.now))
      BY <3>4 DEF after
    <3> QED
      BY <1>2, <1>3, <2>7, <3>5 DEF u
  <2>8. x \notin DOMAIN w => OneMore(w, x, r.now) = [started |-> r.now, count |-> 1]
    BY DEF OneMore
  <2> QED
    BY <1>8, <2>5, <2>6, <2>7, <2>8
<1>13. AllPlaced'
  <2> SUFFICES ASSUME NEW key, NEW limit, NEW a, key \notin evicted', limit \in {Limit, Limit * Burst},
                      a \in 1 .. Len(admitted'), Limiter!Pays(admitted'[a], key, limit)
               PROVE  Placed(admitted', windows', clock, key, limit, a)
    BY <1>1 DEF AllPlaced
  <2>1. limit \in Nat /\ limit >= 1
    <3>1. Limit \in Nat /\ Limit * Burst \in Nat /\ Limit >= 1 /\ Limit <= Limit * Burst
      BY <1>3, ShapeFacts
    <3> QED
      BY <3>1
  <2>2. key \notin evicted
    BY <1>8
  <2>3. IF key \in KeysOf(r)
        THEN key \in DOMAIN windows' /\ windows'[key] = OneMore(w, key, r.now)
        ELSE /\ key \in DOMAIN windows' <=> key \in DOMAIN w
             /\ key \in DOMAIN w => windows'[key] = w[key]
    BY <1>8
  <2>4. Len(admitted') = Len(admitted) + 1 /\ admitted'[Len(admitted) + 1] = r
        /\ \A i \in 1 .. Len(admitted) : admitted'[i] = admitted[i]
    BY <1>1, <1>4
  <2>5. CASE a = Len(admitted) + 1
    <3>1. key \in KeysOf(r)
      BY <1>11, <2>1, <2>4, <2>5
    <3>2. key \in DOMAIN w => r.now < w[key].started + Window
      BY <1>7
    <3>3. key \in DOMAIN windows' /\ windows'[key] = OneMore(w, key, r.now)
      BY <2>3, <3>1
    <3> QED
      BY <1>1, <1>3, <1>4, <1>7, <2>1, <2>5, <3>1, <3>2, <3>3, PlacedNew
  <2>6. CASE a # Len(admitted) + 1
    <3>1. a \in 1 .. Len(admitted)
      BY <1>4, <2>4, <2>6
    <3>2. Placed(admitted, w, clock, key, limit, a)
      BY <1>7, <2>2, <2>4, <3>1
    <3>3. Limiter!Pays(r, key, limit) => key \in KeysOf(r) /\ (key \in DOMAIN w => w[key].count < limit)
      BY <1>11, <2>1
    <3>4. r.now <= clock /\ clock <= r.now + MaxWait
      BY <1>2, <1>3
    <3> QED
      BY <1>1, <1>3, <1>4, <1>7, <2>1, <2>3, <3>1, <3>2, <3>3, <3>4, PlacedCharged
  <2> QED
    BY <2>5, <2>6
<1>14. RefusedRight'
  BY <1>1, <1>3, RefusalStays
<1> QED
  BY <1>9, <1>12, <1>13, <1>14 DEF LimiterInv

\* Every step of the limiter keeps all this.
LEMMA LimiterNext == LimiterInv /\ [Limiter!Next]_limiter => LimiterInv'
<1> SUFFICES ASSUME LimiterInv, [Limiter!Next]_limiter PROVE LimiterInv'
  OBVIOUS
<1>1. CASE UNCHANGED limiter
  BY <1>1 DEF limiter, LimiterInv, LimiterType, RateTable, Waiting, CountsPaid, AllPlaced, RefusedRight,
     Limiter!Paid
<1>2. ASSUME NEW h \in Handler, Limiter!Allow(h) PROVE LimiterInv'
  BY <1>2, LimiterRefuses, LimiterAdmits
<1> QED
  BY <1>1, <1>2, LimiterArrives, LimiterTicks DEF Limiter!Next

\* And it bounds what any stretch lets through.
LEMMA LimiterHolds == LimiterInv => Limiter!LimitsHold
<1> SUFFICES ASSUME LimiterInv PROVE Limiter!LimitsHold
  OBVIOUS
<1>1. ASSUME NEW key \in (Peer \cup Forwarded \cup Token) \ evicted,
             NEW limit \in {Limit, Limit * Burst}, NEW t \in 0 .. clock
      PROVE  Cardinality(Limiter!Paid(key, limit, t, Window + 1 - 2 * MaxWait, Len(admitted))) <= 2 * limit
  <2>1. limit \in Nat /\ t \in Nat /\ clock \in Nat /\ admitted \in Seq(LimitedRequest)
    BY LimiterAssumption DEF LimiterInv, LimiterType
  <2>2. EachPlaced(admitted, windows, clock, key, limit)
    BY <1>1 DEF LimiterInv, AllPlaced, EachPlaced
  <2>3. Cardinality(Stretch(admitted, key, limit, t)) <= 2 * limit
    BY <2>1, <2>2, PlacedBounds
  <2> QED
    BY <2>3 DEF Stretch, Limiter!Paid
<1>2. Cardinality(DOMAIN windows) <= MaxBuckets
  BY DEF LimiterInv, LimiterType, RateTable
<1> QED
  BY <1>1, <1>2, LimiterCardinality DEF Limiter!LimitsHold, LimiterInv, RefusedRight

\* Whatever processes start beside each other, their keys agree; and for any
\* requests under way, addresses, credentials, limits and windows, in whatever
\* order the waiting requests get the lock: no client or credential whose window
\* was not evicted gets more than two windows' worth in a stretch, nobody is
\* refused who has not used the allowance, and the table stays bounded.
THEOREM ServiceAlwaysSound == Spec => []ServiceSound
<1>1. Init => ServiceInv /\ LimiterInv
  BY ServiceInit, LimiterInit DEF Init
<1>2. ServiceInv /\ LimiterInv /\ [Next]_vars => (ServiceInv /\ LimiterInv)'
  BY PartSteps, ServiceNext, LimiterNext
<1>3. ServiceInv => Service!ReplicasAgree
  BY DEF ServiceInv, KeysBound, ReplicasSound, Service!ReplicasAgree, Service!Serving
<1>4. ServiceInv /\ LimiterInv => ServiceSound
  BY <1>3, LimiterHolds DEF ServiceSound
<1>5. QED
  BY <1>1, <1>2, <1>4, PTL DEF Spec
=============================================================================
