---------------------------- MODULE MCCoordinator ----------------------------
(***************************************************************************)
(* The coordinator as a service: an instance being drained, a stream being *)
(* relayed, replicas on one database and the rate limiter, checked side by *)
(* side.  focus picks the part that runs, the others stay in their initial *)
(* states.                                                                 *)
(***************************************************************************)
EXTENDS Naturals, Sequences, FiniteSets

CONSTANTS
  Job, MaxEvents, PageSize, None,
  Replica, StoredJob, Legacy, Hidden, NoKey,
  Handler, Peer, Proxies, Forwarded, Token, Limit, Burst, Window, MaxBuckets, MaxWait, MaxTime,
  MaxAdmitted

VARIABLES
  focus,
  instance_status, job_status, sharing, claiming, closing, unpublishing, sweeping, overtaken,
  status, lease, rows, worker, next, submitting, posted, validated, reading, next_sequence,
  pending, terminal, overdue, frames, ended, connected,
  schema, std_state, hmac_state, stored, hidden_row, catalog_on, replica,
  clock, windows, arriving, admitted, refusal, evicted

\* What stands for nothing is none of the values it is told from.
ASSUME StreamAssumption ==
  /\ MaxEvents \in Nat /\ PageSize \in Nat
  /\ None \notin {"done", "error", "timeout", "unconfirmed", "corrupt"}
  /\ None \notin [sequence : 0 .. MaxEvents, kind : {"data", "upstream_done"}]
ASSUME ServiceAssumption == NoKey \notin {"a", "b", "c"}

Drain == INSTANCE InstanceDrain
Stream == INSTANCE JobStream

\* Keys a, b and c in either role, and one configuration that uses a key twice.
Conf(std, hmac, budget) == [std |-> std, hmac |-> hmac, budget |-> budget]
Configuration ==
  {Conf("a", NoKey, FALSE), Conf("a", "b", TRUE), Conf("a", "c", TRUE), Conf("b", "c", TRUE),
   Conf("c", "c", FALSE)}
Service == INSTANCE Replicas WITH Config <- Configuration

Limiter == INSTANCE RateLimit WITH Nothing <- None
\* GlobalRateLimiter::new allows one request at least; addresses and credentials
\* are hashed in domains of their own.
ASSUME LimiterAssumption ==
  /\ Limit \in Nat \ {0} /\ Burst \in Nat \ {0} /\ Window \in Nat \ {0}
  /\ MaxBuckets \in Nat \ {0} /\ MaxWait \in Nat
  /\ (Peer \cup Forwarded) \cap Token = {}

drain == <<instance_status, job_status, sharing, claiming, closing, unpublishing, sweeping,
           overtaken>>
stream == <<status, lease, rows, worker, next, submitting, posted, validated, reading,
            next_sequence, pending, terminal, overdue, frames, ended, connected>>
service == <<schema, std_state, hmac_state, stored, hidden_row, catalog_on, replica>>
limiter == <<clock, windows, arriving, admitted, refusal, evicted>>
vars == <<focus, drain, stream, service, limiter>>

Init ==
  /\ focus \in {"drain", "stream", "service", "limiter"}
  /\ Drain!Init /\ Stream!Created /\ connected = (focus = "stream")
  /\ Service!Init /\ Limiter!Init

Next ==
  /\ UNCHANGED focus
  /\ \/ focus = "drain" /\ Drain!Next /\ UNCHANGED <<stream, service, limiter>>
     \/ focus = "stream" /\ Stream!Next /\ UNCHANGED <<drain, service, limiter>>
     \/ focus = "service" /\ Service!Next /\ UNCHANGED <<drain, stream, limiter>>
     \/ focus = "limiter" /\ Limiter!Next /\ UNCHANGED <<drain, stream, service>>

\* Nothing fair is enabled in the initial state of a part that does not run.
Spec == Init /\ [][Next]_vars /\ Drain!Fairness /\ Stream!Fairness /\ Service!Fairness

-----------------------------------------------------------------------------
\* No lease is written on an instance whose unpublishing has committed.
NoLeaseAfterUnpublish == Drain!NoLeaseAfterUnpublish

\* No leased instance counts as unpublished, unless a republication overtook an
\* UPDATE that waited for its row.
LeaseKeepsInstance == Drain!TypeOK /\ Drain!LeaseKeepsInstance

\* A draining instance without leases does not stay draining.
DrainingEnds == Drain!DrainingEnds

\* The client of a stream gets the log's events in order, none twice and none
\* left out, and a plain [DONE] only after the whole log of a settled job; the
\* log of a job that has ended never changes.
StreamSound ==
  /\ [](focus = "stream" =>
          /\ Stream!TypeOK /\ Stream!FramesInOrder
          /\ Stream!DoneMeansComplete /\ Stream!SettledLogComplete)
  /\ Stream!NothingAfterEnd

\* A client that stays connected sees its stream end.
StreamEnds == Stream!StreamEnds

\* Processes that serve agree on their keys with the database and its rows, and
\* a limiter lets through what its limits allow and refuses nothing else.
ServiceSound ==
  /\ focus = "service" => Service!ReplicasAgree
  /\ focus = "limiter" => Limiter!LimitsHold

\* An overdue hidden challenge ends as long as a capable process serves: stated
\* of one process and one challenge, the others being like them.
OverdueEnds == Service!EndsWith(1, 1)
=============================================================================
