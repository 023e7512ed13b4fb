------------------------------ MODULE MCAccess ------------------------------
(***************************************************************************)
(* Who may do what: sessions, attestations, regulated routes and the       *)
(* assessment of abuse, checked side by side.  focus picks the part that   *)
(* runs, the others stay in their initial states.                          *)
(***************************************************************************)
EXTENDS Naturals, FiniteSets, TLC

CONSTANTS
  WorkerTask, Command, Poll, MaxGen, Nobody,
  Attempt, Handler, NoAttempt,
  Route, Tx, MaxConcurrent, MaxReports, Free,
  User, JobKey, KeysOf, DeviceOf, Network, RequireNetwork, Newcomer, LoopUser, MaxLoop, MaxOpen,
  IpShared, IpLarge, AsnShared, AsnLarge, LoopEmerging, LoopBlock, None

VARIABLES
  focus,
  user, mail_link, flow, bound, polling, issued, gen, access_over, revoked, sid, api_key,
  delivered, vault_session, vault_key, refresh_lock, proc, signing_in, lost, logged_out,
  instance_up, challenge, challenge_over, verdicts, node_report, trust_over, submission,
  attest, key_record,
  route, route_over, route_report, job_route, other_work, report, trusted, quarantined,
  key_lock, route_lock, node_lock, canary_lock, tx,
  device, observations, decisions, loop, creating, blocked

\* What stands for nobody is not one of the others; keys and reports are finite.
ASSUME AttestationAssumption == NoAttempt \notin Attempt
ASSUME SessionAssumption == MaxGen \in Nat
ASSUME RouteAssumption ==
  Free \notin Route \cup Tx /\ IsFiniteSet(Route) /\ MaxReports \in Nat \ {0}
ASSUME RiskAssumption ==
  /\ IsFiniteSet(User) /\ RequireNetwork \in BOOLEAN /\ None \notin Nat
  /\ {IpShared, IpLarge, AsnShared, AsnLarge, LoopEmerging, LoopBlock} \subseteq Nat

Sessions == INSTANCE AuthSessions
Hardware == INSTANCE Attestation
Routes == INSTANCE RegulatedRoute
Assessments == INSTANCE AntiAbuse WITH DeviceBlock <- 3

\* Two users share a device, one of them a newcomer; all share a network, and the
\* first creates two jobs.
SharedDevice == <<"d", "d", "e">>
Keys == <<{1, 2}, {1}, {1}>>
SharedNetwork == [proxy : {TRUE}, header : BOOLEAN, prefix : {"p"}, asn : {"a"}, peer : {"x"}]

sessions ==
  <<user, mail_link, flow, bound, polling, issued, gen, access_over, revoked, sid, api_key,
    delivered, vault_session, vault_key, refresh_lock, proc, signing_in, lost, logged_out>>
hardware ==
  <<instance_up, challenge, challenge_over, verdicts, node_report, trust_over, submission,
    attest, key_record>>
routes ==
  <<route, route_over, route_report, job_route, other_work, report, trusted, quarantined,
    key_lock, route_lock, node_lock, canary_lock, tx>>
assessments == <<device, observations, decisions, loop, creating, blocked>>
vars == <<focus, sessions, hardware, routes, assessments>>

Init ==
  /\ focus \in {"sessions", "hardware", "routes", "assessments"}
  /\ Sessions!Init /\ Hardware!Init /\ Routes!Init /\ Assessments!Init

Next ==
  /\ UNCHANGED focus
  /\ \/ focus = "sessions" /\ Sessions!Next /\ UNCHANGED <<hardware, routes, assessments>>
     \/ focus = "hardware" /\ Hardware!Next /\ UNCHANGED <<sessions, routes, assessments>>
     \/ focus = "routes" /\ Routes!Next /\ UNCHANGED <<sessions, hardware, assessments>>
     \/ /\ focus = "assessments" /\ (Assessments!Next \/ UNCHANGED assessments)  \* all are made
        /\ UNCHANGED <<sessions, hardware, routes>>

Spec == Init /\ [][Next]_vars

\* Members of these sets are told apart by nothing but their names.
Symmetry == Permutations(WorkerTask) \cup Permutations(Poll)

-----------------------------------------------------------------------------
\* The vault holds the session's present tokens with its device key, or is about
\* to; nothing of a session survives its logout, and one device flow issues one
\* session.
SessionsSafe ==
  focus = "sessions" =>
    /\ Sessions!TypeOK /\ Sessions!VaultCurrent /\ Sessions!KeyWithSession
    /\ Sessions!LoggedOutStaysOut /\ Sessions!OneSessionPerFlow

\* Stored tokens are never replaced by older ones.
VaultForward == Sessions!VaultForward

\* One challenge is judged once, and a key called verified belongs to a verified
\* report.
AttestationSound ==
  focus = "hardware" =>
    Hardware!TypeOK /\ Hardware!OneVerdict /\ Hardware!VerifiedKeyReported

\* A prepared route becomes one job.
RouteUsedOnce == focus = "routes" => Routes!TypeOK /\ Routes!RouteUsedOnce

\* A node becomes trusted only with its instance published; a regulated job is
\* created under the report it was sealed for, and nothing is promised on a
\* quarantined instance.
PromisesKept ==
  Hardware!TrustedWhilePublished /\ Routes!CreatedUnderReport /\ Routes!QuarantineHolds

\* As long as nothing is forgotten, a job whose assessment began after another of the
\* user's was committed from the same network is never weighed higher.
WeightsOnlyFall == focus = "assessments" => Assessments!WeightsOnlyFall
=============================================================================
