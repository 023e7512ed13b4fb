------------------------------- MODULE Sandbox -------------------------------
(***************************************************************************)
(* How an inference engine gets into its sandbox.  What the host offers is *)
(* detected for display; a launch plan probes it again, one mechanism at a *)
(* time, and states which mechanisms apply and which trust they are worth. *)
(* The statement is hashed into the node's attested policy before anything *)
(* runs.  Then the outer sandbox, a supervisor inside it and at last the   *)
(* engine start, while the host may change: a probe only says what held    *)
(* when it ran.                                                            *)
(*                                                                         *)
(* Paths are the kinds a plan tells apart; a right is what a layer lets    *)
(* the engine do with a path of that kind.                                 *)
(*                                                                         *)
(* Source: crates/mindone-sandbox/src/capability.rs, launch.rs,            *)
(* linux_supervisor.rs, windows_supervisor.rs.                             *)
(***************************************************************************)
EXTENDS Naturals, FiniteSets

VARIABLES
  platform,     \* linux, macos, windows
  offers,       \* what would work on the host now
  intact,       \* the engine's executable is the ordinary file that was checked
  plan,         \* the launch plan, as far as it is built
  outer,        \* the process that was started: none, or the step it has reached
  in_force,     \* the mechanisms that hold it
  supervising,  \* Windows: the supervisor that holds the Job Object is alive
  steady        \* history: the host has not changed since the plan was begun

vars == <<platform, offers, intact, plan, outer, in_force, supervising, steady>>

NoPlan == [at |-> "none"]
Plan(at, profile, applied, trust) ==
  [at |-> at, profile |-> profile, applied |-> applied, trust |-> trust]

Namespaces == {"namespaces", "bwrap"}
FullIsolation == Namespaces \cup {"seccomp", "landlock"}

-----------------------------------------------------------------------------
(***************************************************************************)
(* detect_capabilities_with_supervisor: the report                         *)
(***************************************************************************)
AppArmorOf(host) == host \cap {"apparmor"}

DetectLinux(host) ==
  LET outside == IF Namespaces \subseteq host THEN Namespaces ELSE {}
      full == {"landlock", "seccomp"} \subseteq host
      inside == IF full THEN {"landlock", "seccomp"} ELSE host \cap {"seccomp"}
      applicable == IF outside = {} THEN {} ELSE outside \cup inside \cup AppArmorOf(host)
  IN [applicable |-> applicable,
      trust |-> IF FullIsolation \subseteq applicable THEN "standard"
                ELSE IF applicable # {} THEN "limited" ELSE "unverified"]

DetectMacos(host) ==
  LET applicable == IF "inherited" \in host THEN {"inherited"} ELSE host \cap {"seatbelt"}
  IN [applicable |-> applicable, trust |-> IF applicable = {} THEN "experimental" ELSE "limited"]

DetectWindows == [applicable |-> {}, trust |-> "experimental"]

Detect(host) ==
  CASE platform = "linux" -> DetectLinux(host)
    [] platform = "macos" -> DetectMacos(host)
    [] OTHER -> DetectWindows

-----------------------------------------------------------------------------
(***************************************************************************)
(* build_launch_plan_with_supervisor                                       *)
(***************************************************************************)
Refuse == plan' = NoPlan

\* validated_executable and validated_access, then the first probe.
BuildLaunchPlan ==
  /\ plan = NoPlan /\ outer = "none"
  /\ intact
  /\ CASE platform = "linux" ->
            IF Namespaces \subseteq offers THEN plan' = Plan("probe", "none", {}, "none") ELSE Refuse
       [] platform = "macos" ->
            IF "inherited" \in offers THEN plan' = Plan("ready", "inherited", {"inherited"}, "limited")
            ELSE IF "seatbelt" \in offers THEN plan' = Plan("ready", "seatbelt", {"seatbelt"}, "limited")
            ELSE Refuse
       [] OTHER -> plan' = Plan("ready", "job", {"job"}, "experimental")
  /\ steady' = TRUE
  /\ UNCHANGED <<platform, offers, intact, outer, in_force, supervising>>

\* select_linux_supervisor_profile: sandbox-probe applies both layers in a
\* process of its own, sandbox-seccomp-probe only the filter.
FullProbe ==
  /\ plan.at = "probe"
  /\ plan' = IF {"landlock", "seccomp"} \subseteq offers
               THEN [plan EXCEPT !.at = "apparmor", !.profile = "full"]
               ELSE [plan EXCEPT !.at = "seccomp_probe"]
  /\ UNCHANGED <<platform, offers, intact, outer, in_force, supervising, steady>>

SeccompProbe ==
  /\ plan.at = "seccomp_probe"
  /\ plan' = [plan EXCEPT !.at = "apparmor",
                          !.profile = IF "seccomp" \in offers THEN "seccomp" ELSE "none"]
  /\ UNCHANGED <<platform, offers, intact, outer, in_force, supervising, steady>>

AppliedByProfile ==
  [full |-> FullIsolation, seccomp |-> Namespaces \cup {"seccomp"}, none |-> Namespaces]

\* linux_applied_mechanisms and the plan's trust level.
LinuxPlan ==
  /\ plan.at = "apparmor"
  /\ plan' = Plan("ready", plan.profile, AppliedByProfile[plan.profile] \cup AppArmorOf(offers),
                  IF plan.profile = "full" THEN "standard" ELSE "limited")
  /\ UNCHANGED <<platform, offers, intact, outer, in_force, supervising, steady>>

-----------------------------------------------------------------------------
(***************************************************************************)
(* The start                                                               *)
(***************************************************************************)
Dies == outer' = "none" /\ in_force' = {} /\ plan' = NoPlan /\ supervising' = FALSE

\* The plan's program starts: bubblewrap, sandbox-exec, the engine itself, or
\* the Windows supervisor.  An outer sandbox that cannot be set up ends it.
SpawnOuter ==
  /\ plan.at = "ready" /\ outer = "none"
  /\ CASE platform = "linux" ->
            IF Namespaces \subseteq offers
              THEN /\ outer' = IF plan.profile = "none" THEN "exec" ELSE "supervisor"
                   /\ in_force' = Namespaces \cup AppArmorOf(offers)
                   /\ UNCHANGED <<plan, supervising>>
              ELSE Dies
       [] platform = "macos" ->
            IF plan.profile = "inherited" \/ "seatbelt" \in offers
              THEN outer' = "exec" /\ in_force' = {plan.profile} /\ UNCHANGED <<plan, supervising>>
              ELSE Dies
       [] OTHER -> outer' = "job" /\ supervising' = TRUE /\ UNCHANGED <<plan, in_force>>
  /\ UNCHANGED <<platform, offers, intact, steady>>

\* validate_executable of the supervisor.
SupervisorValidates ==
  /\ outer = "supervisor"
  /\ IF intact
       THEN /\ outer' = IF plan.profile = "full" THEN "landlock" ELSE "seccomp"
            /\ UNCHANGED <<plan, in_force, supervising>>
       ELSE Dies
  /\ UNCHANGED <<platform, offers, intact, steady>>

\* Mutant of ApplyLandlock: CompatLevel::BestEffort.
ApplyLandlockBestEffort ==
  /\ outer = "landlock"
  /\ outer' = "seccomp"
  /\ in_force' = in_force \cup (offers \cap {"landlock"})
  /\ UNCHANGED <<platform, offers, intact, plan, supervising, steady>>

\* apply_landlock with HardRequirement; anything short of FullyEnforced ends the
\* supervisor.
ApplyLandlock ==
  /\ outer = "landlock"
  /\ IF "landlock" \in offers
       THEN /\ outer' = "seccomp" /\ in_force' = in_force \cup {"landlock"}
            /\ UNCHANGED <<plan, supervising>>
       ELSE Dies
  /\ UNCHANGED <<platform, offers, intact, steady>>

ApplySeccomp ==
  /\ outer = "seccomp"
  /\ IF "seccomp" \in offers
       THEN /\ outer' = "exec" /\ in_force' = in_force \cup {"seccomp"}
            /\ UNCHANGED <<plan, supervising>>
       ELSE Dies
  /\ UNCHANGED <<platform, offers, intact, steady>>

\* exec of the engine, which may fail.
ExecEngine(works) ==
  /\ outer = "exec"
  /\ IF works THEN outer' = "running" /\ UNCHANGED <<plan, in_force, supervising>> ELSE Dies
  /\ UNCHANGED <<platform, offers, intact, steady>>

-----------------------------------------------------------------------------
(***************************************************************************)
(* run_windows_job_supervisor                                              *)
(***************************************************************************)
\* The supervisor puts itself into a Job Object with KILL_ON_JOB_CLOSE and
\* checks that it is in.
AssignSupervisor ==
  /\ outer = "job" /\ supervising
  /\ IF "job" \in offers THEN outer' = "assigned" /\ UNCHANGED <<plan, in_force, supervising>>
                         ELSE Dies
  /\ UNCHANGED <<platform, offers, intact, steady>>

\* The child is born into the Job Object; the supervisor verifies even so.
SpawnChild ==
  /\ outer = "assigned" /\ supervising
  /\ IF intact THEN /\ outer' = "running" /\ in_force' = {"job"}
                    /\ UNCHANGED <<plan, supervising>>
               ELSE Dies
  /\ UNCHANGED <<platform, offers, intact, steady>>

\* The handle closes with the supervisor, and Windows ends what is in the job.
SupervisorKilled ==
  /\ supervising
  /\ IF outer = "running" /\ "job" \notin in_force
       THEN supervising' = FALSE /\ UNCHANGED <<outer, in_force, plan>>
       ELSE Dies
  /\ UNCHANGED <<platform, offers, intact, steady>>

-----------------------------------------------------------------------------
EngineExits ==
  /\ outer = "running"
  /\ Dies
  /\ UNCHANGED <<platform, offers, intact, steady>>

\* Another kernel policy, a replaced or missing bubblewrap, a profile loaded.
HostChanges(o) ==
  /\ offers' = IF o \in offers THEN offers \ {o} ELSE offers \cup {o}
  /\ steady' = FALSE
  /\ UNCHANGED <<platform, intact, plan, outer, in_force, supervising>>

\* The engine is replaced by a link, or put back.
ExecutableChanges ==
  /\ intact' = ~ intact
  /\ UNCHANGED <<platform, offers, plan, outer, in_force, supervising, steady>>

OffersOf ==
  [linux |-> {"bwrap", "namespaces", "landlock", "seccomp", "apparmor"},
   macos |-> {"seatbelt"}, windows |-> {"job"}]

Init ==
  /\ \E os \in {"linux", "macos", "windows"} :
       /\ platform = os
       /\ offers \in SUBSET OffersOf[os] \cup (IF os = "macos" THEN {{"inherited"}} ELSE {})
  /\ intact = TRUE
  /\ plan = NoPlan /\ outer = "none" /\ in_force = {} /\ supervising = FALSE
  /\ steady = TRUE

Next ==
  \/ BuildLaunchPlan \/ FullProbe \/ SeccompProbe \/ LinuxPlan
  \/ SpawnOuter \/ SupervisorValidates \/ ApplyLandlock \/ ApplySeccomp
  \/ \E works \in BOOLEAN : ExecEngine(works)
  \/ AssignSupervisor \/ SpawnChild \/ SupervisorKilled \/ EngineExits
  \/ \E o \in OffersOf[platform] : HostChanges(o)
  \/ ExecutableChanges

Spec == Init /\ [][Next]_vars

-----------------------------------------------------------------------------
(***************************************************************************)
(* What a layer grants the engine                                          *)
(***************************************************************************)
\* "loader" is the whole of /lib and /lib64: what the loader maps is not told
\* apart there from anything else, and all of it may be executed.  "system" is
\* the other directories every engine may read, such as /usr.
PathKind == {"engine", "loader", "system", "read_execute", "read_only", "read_write", "other"}

Bound(kind) ==
  CASE kind = "read_write" -> {"read", "write", "execute"}
    [] kind = "other" -> {}
    [] OTHER -> {"read", "execute"}

LandlockRule(kind) ==
  CASE kind \in {"engine", "loader"} -> {"read", "execute"}
    [] kind = "read_write" -> {"read", "write"}
    [] kind = "other" -> {}
    [] OTHER -> {"read"}

SeatbeltRule(kind) ==
  CASE kind = "engine" -> {"read", "execute", "map"}
    [] kind = "read_execute" -> {"read", "map"}
    [] kind = "read_write" -> {"read", "write"}
    [] kind = "loader" -> {"read", "map"}
    [] kind = "other" -> {}
    [] OTHER -> {"read"}

Granted(kind) ==
  {right \in {"read", "write", "execute", "map"} :
     /\ "bwrap" \in in_force => right \in Bound(kind)
     /\ "landlock" \in in_force => right \in LandlockRule(kind)
     /\ "seatbelt" \in in_force => right \in SeatbeltRule(kind)}

\* Whatever the host offered when the plan was made and offers when it is
\* carried out, an engine that runs is held by every mechanism its plan states,
\* an inherited AppArmor profile excepted: that one is stated as it was read.  At
\* the Standard level the engine can write nowhere but in its runtime directory
\* and execute nothing but itself and what lies in the loader's directories.  A
\* Job Object never outlives its supervisor.
AppliedAsStated ==
  outer = "running" =>
    /\ plan.applied \ {"apparmor"} \subseteq in_force
    /\ plan.trust = "standard" =>
         /\ FullIsolation \subseteq in_force
         /\ \A kind \in PathKind :
              /\ "write" \in Granted(kind) => kind = "read_write"
              /\ "execute" \in Granted(kind) => kind \in {"engine", "loader"}
    /\ "job" \in plan.applied => supervising

\* On a host that does not change, what is displayed as applicable is what a
\* plan applies, although the two are detected by different code.
DetectionAgrees ==
  plan.at = "ready" /\ steady /\ platform # "windows" =>
    Detect(offers) = [applicable |-> plan.applied, trust |-> plan.trust]
=============================================================================
