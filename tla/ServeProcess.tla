---------------------------- MODULE ServeProcess ----------------------------
(***************************************************************************)
(* The local inference service: `serve run` and `serve stop` for one port. *)
(* A start spawns an engine, a log monitor and a proxy, holds their        *)
(* handles until all of them have been checked, and records them in a      *)
(* state file; a stop finds them through that file and signals them only   *)
(* while they still are the processes it names.  A command may be killed   *)
(* at any step; the children it has spawned then go on without it.         *)
(*                                                                         *)
(* A process is alive, gone, or its PID belongs to another process.  The   *)
(* start marker and arguments tell the two apart; that check and the       *)
(* signal that follows it are one step here.  So are the comparison and    *)
(* the removal of remove_state_if_matches.                                 *)
(*                                                                         *)
(* Source: crates/mindone-engine/src/process.rs, cli/src/serve.rs.         *)
(***************************************************************************)
EXTENDS Naturals, FiniteSets

CONSTANTS
  Command,      \* who runs commands for the port, one after another each
  MaxStarts,    \* bound on the starts
  None

VARIABLES
  commands,     \* commands[c]: where the command is, and the service it is about
  process,      \* process[g][role]: the processes of start g
  state_file,   \* the start that the state file describes
  port_of,      \* the start whose proxy has bound the public port
  held,         \* held[g]: a command still has the handles of the children
  foreign_hit,  \* a process that is not one of the service was signalled
  lost          \* history: starts whose state was written over or removed by a
                \*  command about another one, or whose command was killed
                \*  while they had no state

vars == <<commands, process, state_file, port_of, held, foreign_hit, lost>>

Role == {"engine", "monitor", "proxy"}
Start == 1 .. MaxStarts
Idle == [at |-> "idle", start |-> None]
At(c, step) == commands[c].at = step
Goes(c, step) == commands' = [commands EXCEPT ![c].at = step]
Unspawned == {g \in Start : \A r \in Role : process[g][r] = "none"}

Running(g, r) == process[g][r] = "running"
\* process_alive: the PID exists.
PidAlive(g, r) == process[g][r] \in {"running", "reused"}

\* A signal to the PID of a process, and what ends with it.
Signalled(procs, g, roles) ==
  [procs EXCEPT ![g] = [r \in Role |-> IF r \in roles /\ procs[g][r] = "running"
                                       THEN "gone" ELSE procs[g][r]]]

PortAfter(procs) ==
  IF port_of # None /\ procs[port_of]["proxy"] # "running" THEN None ELSE port_of

\* The state file is changed by its path, whatever start it describes by now.
Replaces(c) == lost' = lost \cup ({state_file} \ {None, commands[c].start})

-----------------------------------------------------------------------------
(***************************************************************************)
(* Status                                                                  *)
(***************************************************************************)
\* verify_process_identity, verify_log_monitor_identity, verify_proxy_identity
Verified(g, r) == Running(g, r)

\* health: the proxy that has the port answers, and answers for its engine.
Healthy == port_of # None /\ Running(port_of, "proxy") /\ Running(port_of, "engine")

\* status: all three identities, the cleanup status and the health check.
Serving(g) == Healthy /\ \A r \in Role : Verified(g, r)

-----------------------------------------------------------------------------
(***************************************************************************)
(* Start                                                                   *)
(***************************************************************************)
\* Mutant of StartAllowed: a proxy that outlived its engine is overlooked.
StartAllowedPastProxy == state_file # None => ~ PidAlive(state_file, "engine")

\* A state that is there must describe processes that are all gone: an engine
\* that lives, verified or not, a verified monitor and any proxy refuse.
StartAllowed ==
  state_file # None =>
     /\ ~ PidAlive(state_file, "engine")
     /\ ~ Verified(state_file, "monitor")
     /\ ~ PidAlive(state_file, "proxy")

\* ServeManager::start: the state is read.
CheckState(c) ==
  /\ At(c, "idle") /\ StartAllowed
  /\ commands' = [commands EXCEPT ![c] =
       [at |-> IF state_file = None THEN "checked" ELSE "stale", start |-> state_file]]
  /\ UNCHANGED <<process, state_file, port_of, held, foreign_hit, lost>>

\* The stale state is removed by its path.
RemoveStale(c) ==
  /\ At(c, "stale") /\ state_file # None
  /\ state_file' = None /\ Replaces(c)
  /\ commands' = [commands EXCEPT ![c] = [at |-> "checked", start |-> None]]
  /\ UNCHANGED <<process, port_of, held, foreign_hit>>

\* What a start asks for: the format of the validated model, the engine's
\* release and help text, and the kind of the additional arguments.
ServeRequest ==
  [format : {"gguf", "safetensors"}, audited : BOOLEAN, advertises : BOOLEAN,
   arguments : {"plain", "managed", "cpu"}, cpu_only : BOOLEAN]

\* ensure_managed_engine, ensure_safe_llama_logging_contract: the one audited
\* release, whose help names every flag the service depends on.
LoggingContract(req) == req.audited /\ req.advertises

\* build_managed_llama_args: an argument that would undo a managed one refuses
\* the start, a CPU policy argument only when the policy applies.
ManagedArgs(req) ==
  /\ req.arguments # "managed"
  /\ req.cpu_only => req.arguments # "cpu"

\* ensure_port_available
PortAvailable == port_of = None

\* The model's files and format, the contract, the arguments and the sandbox
\* plan; the log history is cleared, then the engine is spawned.
SpawnEngine(c) ==
  /\ At(c, "checked") /\ PortAvailable
  /\ \E req \in ServeRequest :
       req.format = "gguf" /\ LoggingContract(req) /\ ManagedArgs(req)
  /\ \E g \in Unspawned :
       /\ \A h \in Unspawned : g <= h
       /\ commands' = [commands EXCEPT ![c] = [at |-> "engine", start |-> g]]
       /\ process' = [process EXCEPT ![g]["engine"] = "running"]
       /\ held' = [held EXCEPT ![g] = TRUE]
  /\ UNCHANGED <<state_file, port_of, foreign_hit, lost>>

\* The log monitor and its ready token.
SpawnMonitor(c) ==
  /\ At(c, "engine")
  /\ process' = [process EXCEPT ![commands[c].start]["monitor"] = "running"]
  /\ Goes(c, "monitor")
  /\ UNCHANGED <<state_file, port_of, held, foreign_hit, lost>>

SpawnProxy(c) ==
  /\ At(c, "monitor")
  /\ process' = [process EXCEPT ![commands[c].start]["proxy"] = "running"]
  /\ Goes(c, "proxy")
  /\ UNCHANGED <<state_file, port_of, held, foreign_hit, lost>>

\* run_serve_proxy binds the port or exits.
ProxyBinds(g) ==
  /\ Running(g, "proxy") /\ port_of # g
  /\ IF port_of = None
     THEN port_of' = g /\ UNCHANGED process
     ELSE process' = [process EXCEPT ![g]["proxy"] = "gone"] /\ UNCHANGED port_of
  /\ UNCHANGED <<commands, state_file, held, foreign_hit, lost>>

\* write_state
WriteState(c) ==
  /\ At(c, "proxy")
  /\ state_file' = commands[c].start /\ Replaces(c)
  /\ Goes(c, "written")
  /\ UNCHANGED <<process, port_of, held, foreign_hit>>

\* wait_healthy
WaitHealthy(c) ==
  /\ At(c, "written") /\ Healthy
  /\ Goes(c, "healthy")
  /\ UNCHANGED <<process, state_file, port_of, held, foreign_hit, lost>>

\* handoff_spawned_children: all three children are alive.
HandoffChildren(g) == \A r \in Role : Running(g, r)

\* The status is read through the file, the children through their handles.
HandOff(c) ==
  LET g == commands[c].start IN
  /\ At(c, "healthy") /\ state_file # None /\ Serving(state_file) /\ HandoffChildren(g)
  /\ held' = [held EXCEPT ![g] = FALSE]
  /\ commands' = [commands EXCEPT ![c] = Idle]
  /\ UNCHANGED <<process, state_file, port_of, foreign_hit, lost>>

\* compensate_failed_start: the engine is ended by its handle first.
Compensate(c) ==
  LET g == commands[c].start IN
  /\ commands[c].at \in {"proxy", "written", "healthy"}
  /\ process' = Signalled(process, g, {"engine"})
  /\ port_of' = PortAfter(process')
  /\ Goes(c, "reaped")
  /\ UNCHANGED <<state_file, held, foreign_hit, lost>>

\* remove_state_if_matches
RemoveStateIfMatches(c) ==
  state_file' = IF state_file = commands[c].start THEN None ELSE state_file

\* The start's own state is removed next,
RemoveOwnState(c) ==
  /\ At(c, "reaped")
  /\ RemoveStateIfMatches(c)
  /\ Goes(c, "removed")
  /\ UNCHANGED <<process, port_of, held, foreign_hit, lost>>

\* Mutant of DropGuards: a child is not ended with its handle.
DropHandles(c) == UNCHANGED <<process, port_of>>

\* SpawnedChildGuard::drop
DropGuards(c) ==
  /\ process' = Signalled(process, commands[c].start, Role)
  /\ port_of' = PortAfter(process')

\* An earlier step fails: no marker, the monitor not ready, no proxy; and the
\* end of a compensated start, whose other two handles are dropped last.
StartFails(c) ==
  /\ commands[c].at \in {"stale", "checked", "engine", "monitor", "proxy", "removed"}
  /\ IF commands[c].at \in {"stale", "checked"} THEN UNCHANGED <<process, port_of, held>>
     ELSE DropGuards(c) /\ held' = [held EXCEPT ![commands[c].start] = FALSE]
  /\ commands' = [commands EXCEPT ![c] = Idle]
  /\ UNCHANGED <<state_file, foreign_hit, lost>>

\* The state that the start has written is still its own to be stopped by.
StateWritten(c) ==
  commands[c].at \in {"written", "healthy"} \/ (At(c, "reaped") /\ state_file = commands[c].start)

\* The command is killed: no guard is dropped, the children go on.
StartKilled(c) ==
  /\ commands[c].at \in {"engine", "monitor", "proxy", "written", "healthy", "reaped", "removed"}
  /\ held' = [held EXCEPT ![commands[c].start] = FALSE]
  /\ lost' = IF StateWritten(c) THEN lost ELSE lost \cup {commands[c].start}
  /\ commands' = [commands EXCEPT ![c] = Idle]
  /\ UNCHANGED <<process, state_file, port_of, foreign_hit>>

-----------------------------------------------------------------------------
(***************************************************************************)
(* Stop                                                                    *)
(***************************************************************************)
\* ServeManager::stop: status; an engine that cannot be verified is an error.
BeginStop(c) ==
  /\ At(c, "idle") /\ state_file # None
  /\ process[state_file]["engine"] # "reused"
  /\ commands' = [commands EXCEPT ![c] = [at |-> IF Running(state_file, "engine") THEN "stop_proxy"
                                                 ELSE "stop_monitor",
                                         start |-> state_file]]
  /\ UNCHANGED <<process, state_file, port_of, held, foreign_hit, lost>>

\* Mutant of Terminate: the PID is signalled as it was recorded.
TerminateByPid(c, role) ==
  LET g == commands[c].start IN
  /\ process' = Signalled(process, g, {role})
  /\ foreign_hit' = (foreign_hit \/ process[g][role] = "reused")

\* Every signal follows a check of the start marker and the arguments.
Terminate(c, role) ==
  /\ Verified(commands[c].start, role)
  /\ process' = Signalled(process, commands[c].start, {role})
  /\ UNCHANGED foreign_hit

\* stop_verified_proxy
StopProxy(c) ==
  LET g == commands[c].start IN
  /\ commands[c].at \in {"stop_proxy", "stop_last_proxy"}
  /\ \/ PidAlive(g, "proxy") /\ Terminate(c, "proxy")
     \/ ~ PidAlive(g, "proxy") /\ UNCHANGED <<process, foreign_hit>>
  /\ port_of' = PortAfter(process')
  /\ Goes(c, IF At(c, "stop_proxy") THEN "stop_engine" ELSE "stopped")
  /\ UNCHANGED <<state_file, held, lost>>

\* TERM, the wait, and KILL; an engine that left by itself is found gone.
StopEngine(c) ==
  LET g == commands[c].start IN
  /\ At(c, "stop_engine") /\ PidAlive(g, "engine") /\ Terminate(c, "engine")
  /\ Goes(c, "stop_own_monitor")
  /\ UNCHANGED <<state_file, port_of, held, lost>>

\* wait_until_log_monitor_gone, stop_verified_log_monitor
StopMonitor(c) ==
  LET g == commands[c].start IN
  /\ commands[c].at \in {"stop_monitor", "stop_own_monitor"}
  /\ \/ Running(g, "monitor") /\ Terminate(c, "monitor")
     \/ /\ ~ PidAlive(g, "monitor") \/ (At(c, "stop_own_monitor") /\ ~ Verified(g, "monitor"))
        /\ UNCHANGED <<process, foreign_hit>>
  /\ Goes(c, IF At(c, "stop_monitor") THEN "stop_last_proxy" ELSE "stopped")
  /\ UNCHANGED <<state_file, port_of, held, lost>>

\* finish_stop: the state file is removed by its path.
FinishStop(c) ==
  /\ At(c, "stopped") /\ state_file # None
  /\ state_file' = None /\ Replaces(c)
  /\ commands' = [commands EXCEPT ![c] = Idle]
  /\ UNCHANGED <<process, port_of, held, foreign_hit>>

\* Every other error leaves the state file, and so does the death of the command.
StopFails(c) ==
  /\ commands[c].at \in {"stop_proxy", "stop_last_proxy", "stop_engine", "stop_monitor",
                         "stop_own_monitor", "stopped"}
  /\ commands' = [commands EXCEPT ![c] = Idle]
  /\ UNCHANGED <<process, state_file, port_of, held, foreign_hit, lost>>

-----------------------------------------------------------------------------
\* A process crashes or ends by itself, as the log monitor does once its engine
\* is gone; the proxy stays.
Exits(g, r) ==
  /\ Running(g, r)
  /\ process' = [process EXCEPT ![g][r] = "gone"]
  /\ port_of' = PortAfter(process')
  /\ UNCHANGED <<commands, state_file, held, foreign_hit, lost>>

\* External: the PID of a process that is gone and reaped is given away.
PidReused(g, r) ==
  /\ process[g][r] = "gone" /\ ~ held[g]
  /\ process' = [process EXCEPT ![g][r] = "reused"]
  /\ UNCHANGED <<commands, state_file, port_of, held, foreign_hit, lost>>

Init ==
  /\ commands = [c \in Command |-> Idle]
  /\ process = [g \in Start |-> [r \in Role |-> "none"]]
  /\ state_file = None /\ port_of = None
  /\ held = [g \in Start |-> FALSE] /\ foreign_hit = FALSE
  /\ lost = {}

Next ==
  \/ \E c \in Command :
       \/ CheckState(c) \/ RemoveStale(c) \/ SpawnEngine(c) \/ SpawnMonitor(c)
       \/ SpawnProxy(c) \/ WriteState(c) \/ WaitHealthy(c) \/ HandOff(c)
       \/ Compensate(c) \/ RemoveOwnState(c) \/ StartFails(c) \/ StartKilled(c)
       \/ BeginStop(c) \/ StopProxy(c) \/ StopEngine(c) \/ StopMonitor(c) \/ FinishStop(c)
       \/ StopFails(c)
  \/ \E g \in Start : ProxyBinds(g) \/ \E r \in Role : Exits(g, r) \/ PidReused(g, r)

Spec == Init /\ [][Next]_vars

-----------------------------------------------------------------------------
TypeOK ==
  /\ process \in [Start -> [Role -> {"none", "running", "gone", "reused"}]]
  /\ state_file \in Start \cup {None} /\ port_of \in Start \cup {None}
  /\ held \in [Start -> BOOLEAN] /\ foreign_hit \in BOOLEAN /\ lost \subseteq Start

\* SpawnedChildGuard: whatever step of a start or a stop fails, no process of
\* the service runs without either a command that holds its handle or a state
\* file by which it can be stopped, with two exceptions, both remembered in
\* `lost`: a service whose state a command for another one has written over or
\* removed, and the children of a start that was killed before write_state, or
\* between the removal of its state and the drop of its guards.
NoOrphan ==
  \A g \in Start, r \in Role : Running(g, r) => held[g] \/ state_file = g \/ g \in lost

\* What the comment at SpawnedChildGuard says.  It does not hold of two commands
\* at a time, whose states replace each other, nor of a command that is killed.
NeverUnmanaged ==
  \A g \in Start, r \in Role : Running(g, r) => held[g] \/ state_file = g

\* A PID that was given to another process is never signalled, however long
\* the state file was left behind.
OnlyOwnProcesses == ~ foreign_hit
=============================================================================
