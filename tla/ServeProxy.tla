----------------------------- MODULE ServeProxy -----------------------------
(***************************************************************************)
(* The proxy of the local inference service.  Requests pass one at a time  *)
(* through a gate to slot 0 of the engine; after each response the slot is *)
(* erased before the next request may use it, and the counts of that are   *)
(* written to a status file which `serve stop` reads.                      *)
(*                                                                         *)
(* Until the engine's response begins a request is served by the handler   *)
(* of its connection, which is dropped when the client goes away; from     *)
(* then on a task of its own holds the gate to the end.                    *)
(*                                                                         *)
(* Source: cli/src/serve_proxy.rs, crates/mindone-engine/src/process.rs.   *)
(***************************************************************************)
EXTENDS Naturals, FiniteSets

CONSTANTS
  Request,     \* local inference requests
  NoRequest

VARIABLES
  handling,    \* handling[r]: how far a request has come
  gate,        \* the request that holds the inference permit
  slot,        \* whose tokens are in the engine's slot 0
  required,    \* cleanup_required
  reporting,   \* FALSE: reporting_failed
  counts,      \* the counts in memory
  status_file, \* the counts on disk
  engine_up,   \* the engine is the process the proxy was started for
  left_behind  \* the requests whose handler was dropped while the engine worked

vars == <<handling, gate, slot, required, reporting, counts, status_file, engine_up, left_behind>>
tallies == <<required, reporting, counts, status_file>>

NoCounts == [attempts |-> 0, successes |-> 0, failures |-> 0, completed |-> 0, required |-> FALSE]
At(r, step) == handling[r] = step
Goes(r, step) == handling' = [handling EXCEPT ![r] = step]
Release(r) == gate' = IF gate = r THEN NoRequest ELSE gate

-----------------------------------------------------------------------------
\* proxy_request_inner: the target's identity, the endpoint, the reporting.
Arrive(r) ==
  /\ At(r, "new") /\ engine_up /\ reporting
  /\ Goes(r, "queued")
  /\ UNCHANGED <<gate, slot, tallies, engine_up, left_behind>>

Reject(r) ==
  /\ At(r, "new") /\ ~ (engine_up /\ reporting)
  /\ Goes(r, "failed")
  /\ UNCHANGED <<gate, slot, tallies, engine_up, left_behind>>

\* acquire_owned, then the identity once more.
AcquireGate(r) ==
  /\ At(r, "queued") /\ gate = NoRequest
  /\ IF engine_up THEN gate' = r /\ Goes(r, "admitted")
                  ELSE Goes(r, "failed") /\ UNCHANGED gate
  /\ UNCHANGED <<slot, tallies, engine_up, left_behind>>

\* record_cleanup: the counts, and the file unless it cannot be written.
RecordCleanup(success, terminal, written) ==
  /\ required' = ~ success
  /\ counts' = [attempts |-> counts.attempts + 1,
                successes |-> counts.successes + (IF success THEN 1 ELSE 0),
                failures |-> counts.failures + (IF success THEN 0 ELSE 1),
                completed |-> counts.completed + (IF terminal THEN 1 ELSE 0),
                required |-> ~ success]
  /\ status_file' = IF written THEN counts' ELSE status_file
  /\ reporting' = (reporting /\ written)

\* erase_slot: refused when the engine is another process, may fail otherwise.
EraseSlot(success) ==
  /\ success => engine_up
  /\ slot' = IF success THEN NoRequest ELSE slot

\* Mutant of RetryErase: the request goes on when the erase fails again.
RetryOnce(r, success, written) ==
  /\ At(r, "admitted") /\ required
  /\ EraseSlot(success)
  /\ RecordCleanup(success, FALSE, written)
  /\ Goes(r, "clean") /\ UNCHANGED gate
  /\ UNCHANGED <<engine_up, left_behind>>

\* A cleanup that is still required is tried again first; failing, the request
\* is refused, as it is when the status cannot be written.
RetryErase(r, success, written) ==
  /\ At(r, "admitted") /\ required
  /\ EraseSlot(success)
  /\ RecordCleanup(success, FALSE, written)
  /\ IF success /\ written THEN Goes(r, "clean") /\ UNCHANGED gate
                           ELSE Goes(r, "failed") /\ Release(r)
  /\ UNCHANGED <<engine_up, left_behind>>

NothingRequired(r) ==
  /\ At(r, "admitted") /\ ~ required
  /\ Goes(r, "clean")
  /\ UNCHANGED <<gate, slot, tallies, engine_up, left_behind>>

\* forward_request: the body is bounded and a JSON object, or the request ends
\* here; then slot 0 and no prompt cache are written into it and it is sent.
Forward(r) ==
  /\ At(r, "clean")
  /\ \/ Goes(r, "sent") /\ slot' = r /\ UNCHANGED gate
     \/ Goes(r, "failed") /\ Release(r) /\ UNCHANGED slot
  /\ UNCHANGED <<tallies, engine_up, left_behind>>

\* The engine answers: a task takes over the permit.
ResponseBegins(r) ==
  /\ At(r, "sent") /\ engine_up
  /\ Goes(r, "streaming")
  /\ UNCHANGED <<gate, slot, tallies, engine_up, left_behind>>

\* Mutant of CleanupAfterTerminal: no cleanup after a response that broke off.
CleanupAfterSuccess(r, success, written) ==
  /\ At(r, "streaming") \/ At(r, "sent")
  /\ IF At(r, "sent") \/ ~ engine_up THEN UNCHANGED <<slot, tallies>>
     ELSE EraseSlot(success) /\ RecordCleanup(success, TRUE, written)
  /\ Goes(r, "ended") /\ Release(r)
  /\ UNCHANGED <<engine_up, left_behind>>

\* cleanup_after_terminal: the stream ends or breaks off, or the request could
\* not be sent; the client may be gone by now.
CleanupAfterTerminal(r, success, written) ==
  /\ At(r, "streaming") \/ At(r, "sent")
  /\ EraseSlot(success) /\ RecordCleanup(success, TRUE, written)
  /\ Goes(r, "ended") /\ Release(r)
  /\ UNCHANGED <<engine_up, left_behind>>

\* The client closes its connection and the handler is dropped with it.
ClientLeaves(r) ==
  /\ handling[r] \in {"queued", "admitted", "clean", "sent"}
  /\ left_behind' = IF At(r, "sent") THEN left_behind \cup {r} ELSE left_behind
  /\ Goes(r, "failed") /\ Release(r)
  /\ UNCHANGED <<slot, tallies, engine_up>>

\* The engine dies; what was in its memory is gone.
EngineDies ==
  /\ engine_up
  /\ engine_up' = FALSE /\ slot' = NoRequest
  /\ UNCHANGED <<handling, gate, tallies, left_behind>>

Init ==
  /\ handling = [r \in Request |-> "new"] /\ gate = NoRequest /\ slot = NoRequest
  /\ required = FALSE /\ reporting = TRUE
  /\ counts = NoCounts /\ status_file = NoCounts
  /\ engine_up = TRUE /\ left_behind = {}

Next ==
  \/ \E r \in Request :
       \/ Arrive(r) \/ Reject(r) \/ AcquireGate(r) \/ NothingRequired(r) \/ Forward(r)
       \/ ResponseBegins(r) \/ ClientLeaves(r)
       \/ \E success, written \in BOOLEAN :
            RetryErase(r, success, written) \/ CleanupAfterTerminal(r, success, written)
  \/ EngineDies

Spec == Init /\ [][Next]_vars

-----------------------------------------------------------------------------
\* read_cleanup_status: what `serve status` and `serve stop` accept as the
\* status of this proxy.
StatusAccepted ==
  /\ status_file.successes + status_file.failures = status_file.attempts
  /\ status_file.completed <= status_file.attempts

\* finish_stop: kv_cache_cleanup_confirmed
CleanupConfirmed ==
  /\ status_file.completed > 0 /\ ~ status_file.required
  /\ status_file.failures = 0 /\ status_file.successes = status_file.completed

\* What docs/SECURITY.md says: every inference, successful or not, is followed by
\* an erase of slot 0, and where that failed it is required before the next.  It
\* does not hold of a request whose client leaves before the response begins.
EveryInferenceErased == slot \notin {NoRequest, gate} => required

\* Of the requests whose client stayed until the response began, none leaves its
\* tokens in the slot for the next one, whatever erases and status writes fail.
\* The others (left_behind) may: their handler is dropped with no cleanup, and
\* what they left is there until the next request ends.
StartsClean ==
  [][\A r \in Request : (handling[r] # "sent" /\ handling'[r] = "sent")
       => slot \in {NoRequest} \cup left_behind]_vars

\* The status file is never one that the reader refuses, whichever of the
\* erases and writes fail; and a stop that reports every cleanup as confirmed
\* leaves no tokens of a request that the file counts, which it does not of
\* those left behind.
ConfirmedIsClean ==
  /\ StatusAccepted
  /\ (CleanupConfirmed /\ reporting /\ gate = NoRequest) => slot \in {NoRequest} \cup left_behind
=============================================================================
