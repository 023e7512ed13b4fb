---------------------------- MODULE LogRotation -----------------------------
(***************************************************************************)
(* The rotation of a log that another process keeps appending to: the      *)
(* worker's own log, whose generations are shifted by renaming, and the    *)
(* engine's log, whose generations are shifted by atomic copies under a    *)
(* file lock and cleared when a service starts.  The rotating process may  *)
(* die between any two file operations and is started again.               *)
(*                                                                         *)
(* A log is a sequence of line numbers.                                    *)
(*                                                                         *)
(* Source: share.rs (rotate_worker_log_if_needed), engine logging.rs       *)
(* (run_log_monitor, rotate_open_log_if_needed, atomic_copy_to_path,       *)
(* clear_managed_log_history).                                             *)
(***************************************************************************)
EXTENDS Naturals, Sequences

CONSTANTS
  Generations, \* LOG_GENERATIONS
  MaxLines,    \* the size limit of a file, in lines
  MaxLine      \* bound: lines written

VARIABLES
  log_kind,    \* "worker" or "engine"
  line,        \* the last line written
  log,         \* the log file
  gen,         \* the generations, 1 the newest
  rotation,    \* the rotation's next file operation
  k,           \* the generation the shift is at
  size,        \* the size of the active file when the rotation began
  snapshot,    \* the temporary copy
  clear,       \* the next file clear_managed_log_history truncates, or 0
  cleared      \* history: lines up to this one were to be cleared

file == <<line, log, gen>>
clearVars == <<clear, cleared>>
vars == <<log_kind, file, rotation, k, size, snapshot, clearVars>>

Lines(s) == {s[i] : i \in DOMAIN s}
Retained == Lines(log) \cup UNION {Lines(gen[i]) : i \in 1 .. Generations}
Older(l) == \A i \in 1 .. Generations : \A m \in Lines(gen'[i]) : l < m

\* Mutant of Tailed: one line too many.
TailedOneMore(s, n) == SubSeq(s, IF n > MaxLines THEN n - MaxLines ELSE 1, n)

\* The last of the first n lines that a generation may hold.
Tailed(s, n) == SubSeq(s, IF n > MaxLines THEN n - MaxLines + 1 ELSE 1, n)

-----------------------------------------------------------------------------
\* The writer: stdout and stderr in append mode.
AppendLine ==
  /\ line < MaxLine
  /\ line' = line + 1
  /\ log' = Append(log, line + 1)
  /\ UNCHANGED <<log_kind, gen, rotation, k, size, snapshot, clearVars>>

Full == IF log_kind = "worker" THEN Len(log) >= MaxLines ELSE Len(log) > MaxLines

\* The monitor looks at the file; the engine's holds the lock from here on.
BeginRotation ==
  /\ rotation = "idle" /\ Full
  /\ rotation' = IF log_kind = "worker" THEN "remove" ELSE "shift"
  /\ k' = Generations /\ size' = Len(log)
  /\ UNCHANGED <<log_kind, file, snapshot, clearVars>>

RemoveOldest ==
  /\ rotation = "remove"
  /\ gen' = [gen EXCEPT ![Generations] = <<>>]
  /\ rotation' = "shift"
  /\ UNCHANGED <<log_kind, line, log, k, size, snapshot, clearVars>>

\* Mutant of Shifted: the loop stops before the newest generation.
ShiftedButFirst ==
  IF k = 2 THEN gen ELSE [gen EXCEPT ![k] = gen[k - 1]]

\* Mutant of Shifted: the two files are exchanged.
ShiftedSwap == [gen EXCEPT ![k] = gen[k - 1], ![k - 1] = gen[k]]

\* A rename leaves no source; an atomic copy replaces the destination whole.
Shifted ==
  IF gen[k - 1] = <<>> THEN gen
  ELSE IF log_kind = "worker" THEN [gen EXCEPT ![k] = gen[k - 1], ![k - 1] = <<>>]
  ELSE [gen EXCEPT ![k] = gen[k - 1]]

ShiftGeneration ==
  /\ rotation = "shift" /\ k > 1
  /\ gen' = Shifted
  /\ k' = k - 1
  /\ UNCHANGED <<log_kind, line, log, rotation, size, snapshot, clearVars>>

\* The end of the active file is copied.
TakeSnapshot ==
  /\ rotation = "shift" /\ k = 1
  /\ snapshot' = Tailed(log, IF size > Len(log) THEN Len(log) ELSE size)
  /\ rotation' = "persist"
  /\ UNCHANGED <<log_kind, file, k, size, clearVars>>

\* persist_noclobber of the worker fails on an existing generation.
PersistFirst ==
  /\ rotation = "persist"
  /\ IF log_kind = "worker" /\ gen[1] # <<>>
     THEN rotation' = "failed" /\ UNCHANGED gen
     ELSE rotation' = "truncate" /\ gen' = [gen EXCEPT ![1] = snapshot]
  /\ snapshot' = <<>>
  /\ UNCHANGED <<log_kind, line, log, k, size, clearVars>>

Truncate ==
  /\ rotation = "truncate"
  /\ log' = <<>>
  /\ rotation' = "idle"
  /\ UNCHANGED <<log_kind, line, gen, k, size, snapshot, clearVars>>

\* The rotating process dies; its temporary copy and its lock go with it.
MonitorDies ==
  /\ rotation \notin {"idle", "failed"}
  /\ rotation' = "idle" /\ snapshot' = <<>>
  /\ UNCHANGED <<log_kind, file, k, size, clearVars>>

-----------------------------------------------------------------------------
\* Mutant of ClearLocked: the clearing does not wait for the lock.
ClearUnlocked == TRUE

\* truncate_managed_log_if_present locks the active log, which a rotation
\* holds throughout; the generations are locked by nobody else.
ClearLocked == clear = 1 => rotation = "idle"

\* clear_managed_log_history when a service starts, beside a monitor that has
\* not yet noticed the end of its old service.
BeginClear ==
  /\ log_kind = "engine" /\ clear = 0 /\ line > cleared
  /\ clear' = 1 /\ cleared' = line
  /\ UNCHANGED <<log_kind, file, rotation, k, size, snapshot>>

ClearNext ==
  /\ clear > 0 /\ ClearLocked
  /\ IF clear = 1 THEN log' = <<>> /\ UNCHANGED gen
     ELSE gen' = [gen EXCEPT ![clear - 1] = <<>>] /\ UNCHANGED log
  /\ clear' = IF clear = Generations + 1 THEN 0 ELSE clear + 1
  /\ UNCHANGED <<log_kind, line, rotation, k, size, snapshot, cleared>>

Init ==
  /\ log_kind \in {"worker", "engine"}
  /\ line = 0 /\ log = <<>> /\ gen = [i \in 1 .. Generations |-> <<>>]
  /\ rotation = "idle" /\ k = 0 /\ size = 0 /\ snapshot = <<>>
  /\ clear = 0 /\ cleared = 0

\* The old service has ended when a new one clears its logs.
Next ==
  \/ clear = 0 /\ AppendLine
  \/ BeginRotation \/ RemoveOldest \/ ShiftGeneration \/ TakeSnapshot \/ PersistFirst
  \/ Truncate \/ MonitorDies
  \/ BeginClear \/ ClearNext

Spec == Init /\ [][Next]_vars

-----------------------------------------------------------------------------
TypeOK ==
  /\ line \in 0 .. MaxLine /\ cleared \in 0 .. line
  /\ \A i \in 1 .. Generations : Len(gen[i]) <= MaxLines
  /\ rotation \in {"idle", "remove", "shift", "persist", "truncate", "failed"}
  /\ clear \in 0 .. Generations + 1

\* Wherever earlier rotations died, the first generation is free when the
\* worker's rotation reaches it, so the worker is never stopped by its log.
RotationNeverFails == rotation # "failed"

\* The generations stay in order, newest first, through every rotation and
\* every death in the middle of one.
NewestFirst ==
  \A i, j \in 1 .. Generations :
    i < j /\ gen[i] # <<>> /\ gen[j] # <<>> => gen[j][Len(gen[j])] <= gen[i][Len(gen[i])]

\* A rotation, however often it dies and starts over, loses the oldest lines
\* only; the truncation also loses what was written after the snapshot or did
\* not fit into it.
LosesOnlyOldest ==
  [][clear = 0 => \A l \in Retained \ Retained' :
       Older(l) \/ (rotation = "truncate" /\ l \notin Lines(gen'[1]))]_vars

\* No line of the time before a service start is left when the clearing is
\* done, also when the old monitor was rotating.
HistoryCleared ==
  [][clear > 0 /\ clear' = 0 => \A l \in Retained' : l > cleared]_vars
=============================================================================
