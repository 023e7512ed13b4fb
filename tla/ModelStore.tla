----------------------------- MODULE ModelStore -----------------------------
(***************************************************************************)
(* One model name in the local model directory: downloads with resume,     *)
(* the registry and its lock, verification, use by `serve` and deletion    *)
(* through a quarantine file.                                              *)
(*                                                                         *)
(* Paths name inodes, so that the partial file and the target a download   *)
(* links to it are one file under two names, and an open handle outlives   *)
(* the path it was opened by.  The content of a file is the sequence of    *)
(* chunks in it, and its SHA-256 is the content itself.  A download of     *)
(* this name may be asked for one of two models and is given that one's    *)
(* checksum.  The registry's lock covers exactly one step here: with_lock  *)
(* reads, changes and persists the data in one call.  A command may be     *)
(* killed between any two steps.                                           *)
(*                                                                         *)
(* Source: crates/mindone-engine/src/download.rs and model.rs,             *)
(* crates/mindone-cli/src/model.rs.                                        *)
(***************************************************************************)
EXTENDS Integers, Sequences, FiniteSets

CONSTANTS
  Download, Delete,   \* commands, each run as often as the bounds allow
  MaxInodes,          \* bound on the files ever created
  MaxRecords,         \* bound on the records ever registered
  MaxDamage,          \* bound on changes made from outside
  None

VARIABLES
  downloads,   \* downloads[d]: step, partial length seen, open inode, offset, mode,
               \*  the trusted checksum, and the checksum in the final report
  deletes,     \* deletes[d]: step, the record found, whether the model was in use,
               \*  and the checksum in the record that was captured
  inode,       \* inode[i]: content, or None before the file exists
  partial,     \* the paths: `.name.part.ext`,
  target,      \* `name.ext`,
  quarantine,  \* and `.mindone-delete-<id>.tmp` of every record
  records,     \* the registry: records[r] is the registered SHA-256 or None
  root,        \* history: root[r] is the checksum the download of r was given
  verifying,   \* the record a `model verify` has made anew and not yet written
  serving,     \* the inode a managed process has loaded the model from
  damage       \* how often something else wrote to the model's file

book == <<records, root, verifying>>
vars == <<downloads, deletes, inode, partial, target, quarantine, book, serving, damage>>

Weights == {<<1, 2>>, <<3, 2>>}
Tampered == <<3, 3>>
Inode == 1 .. MaxInodes
Record == 1 .. MaxRecords
Content(path) == IF path = None THEN None ELSE inode[path]

NoDownload == [at |-> "idle", seen |-> 0, file |-> None, offset |-> 0, append |-> FALSE,
               trusted |-> None, report |-> None]
NoDelete == [at |-> "idle", record |-> None, in_use |-> FALSE, current |-> None]

\* validate_model with the trusted checksum; the format and size checks are of
\* the same bytes.
Valid(path, sha) == Content(path) = sha

Created(i) == inode[i] = None /\ \A j \in Inode : inode[j] = None => i <= j

-----------------------------------------------------------------------------
(***************************************************************************)
(* Registry                                                                *)
(***************************************************************************)
Registered == {r \in Record : records[r] # None}

\* find: by name, and the record's file must be there (validate_registry_record).
Find(r) == r \in Registered /\ target # None

Free(r) == /\ r \notin Registered /\ quarantine[r] = None
           /\ \A d \in Delete : deletes[d].record # r
           /\ verifying # None => verifying.record # r

\* An id is a new UUID: the least of those that nothing holds any more.
FreshRecord(r) == Free(r) /\ \A q \in 1 .. r - 1 : ~ Free(q)

-----------------------------------------------------------------------------
(***************************************************************************)
(* download_model and register                                             *)
(***************************************************************************)
Loads(d, step) == downloads' = [downloads EXCEPT ![d].at = step]
Ends(d) == downloads' = [downloads EXCEPT ![d] = NoDownload]

\* The name is free (a record that cannot be validated counts as free), the
\* target does not exist; the length of the partial file is read.
BeginDownload(d, sha) ==
  /\ downloads[d].at = "idle"
  /\ ~ \E r \in Record : Find(r)
  /\ target = None
  /\ downloads' = [downloads EXCEPT
       ![d] = [at |-> "request", file |-> None, offset |-> 0, append |-> FALSE,
               seen |-> IF partial = None THEN 0 ELSE Len(inode[partial]),
               trusted |-> sha, report |-> None]]
  /\ UNCHANGED <<deletes, inode, partial, target, quarantine, book, serving, damage>>

\* open_partial_file: append for a resumed download, else truncate; the file is
\* created if the path is gone.
OpenPartial(d, resumed) ==
  /\ downloads[d].at = "request"
  /\ resumed => downloads[d].seen > 0
  /\ \E i \in Inode :
       /\ IF partial = None THEN Created(i) ELSE i = partial
       /\ inode' = [inode EXCEPT ![i] = IF resumed /\ partial # None THEN @ ELSE <<>>]
       /\ partial' = i
       /\ downloads' = [downloads EXCEPT
            ![d] = [at |-> "stream", file |-> i, append |-> resumed, seen |-> @.seen,
                    offset |-> IF resumed THEN @.seen ELSE 0,
                    trusted |-> @.trusted, report |-> None]]
  /\ UNCHANGED <<deletes, target, quarantine, book, serving, damage>>

\* Bytes written at an offset past the end leave a hole.
WrittenAt(content, at, chunk) ==
  [k \in 1 .. (IF Len(content) > at THEN Len(content) ELSE at + 1) |->
     IF k = at + 1 THEN chunk ELSE IF k <= Len(content) THEN content[k] ELSE 0]

\* One chunk of the response; `downloaded` counts what this command wrote.
WriteChunk(d) ==
  LET w == downloads[d] IN
  /\ w.at = "stream" /\ w.offset < Len(w.trusted)
  /\ inode' = [inode EXCEPT
       ![w.file] = WrittenAt(@, IF w.append THEN Len(@) ELSE w.offset,
                             w.trusted[w.offset + 1])]
  /\ downloads' = [downloads EXCEPT ![d].offset = @ + 1]
  /\ UNCHANGED <<deletes, partial, target, quarantine, book, serving, damage>>

\* The stream has ended and the file is synced: the file at the partial path is
\* checked, and removed if it is not the model.
ValidatePartial(d) ==
  /\ downloads[d].at = "stream" /\ downloads[d].offset >= Len(downloads[d].trusted)
  /\ IF Valid(partial, downloads[d].trusted)
     THEN Loads(d, "valid") /\ UNCHANGED partial
     ELSE Ends(d) /\ partial' = None
  /\ UNCHANGED <<deletes, inode, target, quarantine, book, serving, damage>>

\* hard_link refuses an existing target.
LinkTarget(d) ==
  /\ downloads[d].at = "valid"
  /\ IF partial # None /\ target = None
     THEN target' = partial /\ Loads(d, "linked")
     ELSE Ends(d) /\ UNCHANGED target
  /\ UNCHANGED <<deletes, inode, partial, quarantine, book, serving, damage>>

\* The report that is returned is that of the target.
ValidateTarget(d) ==
  /\ downloads[d].at = "linked"
  /\ IF Valid(target, downloads[d].trusted)
     THEN /\ downloads' = [downloads EXCEPT ![d].at = "checked", ![d].report = Content(target)]
          /\ UNCHANGED <<partial, target>>
     ELSE Ends(d) /\ partial' = None /\ target' = None
  /\ UNCHANGED <<deletes, inode, quarantine, book, serving, damage>>

\* A partial file that is already gone is an error that takes the target back.
DropPartial(d) ==
  /\ downloads[d].at = "checked"
  /\ IF partial # None
     THEN partial' = None /\ Loads(d, "ready") /\ UNCHANGED target
     ELSE target' = None /\ Ends(d) /\ UNCHANGED partial
  /\ UNCHANGED <<deletes, inode, quarantine, book, serving, damage>>

\* register, record_from_report: under the lock, unless the name has been taken
\* meanwhile; the record holds the checksum of the report.
Register(d) ==
  /\ downloads[d].at = "ready"
  /\ Ends(d)
  /\ IF Registered = {} /\ target # None
     THEN \E r \in Record :
            /\ FreshRecord(r)
            /\ records' = [records EXCEPT ![r] = downloads[d].report]
            /\ root' = [root EXCEPT ![r] = downloads[d].trusted]
     ELSE UNCHANGED <<records, root>>
  /\ UNCHANGED <<deletes, inode, partial, target, quarantine, verifying, serving, damage>>

\* The connection breaks, an I/O call fails or the process is killed: the files
\* stay as they are.
DownloadDies(d) ==
  /\ downloads[d].at # "idle"
  /\ Ends(d)
  /\ UNCHANGED <<deletes, inode, partial, target, quarantine, book, serving, damage>>

-----------------------------------------------------------------------------
(***************************************************************************)
(* reverify and use                                                        *)
(***************************************************************************)
\* Mutant of BeginVerify: the content that is there becomes the trusted one.
BeginVerifyAdopting(r) ==
  /\ verifying = None /\ Find(r)
  /\ verifying' = [record |-> r, report |-> Content(target)]
  /\ UNCHANGED <<downloads, deletes, inode, partial, target, quarantine, records, root,
                 serving, damage>>

\* `model verify`: the file is checked against the registered checksum without
\* the lock, and a record is made of the report,
BeginVerify(r) ==
  /\ verifying = None /\ Find(r) /\ Valid(target, records[r])
  /\ verifying' = [record |-> r, report |-> Content(target)]
  /\ UNCHANGED <<downloads, deletes, inode, partial, target, quarantine, records, root,
                 serving, damage>>

\* which replaces the one with the same id under the lock, if that is there.
FinishVerify ==
  /\ verifying # None
  /\ records' = IF verifying.record \in Registered
                THEN [records EXCEPT ![verifying.record] = verifying.report] ELSE records
  /\ verifying' = None
  /\ UNCHANGED <<downloads, deletes, inode, partial, target, quarantine, root, serving,
                 damage>>

\* find_verified_model: the content is hashed again before every use.
Use(r) ==
  /\ serving = None /\ Find(r) /\ Valid(target, records[r])
  /\ serving' = target
  /\ UNCHANGED <<downloads, deletes, inode, partial, target, quarantine, book, damage>>

\* serve stop, share stop
EndUse ==
  /\ serving # None
  /\ serving' = None
  /\ UNCHANGED <<downloads, deletes, inode, partial, target, quarantine, book, damage>>

\* Another program replaces the weights.
Tamper ==
  /\ target # None /\ damage < MaxDamage
  /\ inode' = [inode EXCEPT ![target] = Tampered]
  /\ damage' = damage + 1
  /\ UNCHANGED <<downloads, deletes, partial, target, quarantine, book, serving>>

-----------------------------------------------------------------------------
(***************************************************************************)
(* delete                                                                  *)
(***************************************************************************)
Moves(d, step) == deletes' = [deletes EXCEPT ![d].at = step]
Stops(d) == deletes' = [deletes EXCEPT ![d] = NoDelete]

\* The record is found and the state files are searched for it; then the user
\* is asked.
AskDelete(d, r) ==
  /\ deletes[d].at = "idle" /\ Find(r)
  /\ deletes' = [deletes EXCEPT
       ![d] = [at |-> "asked", record |-> r, in_use |-> serving # None, current |-> None]]
  /\ UNCHANGED <<downloads, inode, partial, target, quarantine, book, serving, damage>>

\* ModelRegistry::delete: the answer to the search decides, the record is looked
\* up again and kept, and the file moves to the quarantine of its record.
QuarantineFile(d) ==
  LET r == deletes[d].record IN
  /\ deletes[d].at = "asked"
  /\ IF ~ deletes[d].in_use /\ Find(r) /\ quarantine[r] = None
     THEN /\ quarantine' = [quarantine EXCEPT ![r] = target]
          /\ target' = None
          /\ deletes' = [deletes EXCEPT ![d].at = "moved", ![d].current = records[r]]
     ELSE Stops(d) /\ UNCHANGED <<quarantine, target>>
  /\ UNCHANGED <<downloads, inode, partial, book, serving, damage>>

\* rename replaces whatever is at the destination.
MoveBack(r) == /\ target' = quarantine[r]
               /\ quarantine' = [quarantine EXCEPT ![r] = None]

\* Mutant of RemoveRecord: the record is left to a later clean-up.
RemoveRecordLater(d) ==
  /\ deletes[d].at = "moved"
  /\ Moves(d, "removed")
  /\ UNCHANGED <<downloads, inode, partial, target, quarantine, book, serving, damage>>

\* Under the lock; a record that is gone brings the file back.
RemoveRecord(d) ==
  LET r == deletes[d].record IN
  /\ deletes[d].at = "moved"
  /\ IF r \in Registered
     THEN /\ records' = [records EXCEPT ![r] = None]
          /\ Moves(d, "removed")
          /\ UNCHANGED <<target, quarantine>>
     ELSE MoveBack(r) /\ Stops(d) /\ UNCHANGED records
  /\ UNCHANGED <<downloads, inode, partial, root, verifying, serving, damage>>

EraseFile(d) ==
  LET r == deletes[d].record IN
  /\ deletes[d].at = "removed"
  /\ quarantine' = [quarantine EXCEPT ![r] = None]
  /\ Stops(d)
  /\ UNCHANGED <<downloads, inode, partial, target, book, serving, damage>>

\* The erase fails: the file goes back,
EraseFails(d) ==
  /\ deletes[d].at = "removed"
  /\ MoveBack(deletes[d].record)
  /\ Moves(d, "restored")
  /\ UNCHANGED <<downloads, inode, partial, book, serving, damage>>

\* and then the record as it was found, unless its id is there; the name may have
\* been registered again meanwhile.
RestoreRecord(d) ==
  LET r == deletes[d].record IN
  /\ deletes[d].at = "restored"
  /\ records' = IF r \in Registered THEN records
                ELSE [records EXCEPT ![r] = deletes[d].current]
  /\ Stops(d)
  /\ UNCHANGED <<downloads, inode, partial, target, quarantine, root, verifying, serving,
                 damage>>

DeleteDies(d) ==
  /\ deletes[d].at # "idle"
  /\ Stops(d)
  /\ UNCHANGED <<downloads, inode, partial, target, quarantine, book, serving, damage>>

-----------------------------------------------------------------------------
Init ==
  /\ downloads = [d \in Download |-> NoDownload]
  /\ deletes = [d \in Delete |-> NoDelete]
  /\ inode = [i \in Inode |-> None]
  /\ partial = None /\ target = None
  /\ quarantine = [r \in Record |-> None]
  /\ records = [r \in Record |-> None] /\ root = [r \in Record |-> None]
  /\ verifying = None /\ serving = None /\ damage = 0

Next ==
  \/ \E d \in Download :
       \/ WriteChunk(d) \/ ValidatePartial(d) \/ LinkTarget(d)
       \/ ValidateTarget(d) \/ DropPartial(d) \/ Register(d) \/ DownloadDies(d)
       \/ \E sha \in Weights : BeginDownload(d, sha)
       \/ \E resumed \in BOOLEAN : OpenPartial(d, resumed)
  \/ \E r \in Record : BeginVerify(r) \/ Use(r)
  \/ \E d \in Delete :
       \/ QuarantineFile(d) \/ RemoveRecord(d) \/ EraseFile(d) \/ EraseFails(d)
       \/ RestoreRecord(d) \/ DeleteDies(d)
       \/ \E r \in Record : AskDelete(d, r)
  \/ FinishVerify \/ EndUse \/ Tamper

Spec == Init /\ [][Next]_vars

-----------------------------------------------------------------------------
\* The shape of the state.
TypeOK ==
  /\ inode \in [Inode -> {None} \cup Seq(0 .. 3)]
  /\ {partial, target} \subseteq Inode \cup {None}
  /\ quarantine \in [Record -> Inode \cup {None}]
  /\ root \in [Record -> Weights \cup {None}] /\ serving \in Inode \cup {None}

(***************************************************************************)
(* Whatever downloads, resumed or not and of either model, verifications,  *)
(* deletions and outside changes are interleaved: a record holds the       *)
(* checksum that its own download was given.  `model verify` writes what   *)
(* it has just read, and never makes changed weights the new trust root    *)
(* (model.rs, reverify); a late verify finds no other record under its id; *)
(* a deletion that takes itself back restores the record as it was.        *)
(***************************************************************************)
TrustRootKept == \A r \in Registered : records[r] = root[r]

(***************************************************************************)
(* A model's file is erased only once its record has left the registry, so *)
(* no crash during `model delete` loses the weights of a model that is     *)
(* still listed.                                                           *)
(***************************************************************************)
ErasedAfterRecord ==
  [][\A r \in Record : quarantine[r] # None /\ quarantine'[r] = None /\ target' # quarantine[r]
        => r \notin Registered']_vars
=============================================================================
