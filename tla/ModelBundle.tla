----------------------------- MODULE ModelBundle -----------------------------
(***************************************************************************)
(* A model split into several GGUF shards: `model deploy` gathers them in  *)
(* a staging directory that survives a failed download, renames it into    *)
(* place, checks every shard again and registers the bundle; a failure     *)
(* after the rename renames it back.  `model delete` takes the directory   *)
(* away through a quarantine.                                              *)
(*                                                                         *)
(* A directory is the set of its entries, a shard whole or in part; what   *)
(* the files hold while they are written is in ModelStore.  Nothing keeps  *)
(* two deploys of a bundle apart: they share the staging directory.  The   *)
(* commands may be killed between any two steps and file system calls may  *)
(* fail.                                                                   *)
(*                                                                         *)
(* Source: crates/mindone-cli/src/model.rs (download_deployment_bundle),   *)
(* crates/mindone-engine/src/download.rs (download_model) and model.rs     *)
(* (bundles).                                                              *)
(***************************************************************************)
EXTENDS Naturals, FiniteSets

CONSTANTS
  Shard,      \* the shards of the bundle
  Deploy,     \* deploy commands
  MaxBundles, \* bound on registrations
  None

VARIABLES
  deploys,    \* deploys[b]: the step, the shards reported so far, the one downloaded
  removal,    \* the delete command: its step and its record
  staging,    \* .name.bundle.part: None or its entries
  bundle,     \* name.bundle: None or its entries
  trash,      \* .mindone-delete-<id>.bundle.tmp
  registered, \* the record under the name, None or its number
  single,     \* a single-file model of the name has been registered meanwhile
  interrupted, \* history: the shards a deploy left under both of their names
  overlapped   \* history: two deploys were under way at a time

vars == <<deploys, removal, staging, bundle, trash, registered, single, interrupted, overlapped>>

Entry == Shard \X {"part", "whole"}
Complete == Shard \X {"whole"}
NoDeploy == [at |-> "idle", reported |-> {}, shard |-> None]
NoRemoval == [at |-> "idle", record |-> None]
Bundle == 1 .. MaxBundles

Goes(b, step) == deploys' = [deploys EXCEPT ![b].at = step]
Ends(b) == deploys' = [deploys EXCEPT ![b] = NoDeploy]

Part(s) == <<s, "part">>
Target(s) == <<s, "whole">>

-----------------------------------------------------------------------------
\* The bundle must not exist; the staging directory is created or resumed, and
\* may hold only shards of this bundle and their partial files.
PrepareStaging(b) ==
  /\ deploys[b].at = "idle" /\ bundle = None /\ registered = None /\ ~ single
  /\ staging' = IF staging = None THEN {} ELSE staging
  /\ deploys' = [deploys EXCEPT ![b] = [NoDeploy EXCEPT !.at = "gather"]]
  /\ overlapped' = (overlapped \/ \E c \in Deploy : deploys[c].at # "idle")
  /\ UNCHANGED <<removal, bundle, trash, registered, single, interrupted>>

\* A shard found whole is validated against the manifest's checksum and size; a
\* partial file beside it is not looked at.
ReportShard(b, s) ==
  /\ deploys[b].at = "gather" /\ staging # None /\ Target(s) \in staging
  /\ deploys' = [deploys EXCEPT ![b].reported = @ \cup {s}]
  /\ UNCHANGED <<removal, staging, bundle, trash, registered, single, interrupted, overlapped>>

\* A shard that is not there is downloaded, into a directory that is made again
\* should it be gone.
FindShard(b, s) ==
  /\ deploys[b].at = "gather" /\ s \notin deploys[b].reported
  /\ staging # None => Target(s) \notin staging
  /\ staging' = IF staging = None THEN {} ELSE staging
  /\ deploys' = [deploys EXCEPT ![b].at = "open", ![b].shard = s]
  /\ UNCHANGED <<removal, bundle, trash, registered, single, interrupted, overlapped>>

\* Once the server has answered, its partial file is created or opened again.
OpenPart(b) ==
  /\ deploys[b].at = "open" /\ staging # None
  /\ staging' = staging \cup {Part(deploys[b].shard)}
  /\ Goes(b, "fetch")
  /\ UNCHANGED <<removal, bundle, trash, registered, single, interrupted, overlapped>>

\* The partial file is whole and has its checksum: the target becomes a link to it.
LinkShard(b) ==
  /\ deploys[b].at = "fetch" /\ staging # None
  /\ Part(deploys[b].shard) \in staging /\ Target(deploys[b].shard) \notin staging
  /\ staging' = staging \cup {Target(deploys[b].shard)}
  /\ Goes(b, "link")
  /\ UNCHANGED <<removal, bundle, trash, registered, single, interrupted, overlapped>>

\* Mutant of RemovePart: the partial file stays beside the shard it became.
RemovePartNever(b) ==
  /\ deploys[b].at = "link"
  /\ deploys' = [deploys EXCEPT ![b] =
       [at |-> "gather", reported |-> @.reported \cup {@.shard}, shard |-> None]]
  /\ UNCHANGED <<removal, staging, bundle, trash, registered, single, interrupted, overlapped>>

\* The target is validated again, and the partial name goes away.
RemovePart(b) ==
  /\ deploys[b].at = "link" /\ staging # None
  /\ {Part(deploys[b].shard), Target(deploys[b].shard)} \subseteq staging
  /\ staging' = staging \ {Part(deploys[b].shard)}
  /\ deploys' = [deploys EXCEPT ![b] =
       [at |-> "gather", reported |-> @.reported \cup {@.shard}, shard |-> None]]
  /\ UNCHANGED <<removal, bundle, trash, registered, single, interrupted, overlapped>>

\* A checksum fails, or the partial file cannot be removed: what can be is
\* removed, the partial file before the link, both or either after it.
FailShard(b) ==
  /\ staging # None
  /\ \/ /\ deploys[b].at = "fetch"
        /\ staging' = staging \ {Part(deploys[b].shard)}
     \/ /\ deploys[b].at = "link"
        /\ \E gone \in (SUBSET {Part(deploys[b].shard), Target(deploys[b].shard)}) \ {{}} :
             staging' = staging \ gone
  /\ Ends(b)
  /\ UNCHANGED <<removal, bundle, trash, registered, single, interrupted, overlapped>>

\* validate_gguf_split_reports: every shard once; then the rename, which also
\* succeeds onto an empty directory (there is none, see EraseBundleFails).
RenameStaging(b) ==
  /\ deploys[b].at = "gather" /\ deploys[b].reported = Shard /\ staging # None
  /\ IF bundle = None
     THEN bundle' = staging /\ staging' = None /\ Goes(b, "placed")
     ELSE Ends(b) /\ UNCHANGED <<staging, bundle>>
  /\ UNCHANGED <<removal, trash, registered, single, interrupted, overlapped>>

\* Every shard of the manifest is validated in its final place;
ValidatePlaced(b) ==
  /\ deploys[b].at = "placed" /\ bundle # None /\ Complete \subseteq bundle
  /\ Goes(b, "valid")
  /\ UNCHANGED <<removal, staging, bundle, trash, registered, single, interrupted, overlapped>>

\* register_bundle then adds the record under the registry's lock.
RegisterBundle(b) ==
  /\ deploys[b].at = "valid" /\ registered = None /\ ~ single
  /\ \E r \in Bundle : trash[r] = None /\ removal.record # r /\ registered' = r
  /\ Ends(b)
  /\ UNCHANGED <<removal, staging, bundle, trash, single, interrupted, overlapped>>

\* The directory could not be synced, a shard no longer validates, or the name
\* was taken: rollback_bundle_directory renames it back, unless a new staging
\* directory is there.
Rollback(b) ==
  /\ deploys[b].at \in {"placed", "valid"}
  /\ IF staging \in {None, {}} /\ bundle # None
     THEN staging' = bundle /\ bundle' = None
     ELSE UNCHANGED <<staging, bundle>>
  /\ Ends(b)
  /\ UNCHANGED <<removal, trash, registered, single, interrupted, overlapped>>

\* The process is killed, or a call fails and nothing is cleaned up.
DeployDies(b) ==
  /\ deploys[b].at # "idle"
  /\ Ends(b)
  /\ interrupted' =
       IF deploys[b].at = "link" THEN interrupted \cup {deploys[b].shard} ELSE interrupted
  /\ UNCHANGED <<removal, staging, bundle, trash, registered, single, overlapped>>

\* `model download --name` of a single file, elsewhere in the directory; and its
\* deletion.
OtherModel ==
  /\ registered = None
  /\ single' = ~ single
  /\ UNCHANGED <<deploys, removal, staging, bundle, trash, registered, interrupted, overlapped>>

-----------------------------------------------------------------------------
\* validate_artifact_layout and the directory listing: all shards, nothing else.
LayoutValid == bundle = Complete

\* delete_bundle_record: the directory moves to the quarantine of its record.
QuarantineBundle ==
  /\ removal.at = "idle" /\ registered # None
  /\ LayoutValid /\ trash[registered] = None
  /\ trash' = [trash EXCEPT ![registered] = bundle]
  /\ bundle' = None
  /\ removal' = [at |-> "moved", record |-> registered]
  /\ UNCHANGED <<deploys, staging, registered, single, interrupted, overlapped>>

RemoveBundleRecord ==
  /\ removal.at = "moved"
  /\ registered' = None
  /\ removal' = [removal EXCEPT !.at = "removed"]
  /\ UNCHANGED <<deploys, staging, bundle, trash, single, interrupted, overlapped>>

\* The registry cannot be written: the directory goes back if its place is free.
BundleRecordStays ==
  /\ removal.at = "moved"
  /\ IF bundle = None
     THEN /\ bundle' = trash[removal.record]
          /\ trash' = [trash EXCEPT ![removal.record] = None]
     ELSE UNCHANGED <<bundle, trash>>
  /\ removal' = NoRemoval
  /\ UNCHANGED <<deploys, staging, registered, single, interrupted, overlapped>>

EraseBundle ==
  /\ removal.at = "removed"
  /\ trash' = [trash EXCEPT ![removal.record] = None]
  /\ removal' = NoRemoval
  /\ UNCHANGED <<deploys, staging, bundle, registered, single, interrupted, overlapped>>

\* remove_dir_all fails, perhaps halfway but for the directory, whose removal
\* needs no more than renaming it: it is renamed back if its place is free, and
\* then the record returns.
EraseBundleFails ==
  /\ removal.at = "removed"
  /\ IF bundle = None
     THEN /\ \E left \in (SUBSET trash[removal.record]) \ {{}} : bundle' = left
          /\ trash' = [trash EXCEPT ![removal.record] = None]
          /\ removal' = [removal EXCEPT !.at = "restored"]
     ELSE removal' = NoRemoval /\ UNCHANGED <<bundle, trash>>
  /\ UNCHANGED <<deploys, staging, registered, single, interrupted, overlapped>>

RestoreBundleRecord ==
  /\ removal.at = "restored"
  /\ registered' = removal.record
  /\ removal' = NoRemoval
  /\ UNCHANGED <<deploys, staging, bundle, trash, single, interrupted, overlapped>>

RemovalDies ==
  /\ removal.at # "idle"
  /\ removal' = NoRemoval
  /\ UNCHANGED <<deploys, staging, bundle, trash, registered, single, interrupted, overlapped>>

-----------------------------------------------------------------------------
Init ==
  /\ deploys = [b \in Deploy |-> NoDeploy]
  /\ removal = NoRemoval
  /\ staging = None /\ bundle = None
  /\ trash = [r \in Bundle |-> None]
  /\ registered = None /\ single = FALSE
  /\ interrupted = {} /\ overlapped = FALSE

Next ==
  \/ \E b \in Deploy :
       \/ PrepareStaging(b) \/ OpenPart(b) \/ LinkShard(b) \/ RemovePart(b) \/ FailShard(b)
       \/ RenameStaging(b) \/ ValidatePlaced(b) \/ RegisterBundle(b) \/ Rollback(b)
       \/ DeployDies(b)
       \/ \E s \in Shard : ReportShard(b, s) \/ FindShard(b, s)
  \/ OtherModel
  \/ QuarantineBundle \/ RemoveBundleRecord \/ BundleRecordStays
  \/ EraseBundle \/ EraseBundleFails
  \/ RestoreBundleRecord \/ RemovalDies

Spec == Init /\ [][Next]_vars

-----------------------------------------------------------------------------
(***************************************************************************)
(* The directory that a registration puts under the registry's protection  *)
(* holds the shards and nothing else, whatever killed downloads, failed    *)
(* renames, rollbacks and deletions came before, but for the partial files *)
(* of shards a deploy was killed over between the link and the removal of  *)
(* the partial name; and as long as no two deploys of the bundle were      *)
(* under way at a time.                                                    *)
(***************************************************************************)
RegisteredWhole ==
  [][registered = None /\ registered' # None /\ removal.at # "restored" /\ ~ overlapped
       => /\ bundle # None /\ Complete \subseteq bundle
          /\ bundle \subseteq Complete \cup {Part(s) : s \in interrupted}]_vars

\* Any other entry makes the bundle impossible to delete (LayoutValid), so this
\* is what a deploy ought to leave; the code does not see to it.
RegisteredDeletable ==
  [][registered = None /\ registered' # None /\ removal.at # "restored" => bundle = Complete]_vars
=============================================================================
