--------------------------- MODULE ArchiveExtract ---------------------------
(***************************************************************************)
(* Unpacking a release archive.  Files and directories are written as they *)
(* are read; symbolic links are collected and written at the end as copies *)
(* of the files they lead to, in the order of a hash map.                  *)
(*                                                                         *)
(* A path is a sequence of names.  The unpacked directory is a function    *)
(* from the paths of its files to the path the content was read from.      *)
(*                                                                         *)
(* Source: crates/mindone-engine/src/install.rs.                           *)
(***************************************************************************)
EXTENDS Naturals, Sequences, FiniteSets

CONSTANTS
  Entry,        \* entries an archive may have
  MaxRead,      \* bound on the entries of an archive
  MaxEntries,   \* MAX_ARCHIVE_ENTRIES
  MaxBytes      \* MAX_EXTRACTED_BYTES

VARIABLES
  archive,      \* the entries
  unread,       \* how many of them are not yet read
  files,        \* the files written so far
  folders,      \* the directories there are
  links,        \* pending_links
  total_bytes,  \* the size written so far
  outcome       \* "running", "ok" or "refused"

vars == <<archive, unread, files, folders, links, total_bytes, outcome>>

Up == ".."
Prefixes(path) == {SubSeq(path, 1, n) : n \in 1 .. (Len(path) - 1)}
Parent(path) == SubSeq(path, 1, Len(path) - 1)

\* safe_archive_path
SafeArchivePath(path) == \A i \in DOMAIN path : path[i] # Up

\* resolve_archive_link_target: the target seen from the link's directory; a
\* target outside, or the directory itself, is refused (<<>>).
ResolveLinkTarget(path, target) ==
  LET Walk[i \in 0 .. Len(target)] ==
        IF i = 0 THEN [ok |-> TRUE, at |-> Parent(path)]
        ELSE LET before == Walk[i - 1] IN
             IF target[i] # Up THEN [before EXCEPT !.at = Append(@, target[i])]
             ELSE [ok |-> before.ok /\ before.at # <<>>,
                   at |-> IF before.at = <<>> THEN <<>> ELSE Parent(before.at)]
  IN IF Walk[Len(target)].ok THEN Walk[Len(target)].at ELSE <<>>

Refuse == outcome' = "refused" /\ UNCHANGED <<archive, unread, files, folders, links, total_bytes>>

\* A file can be created at the path: nothing is there, and its directory is
\* or can be made (create_dir_all, create_new).
Creatable(path) ==
  /\ path \notin DOMAIN files /\ path \notin folders
  /\ \A prefix \in Prefixes(path) : prefix \notin DOMAIN files

\* write_archive_file, copy_file_create_new, add_extracted_size
Written(path, source, size) ==
  /\ Creatable(path) /\ total_bytes + size <= MaxBytes
  /\ files' = [q \in DOMAIN files \cup {path} |-> IF q = path THEN source ELSE files[q]]
  /\ folders' = folders \cup Prefixes(path)
  /\ total_bytes' = total_bytes + size

Named == DOMAIN files \cup DOMAIN links
Current == archive[Len(archive) - unread + 1]
Read == unread' = unread - 1 /\ UNCHANGED <<archive, outcome>>

\* extract_tar_reader: one entry.
ReadFile ==
  /\ Current.kind = "file" /\ SafeArchivePath(Current.path) /\ Current.path \notin Named
  /\ Written(Current.path, Current.path, Current.size)
  /\ Read /\ UNCHANGED links

ReadFolder ==
  /\ Current.kind = "dir" /\ SafeArchivePath(Current.path)
  /\ \A q \in Prefixes(Current.path) \cup {Current.path} : q \notin DOMAIN files
  /\ folders' = folders \cup Prefixes(Current.path) \cup {Current.path}
  /\ Read /\ UNCHANGED <<files, links, total_bytes>>

LinkTarget(entry) == ResolveLinkTarget(entry.path, entry.target)

ReadLink ==
  /\ Current.kind = "link" /\ SafeArchivePath(Current.path) /\ Current.path \notin Named
  /\ LinkTarget(Current) # <<>>
  /\ links' = [q \in DOMAIN links \cup {Current.path} |->
                 IF q = Current.path THEN LinkTarget(Current) ELSE links[q]]
  /\ Read /\ UNCHANGED <<files, folders, total_bytes>>

ReadEntry ==
  /\ outcome = "running" /\ unread > 0
  /\ IF Len(archive) >= MaxEntries \/ ~ ENABLED (ReadFile \/ ReadFolder \/ ReadLink)
     THEN Refuse
     ELSE ReadFile \/ ReadFolder \/ ReadLink

SizeOf(path) == (CHOOSE e \in {archive[i] : i \in DOMAIN archive} :
                   e.kind = "file" /\ e.path = files[path]).size

\* The target of a pending link exists.
Reached(l) == links[l] \in DOMAIN files \cup folders

\* Mutant of MaterializeLink: a link to a directory is skipped.
MaterializeAny(l) ==
  /\ Reached(l)
  /\ IF links[l] \in DOMAIN files
     THEN Written(l, files[links[l]], SizeOf(links[l]))
     ELSE UNCHANGED <<files, folders, total_bytes>>
  /\ links' = [q \in DOMAIN links \ {l} |-> links[q]]
  /\ UNCHANGED <<archive, unread, outcome>>

\* materialize_archive_links: one link whose target is there.
MaterializeLink(l) ==
  /\ Reached(l) /\ links[l] \in DOMAIN files
  /\ Written(l, files[links[l]], SizeOf(links[l]))
  /\ links' = [q \in DOMAIN links \ {l} |-> links[q]]
  /\ UNCHANGED <<archive, unread, outcome>>

MaterializeLinks ==
  /\ outcome = "running" /\ unread = 0 /\ DOMAIN links # {}
  /\ \/ \E l \in DOMAIN links : MaterializeLink(l)
     \/ /\ \/ \E l \in DOMAIN links : Reached(l) /\ ~ ENABLED MaterializeLink(l)
           \/ \A l \in DOMAIN links : ~ Reached(l)
        /\ Refuse

Finish ==
  /\ outcome = "running" /\ unread = 0 /\ DOMAIN links = {}
  /\ outcome' = "ok"
  /\ UNCHANGED <<archive, unread, files, folders, links, total_bytes>>

Init ==
  /\ archive \in UNION {[1 .. n -> Entry] : n \in 0 .. MaxRead}
  /\ unread = Len(archive)
  /\ files = <<>> /\ folders = {} /\ links = <<>>
  /\ total_bytes = 0 /\ outcome = "running"

Next == ReadEntry \/ MaterializeLinks \/ Finish

-----------------------------------------------------------------------------
EntriesOf(kinds) == {e \in {archive[i] : i \in DOMAIN archive} : e.kind \in kinds}

\* Reference: the links of the archive lead, one after another, to a file.
LeadsTo(l, f) ==
  LET target(p) == LinkTarget(CHOOSE e \in EntriesOf({"link"}) : e.path = p)
      LinkPaths == {e.path : e \in EntriesOf({"link"})}
      step[n \in 0 .. Cardinality(LinkPaths)] ==
        IF n = 0 THEN l ELSE IF step[n - 1] \in LinkPaths THEN target(step[n - 1]) ELSE step[n - 1]
  IN step[Cardinality(LinkPaths)] = f

\* An archive is unpacked the same whatever the order of the hash map: on
\* success every path is inside the directory and was written once, every
\* link is a copy of the file at the end of its chain, nothing is left out,
\* and the bytes are within the limit; an archive with a link that dangles,
\* loops or leads to a directory is never accepted.
UnpackedAsWritten ==
  outcome = "ok" =>
    /\ DOMAIN files = {e.path : e \in EntriesOf({"file", "link"})}
    /\ \A e \in EntriesOf({"file"}) : files[e.path] = e.path
    /\ \A e \in EntriesOf({"link"}) : LeadsTo(e.path, files[e.path])
    /\ \A path \in DOMAIN files \cup folders : SafeArchivePath(path)
    /\ Cardinality(EntriesOf({"file", "link"}))
         = Cardinality({i \in DOMAIN archive : archive[i].kind \in {"file", "link"}})
    /\ total_bytes <= MaxBytes
=============================================================================
