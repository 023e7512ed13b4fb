--------------------------- MODULE EngineInstall ---------------------------
(***************************************************************************)
(* Installation of inference engines on a contributor's machine.  Several  *)
(* `engine install` commands run at once: each resolves an official        *)
(* release, takes the lock of its version, brings the verified archive to  *)
(* the cache, unpacks it beside its final directory, renames it into place *)
(* and enters it in the registry.  The cached file is named after the      *)
(* asset, and the assets of all Ollama versions have one name, so          *)
(* installations of two versions share a file that neither of them locks.  *)
(*                                                                         *)
(* A content is the release whose files it is, or Damaged.  Container      *)
(* engines pull an image by digest and keep no archive.                    *)
(*                                                                         *)
(* Source: crates/mindone-engine/src/install.rs, cli/src/engine.rs.        *)
(***************************************************************************)
EXTENDS Naturals, FiniteSets

CONSTANTS
  Installer,   \* install commands
  Release,     \* releases: an engine with a version
  KindOf,      \* KindOf[r] \in {"llama", "ollama", "container"}
  AssetOf,     \* AssetOf[r]: the name of the release's archive in the cache
  Mentions,    \* <<c, r>>: what `--version` of c prints contains the version of r
  Newer,       \* <<r, s>>: r is a newer version of the same engine
  Absent, Damaged

VARIABLES
  installs,    \* installs[p]: what the command has reached and holds
  version_lock,\* version_lock[r]: the command that holds the install lock
  cache,       \* cache[asset]: the content of the cached file
  directory,   \* directory[r]: the content of the final directory
  registry,    \* registry[r]: the manifest of the registered engine
  default_kind,\* the registry's default engine
  host         \* what the machine offers

vars == <<installs, version_lock, cache, directory, registry, default_kind, host>>
disk == <<cache, directory>>
book == <<registry, default_kind>>

Content == Release \cup {Damaged}
Asset == {AssetOf[r] : r \in Release}
Idle == [at |-> "idle", release |-> Absent, content |-> Absent]
At(p, step) == installs[p].at = step
Moves(p, step) == installs' = [installs EXCEPT ![p].at = step]

-----------------------------------------------------------------------------
(***************************************************************************)
(* Registry                                                                *)
(***************************************************************************)
\* build_engine_manifest: every regular file of the directory with its hash.
Manifest(r) == directory[r]

\* Mutant of VerifyIntegrity: only the record is looked at.
VerifyRecordOnly(r) == registry[r] # Absent

\* verify_integrity_inner: the directory is there, at its managed place, and
\* its files are those of the record.
VerifyIntegrity(r) ==
  /\ registry[r] # Absent
  /\ directory[r] # Absent
  /\ Manifest(r) = registry[r]

\* newest_engine
Newest(kind) ==
  {r \in Release : /\ KindOf[r] = kind /\ registry[r] # Absent
                   /\ ~ \E s \in Release : registry[s] # Absent /\ <<s, r>> \in Newer}

\* latest, version, default: what a caller is given to start.
Offered(r) ==
  /\ r \in Newest(KindOf[r]) \/ registry[r] # Absent
  /\ VerifyIntegrity(r)

\* set_default, set_default_version
SetDefault(r) ==
  /\ Offered(r)
  /\ default_kind' = KindOf[r]
  /\ UNCHANGED <<installs, version_lock, disk, registry, host>>

-----------------------------------------------------------------------------
(***************************************************************************)
(* Install                                                                 *)
(***************************************************************************)
\* engine_capability_for: a release asset for the platform; for containers
\* Linux, an NVIDIA GPU with both driver versions, and a local Docker Engine.
Supported(kind) ==
  IF kind = "container" THEN host.gpu /\ host.docker ELSE host.asset

\* The command ends, its lock is released with its file.
Ends(p) ==
  /\ installs' = [installs EXCEPT ![p] = Idle]
  /\ version_lock' = [r \in Release |-> IF version_lock[r] = p THEN Absent ELSE version_lock[r]]

\* verify_container_runtime, ensure_secure_registry_config
SecureRuntime == host.docker /\ host.tls

\* resolve_container_digest, select_container_digest: the image of a platform.
PlatformDigest(r) == IF KindOf[r] = "container" THEN r ELSE Absent

\* install, resolve_github_release: the newest release or the one asked for.
ResolveRelease(p, r) ==
  /\ At(p, "idle") /\ Supported(KindOf[r])
  /\ KindOf[r] = "container" => SecureRuntime
  /\ installs' = [installs EXCEPT ![p] =
                    [at |-> "resolved", release |-> r, content |-> PlatformDigest(r)]]
  /\ UNCHANGED <<version_lock, disk, book, host>>

\* ensure_managed_directory_chain, acquire_install_lock
AcquireInstallLock(p) ==
  LET r == installs[p].release IN
  /\ At(p, "resolved") /\ version_lock[r] = Absent
  /\ version_lock' = [version_lock EXCEPT ![r] = p]
  /\ Moves(p, "locked")
  /\ UNCHANGED <<disk, book, host>>

\* Mutant of Exact: the directory that is there is entered in the registry.
ExactAdopts(p) ==
  /\ At(p, "locked") /\ directory[installs[p].release] # Absent
  /\ registry' = [registry EXCEPT ![installs[p].release] = Manifest(installs[p].release)]
  /\ Ends(p)
  /\ UNCHANGED <<disk, default_kind, host>>

\* A final directory that is already there: EngineRegistry::exact.  The
\* command reports the registered engine or fails; it changes nothing.
Exact(p) ==
  /\ At(p, "locked") /\ directory[installs[p].release] # Absent
  /\ Ends(p)
  /\ UNCHANGED <<disk, book, host>>

\* release_checksum: the digest of the asset, or its line in the release's
\* checksum file; a release without one cannot be installed.
ReleaseChecksum(r) == r

\* prepare_cached_asset: the hash of the cached file, if there is one.
PrepareCachedAsset(p) ==
  LET r == installs[p].release IN
  /\ At(p, "locked") /\ directory[r] = Absent /\ KindOf[r] # "container"
  /\ Moves(p, IF cache[AssetOf[r]] = Absent THEN "missing"
              ELSE IF cache[AssetOf[r]] = ReleaseChecksum(r) THEN "cached" ELSE "stale")
  /\ UNCHANGED <<version_lock, disk, book, host>>

\* A file with another hash is removed, whoever's it is by now.
RemoveStale(p) ==
  LET asset == AssetOf[installs[p].release] IN
  /\ At(p, "stale") /\ cache[asset] # Absent
  /\ cache' = [cache EXCEPT ![asset] = Absent]
  /\ Moves(p, "missing")
  /\ UNCHANGED <<version_lock, directory, book, host>>

\* download_asset: written beside the cache and persisted without clobbering.
DownloadAsset(p, content) ==
  LET r == installs[p].release IN
  /\ At(p, "missing") /\ content \in {r, Damaged} /\ cache[AssetOf[r]] = Absent
  /\ cache' = [cache EXCEPT ![AssetOf[r]] = content]
  /\ Moves(p, "downloaded")
  /\ UNCHANGED <<version_lock, directory, book, host>>

\* ensure_cached_asset: the file that is there now is hashed.
VerifyDownload(p) ==
  LET r == installs[p].release IN
  /\ At(p, "downloaded") /\ cache[AssetOf[r]] = ReleaseChecksum(r)
  /\ Moves(p, "cached")
  /\ UNCHANGED <<version_lock, disk, book, host>>

\* A mismatch removes it and fails.
DiscardDownload(p) ==
  LET r == installs[p].release IN
  /\ At(p, "downloaded") /\ cache[AssetOf[r]] # ReleaseChecksum(r)
  /\ cache' = [cache EXCEPT ![AssetOf[r]] = Absent]
  /\ Ends(p)
  /\ UNCHANGED <<directory, book, host>>

\* extract_archive, find_engine_executable, make_executable: what is in the
\* cache when it is opened is unpacked; its hash is not taken again.
ExtractArchive(p) ==
  LET content == cache[AssetOf[installs[p].release]] IN
  /\ At(p, "cached") /\ content \in Release
  /\ installs' = [installs EXCEPT ![p].at = "staged", ![p].content = content]
  /\ UNCHANGED <<version_lock, disk, book, host>>

\* verify_pulled_container_digest
PulledDigest(p, image) == image = installs[p].content

\* docker pull of the pinned reference.
PullImage(p, image) ==
  /\ At(p, "locked") /\ directory[installs[p].release] = Absent
  /\ KindOf[installs[p].release] = "container" /\ PulledDigest(p, image)
  /\ Moves(p, "pulled")
  /\ UNCHANGED <<version_lock, disk, book, host>>

\* docker image save, write_container_launcher, write_json_create_new: the
\* bundle, the launcher that names its digest, and the metadata.
SaveBundle(p) ==
  /\ At(p, "pulled")
  /\ Moves(p, "staged")
  /\ UNCHANGED <<version_lock, disk, book, host>>

\* Mutant of ProbeEngine: every engine that starts will do.
ProbeAnyVersion(p) ==
  /\ At(p, "staged")
  /\ Moves(p, "probed")
  /\ UNCHANGED <<version_lock, disk, book, host>>

\* probe_native_engine, probe_container_engine: the version of the release must
\* be a part of what Ollama prints, a container must answer; llama.cpp is not
\* started here.
ProbeEngine(p) ==
  /\ At(p, "staged")
  /\ KindOf[installs[p].release] = "ollama"
       => <<installs[p].content, installs[p].release>> \in Mentions
  /\ Moves(p, "probed")
  /\ UNCHANGED <<version_lock, disk, book, host>>

\* staging.keep, rename and sync of the parent.
RenameIntoPlace(p) ==
  LET r == installs[p].release IN
  /\ At(p, "probed") /\ directory[r] = Absent
  /\ directory' = [directory EXCEPT ![r] = installs[p].content]
  /\ Moves(p, "renamed")
  /\ UNCHANGED <<version_lock, cache, book, host>>

\* upsert: verify_record, then the registry is rewritten under its lock.
Upsert(p) ==
  LET r == installs[p].release IN
  /\ At(p, "renamed") /\ directory[r] # Absent
  /\ registry' = [registry EXCEPT ![r] = Manifest(r)]
  /\ Ends(p)
  /\ UNCHANGED <<disk, default_kind, host>>

\* An error of a step (network, disk, Docker, archive, probe) ends the command
\* and removes its staging directory; being killed leaves that behind.
InstallFails(p) ==
  /\ ~ At(p, "idle")
  /\ Ends(p)
  /\ UNCHANGED <<disk, book, host>>

\* External: a file of a registered engine is changed on disk.
FilesChange(r) ==
  /\ registry[r] # Absent
  /\ directory' = [directory EXCEPT ![r] = Damaged]
  /\ UNCHANGED <<installs, version_lock, cache, book, host>>

Init ==
  /\ installs = [p \in Installer |-> Idle]
  /\ version_lock = [r \in Release |-> Absent]
  /\ cache = [a \in Asset |-> Absent]
  /\ directory = [r \in Release |-> Absent]
  /\ registry = [r \in Release |-> Absent]
  /\ default_kind = Absent
  /\ host \in [asset : BOOLEAN, gpu : BOOLEAN, docker : BOOLEAN, tls : BOOLEAN]

Step(p) ==
  \/ \E r \in Release : ResolveRelease(p, r)
  \/ AcquireInstallLock(p) \/ Exact(p) \/ PrepareCachedAsset(p) \/ RemoveStale(p)
  \/ \E content \in Content : DownloadAsset(p, content) \/ PullImage(p, content)
  \/ VerifyDownload(p) \/ DiscardDownload(p) \/ ExtractArchive(p) \/ SaveBundle(p)
  \/ ProbeEngine(p) \/ RenameIntoPlace(p) \/ Upsert(p) \/ InstallFails(p)

Next ==
  \/ \E p \in Installer : Step(p)
  \/ \E r \in Release : SetDefault(r) \/ FilesChange(r)

Spec == Init /\ [][Next]_vars

-----------------------------------------------------------------------------
TypeOK ==
  /\ \A p \in Installer : installs[p].content \in Content \cup {Absent}
  /\ version_lock \in [Release -> Installer \cup {Absent}]
  /\ cache \in [Asset -> Content \cup {Absent}]
  /\ directory \in [Release -> Content \cup {Absent}]
  /\ registry \in [Release -> Content \cup {Absent}]

\* The releases whose files can be taken for those of r: installations of two
\* versions replace each other's archive in the cache between its verification
\* and its extraction, and the probe lets through what prints more than the
\* version it looks for.
TakenFor(r) ==
  {r} \cup {c \in Release : /\ KindOf[r] # "container" /\ AssetOf[c] = AssetOf[r]
                           /\ KindOf[r] = "ollama" => <<c, r>> \in Mentions}

\* Whatever is replaced in the cache, and whatever becomes of the files later:
\* what is registered and what is offered to be started as a release are the
\* files of the release, or of another of TakenFor; never damaged ones.
InstalledAsProbed ==
  \A r \in Release :
    /\ registry[r] \in {Absent} \cup TakenFor(r)
    /\ Offered(r) => directory[r] \in TakenFor(r)

\* What docs/INSTALL.md says of Ollama: the version agrees with the release.  It
\* does not hold where one version is the beginning of another, as 0.1.1 is of
\* 0.1.10.
InstalledIsRelease == \A r \in Release : registry[r] \in {Absent, r}

\* A directory that was left without a record (a command killed after the
\* rename) is never adopted: a record is made only by the command that made
\* the directory, while it holds the version's lock.
NeverAdopted ==
  [][\A r \in Release : registry'[r] # registry[r] =>
       \E p \in Installer : version_lock[r] = p /\ At(p, "renamed")
                            /\ installs[p].release = r /\ registry[r] = Absent]_vars
=============================================================================
