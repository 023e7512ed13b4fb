------------------------------ MODULE MCClient ------------------------------
(***************************************************************************)
(* The machine of a user: engines, models, the local service, the          *)
(* consumer's proxy, confidential requests, the isolation of an engine and *)
(* the interactive terminal, checked side by side.  focus picks the part   *)
(* that runs, the others stay in their initial states.                     *)
(***************************************************************************)
EXTENDS Integers, Sequences, FiniteSets, TLC

CONSTANTS
  Installer, Absent, Damaged, MaxVersions, MaxRead, MaxEntries, MaxBytes,
  Command, MaxStarts, None, Request, NoRequest,
  Download, Delete, MaxInodes, MaxRecords, MaxDamage,
  Shard, Deploy, MaxBundles, Word, MaxChanges,
  Asker, Streaming, PageSize, MaxEvents, MaxTokens,
  Sealer, Report, Allowed

VARIABLES
  focus,
  installs, version_lock, cache, directory, registry, default_kind, host,
  entries,
  archive, unread, files, folders, links, total_bytes, outcome,
  commands, process, state_file, port_of, held, foreign_hit, lost,
  handling, gate, slot, required, reporting, counts, status_file, engine_up, left_behind,
  downloads, deletes, inode, partial, target, quarantine, records, root, verifying, serving, damage,
  deploys, removal, staging, bundle, trash, registered, single, interrupted, overlapped,
  at_path, reader, changes,
  session, write_lock, server, broken, net_job, call, sse, reply,
  tee_keys, key_record, attesting, sealed, work, adapter,
  platform, offers, intact, plan, outer, in_force, supervising, steady,
  ui, tty, guard, at, exec, agreed, refused

-----------------------------------------------------------------------------
\* Two versions of Ollama, whose archives have one name, and a vLLM image.  Like
\* 0.1.10 beside 0.1.1, the newer version contains the older.
Release == {"o1", "o2", "v1"}
KindOf == [r \in Release |-> IF r = "v1" THEN "container" ELSE "ollama"]
AssetOf == [r \in Release |-> IF r = "v1" THEN "v" ELSE "ollama-linux"]
Mentions == {<<r, r>> : r \in Release} \cup {<<"o2", "o1">>}
Newer == {<<"o2", "o1">>}

\* 1.0 beside 1.0.0, 0.10, and prereleases with numbers and words; build
\* numbers that are not semantic versions, two of them with the same runs.
Number(n) == [number |-> TRUE, rank |-> n]
Text(n) == [number |-> FALSE, rank |-> n]
V(core, pre, runs, text) == [core |-> core, pre |-> pre, runs |-> runs, text |-> text]
Semantic ==
  {V(<<1, 0>>, <<>>, <<1, 0>>, 1), V(<<1, 0, 0>>, <<>>, <<1, 0, 0>>, 2),
   V(<<0, 10>>, <<>>, <<0, 10>>, 0), V(<<1, 0>>, <<Text(1)>>, <<1, 0>>, 3),
   V(<<1, 0>>, <<Number(2)>>, <<1, 0, 2>>, 4), V(<<1, 0>>, <<Number(10)>>, <<1, 0, 10>>, 5),
   V(<<1, 0>>, <<Text(1), Number(1)>>, <<1, 0, 1>>, 6)}
Build ==
  {V(<<>>, <<>>, <<9>>, 3), V(<<>>, <<>>, <<10>>, 1), V(<<>>, <<>>, <<10, 1>>, 2),
   V(<<>>, <<>>, <<9>>, 4)}

\* Files, directories and links that meet, nest, climb and dangle.
Entry ==
  [kind : {"file"}, path : {<<"a">>, <<"d">>, <<"d", "x">>, <<"..", "a">>},
   target : {<<>>}, size : {2}]
  \cup [kind : {"dir", "device"}, path : {<<"d">>}, target : {<<>>}, size : {0}]
  \cup [kind : {"link"}, path : {<<"b">>, <<"d", "y">>},
        target : {<<"a">>, <<"y">>, <<"..", "b">>, <<"..", "a">>, <<"d", "y">>, <<"d">>},
        size : {0}]

\* Tensors that touch, overlap, leave holes and run past the end.
Tensor == [offset : {0, 2, 62}, shape : {<<1>>, <<2, 0>>, <<2, 16>>}, kind : {1, 2, 24, 99}]
Blob == [begin : {0, 2, 4}, end : {0, 2, 4, 6}, shape : {<<2>>, <<1>>, <<0>>},
         dtype : {"U8", "F16", "Q4"}]
ModelFiles ==
  [format : {"gguf"}, version : {3}, alignment : {1, 2, 3}, split : {<<>>},
   tensors : UNION {[1 .. n -> Tensor] : n \in {1, 2}}, data_len : {20}]
  \cup [format : {"gguf"}, version : {3, 4}, alignment : {1},
        split : {<<0, 2>>, <<2, 2>>, <<1>>}, tensors : [1 .. 1 -> Tensor], data_len : {0, 20}]
  \cup [format : {"safetensors"}, data_len : {4}, tensors : UNION {[1 .. n -> Blob] : n \in {0, 1}}]
  \cup [format : {"safetensors"}, data_len : {4, 6},
        tensors : [1 .. 2 -> {b \in Blob : b.dtype # "Q4" /\ b.begin <= b.end}]]

-----------------------------------------------------------------------------
Engines == INSTANCE EngineInstall
Versions == INSTANCE VersionOrder
Archives == INSTANCE ArchiveExtract
Service == INSTANCE ServeProcess
Proxy == INSTANCE ServeProxy
Store == INSTANCE ModelStore
Bundles == INSTANCE ModelBundle
Model == INSTANCE ModelFile
\* The requests of the proxy are called askers here.
Quota == INSTANCE QuotaProxy WITH Request <- Asker
Regulated == INSTANCE RegulatedRequest
Isolation == INSTANCE Sandbox
\* Lines are edited at a harmless command and at one that needs an argument.
Arguments ==
  [p \in {"model deploy", "model recommend", "api revoke"} |->
     CASE p = "model deploy" -> {<<<<m>>>> : m \in {"auto", "x", "y"}}
       [] p = "model recommend" -> {<<>>, <<<<"--limit">>>>}
       [] p = "api revoke" -> {<<<<"auto">>>>}]
Screen == INSTANCE Tui WITH
  Typed <- {"'", "auth logout"}, Pasted <- {<<" ", "auto">>}, MaxLine <- 3,
  EditedAt <- {"api list", "api revoke"}, Catalog <- <<"x", "y">>, Rank <- [m \in {"y"} |-> 0],
  Letter <- {"y"}, Spelled <- {<<"y", "y">>}, MaxQuery <- 1, Nothing <- None

ASSUME EngineAssumption ==
  Absent \notin Installer \cup Release \cup {Damaged} /\ Damaged \notin Release
ASSUME BundleAssumption ==
  None \notin 1 .. MaxBundles /\ \A c \in SUBSET (Shard \X {"part", "whole"}) : c # None
ASSUME ServiceAssumption == MaxStarts \in Nat /\ None \notin 1 .. MaxStarts
ASSUME RequestAssumption == NoRequest \notin Request
ASSUME QuotaAssumption == Streaming \subseteq Asker /\ PageSize \in Nat /\ MaxTokens \in Nat

engines == <<installs, version_lock, cache, directory, registry, default_kind, host>>
archives == <<archive, unread, files, folders, links, total_bytes, outcome>>
service == <<commands, process, state_file, port_of, held, foreign_hit, lost>>
proxy == <<handling, gate, slot, required, reporting, counts, status_file, engine_up,
           left_behind>>
store == <<downloads, deletes, inode, partial, target, quarantine, records, root, verifying,
           serving, damage>>
bundles ==
  <<deploys, removal, staging, bundle, trash, registered, single, interrupted, overlapped>>
model == <<at_path, reader, changes>>
quota == <<session, write_lock, server, broken, net_job, call, sse, reply>>
regulated == <<tee_keys, key_record, attesting, sealed, work, adapter>>
isolation == <<platform, offers, intact, plan, outer, in_force, supervising, steady>>
screen == <<ui, tty, guard, at, exec, agreed, refused>>
machine == <<engines, entries, archives, service, proxy, store, bundles, model>>
consumer == <<quota, regulated, isolation, screen>>
vars == <<focus, machine, consumer>>

\* The parts not in focus start from one of their initial states.
SomeFile == CHOOSE f \in ModelFiles : f.format = "gguf"
Init ==
  /\ focus \in {"engines", "versions", "archives", "service", "proxy", "store", "bundles",
                "model", "quota", "regulated", "isolation", "screen"}
  /\ Quota!Init /\ Regulated!Init /\ Screen!Init
  /\ IF focus = "isolation" THEN Isolation!Init
     ELSE /\ platform = "windows" /\ offers = {} /\ intact = TRUE /\ steady = TRUE
          /\ plan = Isolation!NoPlan /\ outer = "none" /\ in_force = {} /\ supervising = FALSE
  /\ Service!Init /\ Proxy!Init /\ Store!Init /\ Bundles!Init /\ Versions!Init
  /\ Engines!Init /\ (focus # "engines" => \A x \in DOMAIN host : host[x])
  /\ IF focus = "archives" THEN Archives!Init
     ELSE /\ archive = <<>> /\ unread = 0 /\ files = <<>> /\ folders = {} /\ links = <<>>
          /\ total_bytes = 0 /\ outcome = "running"
  /\ IF focus = "model" THEN Model!Init
     ELSE /\ at_path = [number |-> 1, content |-> SomeFile, written |-> 0,
                        replaced |-> SomeFile]
          /\ reader = Model!Unread /\ changes = 0

Next ==
  /\ UNCHANGED focus
  /\ \/ /\ focus = "engines" /\ Engines!Next
        /\ UNCHANGED <<entries, archives, service, proxy, store, bundles, model, consumer>>
     \/ /\ focus = "versions" /\ Versions!Next
        /\ UNCHANGED <<engines, archives, service, proxy, store, bundles, model, consumer>>
     \/ /\ focus = "archives" /\ Archives!Next
        /\ UNCHANGED <<engines, entries, service, proxy, store, bundles, model, consumer>>
     \/ /\ focus = "service" /\ Service!Next
        /\ UNCHANGED <<engines, entries, archives, proxy, store, bundles, model, consumer>>
     \/ /\ focus = "proxy" /\ Proxy!Next
        /\ UNCHANGED <<engines, entries, archives, service, store, bundles, model, consumer>>
     \/ /\ focus = "store" /\ Store!Next
        /\ UNCHANGED <<engines, entries, archives, service, proxy, bundles, model, consumer>>
     \/ /\ focus = "bundles" /\ Bundles!Next
        /\ UNCHANGED <<engines, entries, archives, service, proxy, store, model, consumer>>
     \/ /\ focus = "model" /\ Model!Next
        /\ UNCHANGED <<engines, entries, archives, service, proxy, store, bundles, consumer>>
     \/ focus = "quota" /\ Quota!Next /\ UNCHANGED <<machine, regulated, isolation, screen>>
     \/ focus = "regulated" /\ Regulated!Next /\ UNCHANGED <<machine, quota, isolation, screen>>
     \/ focus = "isolation" /\ Isolation!Next /\ UNCHANGED <<machine, quota, regulated, screen>>
     \/ focus = "screen" /\ Screen!Next /\ UNCHANGED <<machine, quota, regulated, isolation>>

Spec == Init /\ [][Next]_vars

\* Members of these sets are told apart by nothing but their names, and the
\* configuration has the same names for all three.
Symmetry == Permutations(Installer \cup Command \cup Delete)

-----------------------------------------------------------------------------
\* What is read is taken for what it is: of two versions the newer, of an archive
\* the files it holds, of a model file a tensor's own bytes, of a line the words in
\* its quotes.
ReadAsWritten ==
  /\ Versions!NewestIsNewest /\ Archives!UnpackedAsWritten /\ Model!AcceptedIsLoadable
  /\ focus = "screen" => Screen!TypeOK /\ Screen!QuotedWordsKept

\* Every process of the service is held by the command that starts it or described
\* by the state file, but for those of a start whose state another command replaced
\* or whose command was killed while it had none; no process of others is signalled.
\* A stop that reports the slot clean is right, of requests whose client stayed. An
\* engine that runs is held by the isolation its plan states, and the terminal runs
\* what was confirmed and is given back as it was.
ServiceAccounted ==
  /\ Service!TypeOK /\ Service!NoOrphan /\ Service!OnlyOwnProcesses /\ Proxy!ConfirmedIsClean
  /\ focus = "isolation" => Isolation!AppliedAsStated /\ Isolation!DetectionAgrees
  /\ focus = "screen" => Screen!RunsConfirmed /\ Screen!TerminalRestored

\* An inference finds in its slot no tokens of an earlier one, but for those of a
\* request whose client left before its response began, which nobody erases.
SlotStartsClean == Proxy!StartsClean

\* A model's record keeps the checksum its download was given, whatever verifications
\* and deletions write later, and what is accepted was checked as one content.
TrustedModels == Store!TypeOK /\ Store!TrustRootKept /\ Model!OneContent

\* Concurrent requests of the consumer's proxy share one session without losing
\* it, get their own results whole and in order, and a confidential one is opened
\* only by, and answered only from, the runtime whose evidence was verified.
ConsumerServed ==
  /\ focus = "quota" =>
       Quota!SessionShared /\ Quota!RelayedInOrder /\ Quota!ResultsSettled
  /\ focus = "regulated" => Regulated!SealedToVerified /\ Regulated!AdapterAccounted

\* What is listed and offered of engines has the files of its release, or of one that
\* its probe cannot tell from it; an engine's directory is registered by the command
\* that made it, weights are erased after their record, and a bundle is registered
\* with all of its shards and nothing but what a killed deploy left beside them.
RecordsMatchFiles ==
  /\ [](Engines!TypeOK /\ Engines!InstalledAsProbed) /\ Engines!NeverAdopted
  /\ Store!ErasedAfterRecord /\ Bundles!RegisteredWhole
=============================================================================
