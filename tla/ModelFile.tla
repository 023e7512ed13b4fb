------------------------------ MODULE ModelFile ------------------------------
(***************************************************************************)
(* What a model file must look like before it is registered or loaded:     *)
(* validate_model opens it, checks the structure of its GGUF or            *)
(* safetensors header against its size, hashes the same open file and then *)
(* makes sure that path and file are still the ones it started with, while *)
(* another program may write the file or put another one in its place.     *)
(*                                                                         *)
(* A file is the description its header gives (tensors with their places)  *)
(* and the length of its data; its SHA-256 is the file itself.  Counters   *)
(* are words of at most Word, checked as the code checks u64.              *)
(*                                                                         *)
(* Source: crates/mindone-engine/src/validation.rs.                        *)
(***************************************************************************)
EXTENDS Integers, Sequences, FiniteSets, SequencesExt, TLC

CONSTANTS
  ModelFiles,  \* the contents a file may have
  Word,        \* the largest integer of the code's u64
  MaxChanges   \* bound on what other programs do to the file

VARIABLES
  at_path,     \* the file at the path: its number, its content and its changes
  reader,      \* validate_model: step, the file opened, what it read of it
  changes

vars == <<at_path, reader, changes>>

Overflow == Word + 1
\* checked_mul, checked_add
CheckedMul(a, b) == IF Overflow \in {a, b} \/ a * b > Word THEN Overflow ELSE a * b
CheckedAdd(a, b) == IF a + b > Word THEN Overflow ELSE a + b

-----------------------------------------------------------------------------
(***************************************************************************)
(* Structure                                                               *)
(***************************************************************************)
\* ggml_tensor_bytes: elements and bytes of a block of each tensor type.
GgmlBlock ==
  (0 :> <<1, 4>>) @@ (1 :> <<1, 2>>) @@ (2 :> <<32, 18>>) @@ (3 :> <<32, 20>>) @@
  (6 :> <<32, 22>>) @@ (7 :> <<32, 24>>) @@ (8 :> <<32, 34>>) @@ (9 :> <<32, 40>>) @@
  (10 :> <<256, 84>>) @@ (11 :> <<256, 110>>) @@ (12 :> <<256, 144>>) @@
  (13 :> <<256, 176>>) @@ (14 :> <<256, 210>>) @@ (15 :> <<256, 292>>) @@
  (16 :> <<256, 66>>) @@ (17 :> <<256, 74>>) @@ (18 :> <<256, 98>>) @@
  (19 :> <<256, 50>>) @@ (20 :> <<32, 18>>) @@ (21 :> <<256, 110>>) @@
  (22 :> <<256, 82>>) @@ (23 :> <<256, 136>>) @@ (24 :> <<1, 1>>) @@ (25 :> <<1, 2>>) @@
  (26 :> <<1, 4>>) @@ (27 :> <<1, 8>>) @@ (28 :> <<1, 8>>) @@ (29 :> <<256, 56>>) @@
  (30 :> <<1, 2>>)

GgmlTensorBytes(elements, kind) ==
  IF kind \in DOMAIN GgmlBlock /\ elements % GgmlBlock[kind][1] = 0
  THEN CheckedMul(elements \div GgmlBlock[kind][1], GgmlBlock[kind][2])
  ELSE Overflow

\* The product of a tensor's dimensions.
Elements(t) == FoldLeft(CheckedMul, 1, t.shape)

\* A tensor's range in the data, end exclusive.
GgufRange(t) == <<t.offset, CheckedAdd(t.offset, GgmlTensorBytes(Elements(t), t.kind))>>

Sorted(ranges) ==
  SortSeq(ranges, LAMBDA a, b : a[1] < b[1] \/ (a[1] = b[1] /\ a[2] < b[2]))

\* Neighbours after sorting.
GgufDisjoint(ranges) ==
  LET s == Sorted(ranges) IN \A i \in 1 .. Len(s) - 1 : s[i][2] <= s[i + 1][1]

\* The metadata that matters: alignment, and the two split entries or neither.
GgufMetadataValid(f) ==
  /\ f.alignment \in {1, 2, 4, 8, 16, 32, 64, 128, 256, 512, 1024, 2048, 4096}
  /\ \/ f.split = <<>> \/ f.split \in {<<0, 0>>, <<0, 1>>}
     \/ Len(f.split) = 2 /\ f.split[2] > 1 /\ f.split[1] < f.split[2]

\* validate_gguf: version, counts, metadata, dimensions, alignment and ranges.
ValidateGguf(f) ==
  LET ranges == [i \in 1 .. Len(f.tensors) |-> GgufRange(f.tensors[i])] IN
  /\ f.version \in 1 .. 3 /\ f.tensors # <<>>
  /\ GgufMetadataValid(f)
  /\ f.data_len > 0
  /\ \A i \in 1 .. Len(f.tensors) :
       LET t == f.tensors[i] IN
       /\ Len(t.shape) \in 1 .. 4 /\ 0 \notin Range(t.shape) /\ Elements(t) <= Word
       /\ t.offset % f.alignment = 0
       /\ ranges[i][2] <= f.data_len
  /\ GgufDisjoint(ranges)

\* dtype_size
DtypeSize == [U8 |-> 1, F16 |-> 2, F32 |-> 4, F64 |-> 8]

\* Mutant of SafetensorsCovered: holes are not looked for.
SafetensorsCoveredLoosely(s, data_len) ==
  /\ s[1][1] = 0 /\ s[Len(s)][2] = data_len
  /\ \A i \in 1 .. Len(s) - 1 : s[i][2] <= s[i + 1][1]

\* Neighbours must touch, the first begins the data and the last ends it.
SafetensorsCovered(s, data_len) ==
  /\ s[1][1] = 0 /\ s[Len(s)][2] = data_len
  /\ \A i \in 1 .. Len(s) - 1 : s[i][2] = s[i + 1][1]

\* validate_safetensors, after parse_unique_json has refused repeated names.
ValidateSafetensors(f) ==
  LET ranges == [i \in 1 .. Len(f.tensors) |-> <<f.tensors[i].begin, f.tensors[i].end>>] IN
  /\ f.tensors # <<>>
  /\ \A i \in 1 .. Len(f.tensors) :
       LET t == f.tensors[i] IN
       /\ t.dtype \in DOMAIN DtypeSize
       /\ t.begin <= t.end /\ t.end <= f.data_len
       /\ Elements(t) <= Word
       /\ t.end - t.begin = CheckedMul(Elements(t), DtypeSize[t.dtype])
  /\ SafetensorsCovered(Sorted(ranges), f.data_len)

StructureValid(f) ==
  IF f.format = "gguf" THEN ValidateGguf(f) ELSE ValidateSafetensors(f)

-----------------------------------------------------------------------------
(***************************************************************************)
(* validate_model                                                          *)
(***************************************************************************)
Unread == [at |-> "start", file |-> 0, seen |-> 0, parsed |-> <<>>, hashed |-> <<>>]

\* symlink_metadata, open_model_file without following links, and the identity
\* of the two.
OpenModelFile ==
  /\ reader.at = "start"
  /\ reader' = [reader EXCEPT !.at = "opened", !.file = at_path.number,
                              !.seen = at_path.written]
  /\ UNCHANGED <<at_path, changes>>

\* The open file is read through its handle, also after the path has moved on;
\* the file that was replaced keeps its content.
OpenContent == IF at_path.number = reader.file THEN at_path.content ELSE at_path.replaced

ParseStructure ==
  /\ reader.at = "opened"
  /\ reader' = [reader EXCEPT !.at = IF StructureValid(OpenContent) THEN "parsed"
                                     ELSE "refused",
                              !.parsed = OpenContent]
  /\ UNCHANGED <<at_path, changes>>

Sha256OpenFile ==
  /\ reader.at = "parsed"
  /\ reader' = [reader EXCEPT !.at = "hashed", !.hashed = OpenContent]
  /\ UNCHANGED <<at_path, changes>>

\* Mutant of Recheck: what was read is reported.
RecheckNothing ==
  /\ reader.at = "hashed"
  /\ reader' = [reader EXCEPT !.at = "accepted"]
  /\ UNCHANGED <<at_path, changes>>

\* metadata_snapshot_unchanged of the open file, same_file_identity of the path.
Recheck ==
  /\ reader.at = "hashed"
  /\ reader' = [reader EXCEPT !.at =
       IF at_path.number = reader.file /\ at_path.written = reader.seen
       THEN "accepted" ELSE "refused"]
  /\ UNCHANGED <<at_path, changes>>

\* Another program writes into the file, which changes its times,
WriteInPlace(f) ==
  /\ changes < MaxChanges
  /\ reader.at \in {"opened", "parsed", "hashed"}
  /\ at_path' = [at_path EXCEPT !.content = f, !.written = @ + 1]
  /\ changes' = changes + 1
  /\ UNCHANGED reader

\* or puts another file at the path.
ReplaceFile(f) ==
  /\ changes < MaxChanges
  /\ reader.at \in {"opened", "parsed", "hashed"}
  /\ at_path' = [number |-> at_path.number + 1, content |-> f, written |-> 0,
                 replaced |-> OpenContent]
  /\ changes' = changes + 1
  /\ UNCHANGED reader

Init ==
  /\ \E f \in ModelFiles :
       at_path = [number |-> 1, content |-> f, written |-> 0, replaced |-> f]
  /\ reader = Unread
  /\ changes = 0

Next ==
  \/ OpenModelFile \/ ParseStructure \/ Sha256OpenFile \/ Recheck
  \/ \E f \in {at_path.content, [at_path.content EXCEPT !.data_len = 1]} :
       WriteInPlace(f) \/ ReplaceFile(f)

Spec == Init /\ [][Next]_vars

-----------------------------------------------------------------------------
\* The bytes of the data that belong to tensor t.
Bytes(f, t) ==
  IF f.format = "gguf"
  THEN {b \in 0 .. Word : t.offset <= b
          /\ b < t.offset + GgmlBlock[t.kind][2] * (Elements(t) \div GgmlBlock[t.kind][1])}
  ELSE {b \in 0 .. Word : t.begin <= b /\ b < t.end}

\* Structure and hash of an accepted file are of one and the same content,
\* although they are read one after the other from a file that others may
\* change and a path that others may give to another file.
OneContent ==
  reader.at = "accepted" => reader.parsed = reader.hashed /\ StructureValid(reader.hashed)

(***************************************************************************)
(* A file that is accepted can be loaded without reading outside it: the   *)
(* bytes of its tensors lie in its data, no byte belongs to two tensors    *)
(* (the code compares neighbours only), and in a safetensors file every    *)
(* byte belongs to one.                                                    *)
(***************************************************************************)
AcceptedIsLoadable ==
  /\ OneContent
  /\ reader.at = "accepted" =>
       LET f == reader.hashed IN
       /\ \A i \in DOMAIN f.tensors : Bytes(f, f.tensors[i]) \subseteq 0 .. f.data_len - 1
       /\ \A i, j \in DOMAIN f.tensors :
            i # j => Bytes(f, f.tensors[i]) \cap Bytes(f, f.tensors[j]) = {}
       /\ f.format = "safetensors" =>
            UNION {Bytes(f, f.tensors[i]) : i \in DOMAIN f.tensors} = 0 .. f.data_len - 1
=============================================================================
