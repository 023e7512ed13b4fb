---------------------------- MODULE VersionOrder ----------------------------
(***************************************************************************)
(* Which of the registered versions of an engine is the newest.  Versions  *)
(* that parse as semantic versions are compared by their components and    *)
(* their pre-release; build numbers such as b10064 by their runs of        *)
(* digits.  The registry keeps its entries in the order of installation.   *)
(*                                                                         *)
(* A version is what the comparison reads of its text: core, the numeric   *)
(* components (empty when it does not parse), pre, the pre-release         *)
(* identifiers, runs, the runs of digits, and text, its rank in the order  *)
(* of strings.                                                             *)
(*                                                                         *)
(* Source: crates/mindone-engine/src/install.rs.                           *)
(***************************************************************************)
EXTENDS Integers, Sequences

CONSTANTS
  Semantic,   \* versions that parse_semver accepts
  Build,      \* versions it does not
  MaxVersions \* bound on the registered versions

VARIABLE entries   \* the registered versions of an engine

vars == entries

Sign(a, b) == IF a < b THEN -1 ELSE IF a > b THEN 1 ELSE 0

\* The first position where two sequences differ decides.
FirstDifference(cmp) ==
  LET D == {i \in DOMAIN cmp : cmp[i] # 0}
  IN IF D = {} THEN 0 ELSE cmp[CHOOSE i \in D : \A j \in D : i <= j]

Shorter(s, t) == IF Len(s) < Len(t) THEN Len(s) ELSE Len(t)
Longer(s, t) == IF Len(s) < Len(t) THEN Len(t) ELSE Len(s)
Component(s, i) == IF i \in DOMAIN s THEN s[i] ELSE 0

\* Mutant of CompareIdentifier: a number and a word are the same.
CompareLoosely(a, b) == IF a.number = b.number THEN Sign(a.rank, b.rank) ELSE 0

\* Numbers before words, numbers by value, words by text.
CompareIdentifier(a, b) ==
  IF a.number = b.number THEN Sign(a.rank, b.rank) ELSE IF a.number THEN -1 ELSE 1

\* compare_prerelease: the shorter one first when it is a prefix.
ComparePrerelease(s, t) ==
  LET d == FirstDifference([i \in 1 .. Shorter(s, t) |-> CompareIdentifier(s[i], t[i])])
  IN IF d # 0 THEN d ELSE Sign(Len(s), Len(t))

\* compare_semver: missing components are 0, a pre-release is before its release.
CompareSemver(v, w) ==
  LET d == FirstDifference([i \in 1 .. Longer(v.core, w.core) |->
                              Sign(Component(v.core, i), Component(w.core, i))])
  IN IF d # 0 THEN d
     ELSE IF v.pre = <<>> \/ w.pre = <<>>
     THEN Sign(IF v.pre = <<>> THEN 1 ELSE 0, IF w.pre = <<>> THEN 1 ELSE 0)
     ELSE ComparePrerelease(v.pre, w.pre)

\* compare_versions
CompareVersions(v, w) ==
  LET d == FirstDifference([i \in 1 .. Shorter(v.runs, w.runs) |-> Sign(v.runs[i], w.runs[i])])
  IN IF v.core # <<>> /\ w.core # <<>> THEN CompareSemver(v, w)
     ELSE IF d # 0 THEN d
     ELSE IF Len(v.runs) # Len(w.runs) THEN Sign(Len(v.runs), Len(w.runs))
     ELSE Sign(v.text, w.text)

\* newest_engine: max_by keeps the later of two that compare as equal, as the
\* time of installation would.
NewestEngine(s) ==
  LET Later(v, w) == IF CompareVersions(v, w) > 0 THEN v ELSE w
      best[i \in 1 .. Len(s)] == IF i = 1 THEN s[1] ELSE Later(best[i - 1], s[i])
  IN best[Len(s)]

Init == entries = <<>>

\* upsert: the entry of this version moves to the end.
Installed(v) ==
  /\ Len(entries) < MaxVersions
  /\ LET Other(e) == e # v IN entries' = Append(SelectSeq(entries, Other), v)

Next ==
  \/ entries \in Seq(Semantic) /\ \E v \in Semantic : Installed(v)
  \/ entries \in Seq(Build) /\ \E v \in Build : Installed(v)

\* Whatever the order of the installations, the version a caller is given is
\* not older than any other registered one: the comparison is a total preorder
\* on the versions of an engine (an engine's releases follow one scheme).
NewestIsNewest ==
  \A i \in DOMAIN entries :
    /\ CompareVersions(NewestEngine(entries), entries[i]) >= 0
    /\ CompareVersions(entries[i], NewestEngine(entries)) <= 0
=============================================================================
