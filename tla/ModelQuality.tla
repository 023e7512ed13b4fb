---------------------------- MODULE ModelQuality ----------------------------
(***************************************************************************)
(* The quality of the models that share a name: trusted events (hidden     *)
(* benchmarks, canaries, blind comparisons) change one model's scores,     *)
(* after which the fused score, the rank and the tier of every model of    *)
(* the name are computed again.  An event comes from a hidden evaluation   *)
(* or from an operator's signed statement, which is audited with it.       *)
(*                                                                         *)
(* Scores are percentages.  Glicko-2 is abstracted to the direction of its *)
(* result: a win does not lower a rating, a loss does not raise it.        *)
(*                                                                         *)
(* Source: crates/mindone-coordinator/src/quality.rs, operator_quality.rs, *)
(* crates/mindone-accounting/src/tier.rs, quality.rs, glicko2.rs.          *)
(***************************************************************************)
EXTENDS Integers, Sequences, FiniteSets

CONSTANTS
  Model,       \* the enabled models of the name
  Statement,   \* [key, model, kind, value, samples, signed]
  QualityTx,   \* transactions
  Ratings,     \* values a Glicko-2 rating is rounded to
  MinSamples, ColdStartK, FirstSamples, FirstScore,
  NoTx

VARIABLES
  quality,     \* quality[m]: the model's row
  events,      \* model_quality_events
  audits,      \* quality_evidence_audits
  expired,     \* statements whose validity is over
  qtx,         \* qtx[t]: step, statement and the rows it has read
  event_lock,  \* advisory locks, by idempotency key
  rows_lock,   \* the row locks of the name's models
  seen_tiers   \* seen_tiers[m]: tiers left since the model's score last changed

vars == <<quality, events, audits, expired, qtx, event_lock, rows_lock, seen_tiers>>
tables == <<quality, events, audits, seen_tiers>>
locks == <<event_lock, rows_lock>>

Key == {s.key : s \in Statement}
Idle == [at |-> "idle"]

-----------------------------------------------------------------------------
(***************************************************************************)
(* Scores                                                                  *)
(***************************************************************************)
Rounded(a, b) == (a + b \div 2) \div b

\* apply_event_to_target: the weighted mean of the samples,
Benchmark(q, s) ==
  [q EXCEPT !.bench = Rounded(q.bench * q.samples + s.value * s.samples, q.samples + s.samples),
            !.samples = q.samples + s.samples]

\* update_glicko2, for one opponent.
Glicko(q, s) ==
  {[q EXCEPT !.glicko = r, !.evals = q.evals + 1] :
     r \in {x \in Ratings : CASE s.value = "win" -> x >= q.glicko
                              [] s.value = "loss" -> x <= q.glicko
                              [] OTHER -> x = q.glicko}}

ApplyEvent(q, s) == IF s.kind = "score" THEN {Benchmark(q, s)} ELSE Glicko(q, s)

\* fused_quality: benchmark and rating, weighed by the comparisons made.
FusedQuality(q) ==
  Rounded(ColdStartK * q.bench + q.evals * q.glicko, ColdStartK + q.evals)

\* score_percentile: ties count half.
ScorePercentile(m, fused) ==
  IF Cardinality(Model) = 1 THEN 50
  ELSE LET lower == Cardinality({n \in Model : fused[n] < fused[m]})
           peers == Cardinality({n \in Model : fused[n] = fused[m]}) - 1
       IN (100 * lower + 50 * peers) \div (Cardinality(Model) - 1)

\* Mutant of Classify: the relative rank lifts a model into a tier whose exit
\* it has not passed.
ClassifyNoMargin(current, score, percentile, evals) ==
  IF evals < MinSamples THEN "medium"
  ELSE CASE current = "high" -> IF score >= 80 THEN "high" ELSE "medium"
         [] current = "low" -> IF score <= 42 THEN "low" ELSE "medium"
         [] OTHER -> IF score >= 80 \/ (score >= 77 /\ percentile >= 80) THEN "high"
                     ELSE IF score <= 35 \/ (score <= 38 /\ percentile <= 20) THEN "low"
                     ELSE "medium"

\* TierPolicy::classify with the default policy.
Classify(current, score, percentile, evals) ==
  IF evals < MinSamples THEN "medium"
  ELSE CASE current = "high" -> IF score >= 72 THEN "high" ELSE "medium"
         [] current = "low" -> IF score <= 42 THEN "low" ELSE "medium"
         [] OTHER -> IF score >= 80 \/ (score >= 77 /\ percentile >= 80) THEN "high"
                     ELSE IF score <= 35 \/ (score <= 38 /\ percentile <= 20) THEN "low"
                     ELSE "medium"

\* recompute_group: all rows of the name.
RecomputeGroup(rows) ==
  LET fused == [m \in Model |-> FusedQuality(rows[m])]
  IN [m \in Model |->
        [rows[m] EXCEPT
           !.fusion = fused[m],
           !.tier = Classify(rows[m].tier, fused[m], ScorePercentile(m, fused), rows[m].evals)]]

-----------------------------------------------------------------------------
(***************************************************************************)
(* Transactions                                                            *)
(***************************************************************************)
Moves(t, step) == qtx' = [qtx EXCEPT ![t].at = step]

Ends(t) ==
  /\ qtx' = [qtx EXCEPT ![t] = Idle]
  /\ event_lock' = [k \in Key |-> IF event_lock[k] = t THEN NoTx ELSE event_lock[k]]
  /\ rows_lock' = IF rows_lock = t THEN NoTx ELSE rows_lock

\* prepare_evidence_files, validate_statement_shape, validate_trusted_event; or
\* the event of a hidden evaluation.
BeginRecord(t, s) ==
  /\ qtx[t].at = "idle"
  /\ qtx' = [qtx EXCEPT ![t] = [at |-> "begun", statement |-> s, rows |-> quality]]
  /\ UNCHANGED <<tables, expired, locks>>

\* Mutant of LockQualityEvent: the key is only looked up.
LockNoKey(t) ==
  /\ qtx[t].at = "begun"
  /\ Moves(t, "locked")
  /\ UNCHANGED <<tables, expired, locks>>

\* lock_quality_event_idempotency
LockQualityEvent(t) ==
  /\ qtx[t].at = "begun" /\ event_lock[qtx[t].statement.key] = NoTx
  /\ event_lock' = [event_lock EXCEPT ![qtx[t].statement.key] = t]
  /\ Moves(t, "locked")
  /\ UNCHANGED <<tables, expired, rows_lock>>

Recorded(k) == {e \in events : e.key = k}

\* A key that was used: the same request is answered from the record, whether
\* or not its statement is still valid, another one is a conflict.
AnswerAgain(t) ==
  /\ qtx[t].at = "locked" /\ Recorded(qtx[t].statement.key) # {}
  /\ Ends(t)
  /\ UNCHANGED <<tables, expired>>

\* verify_prepared_evidence: validity, trusted key and signature.
VerifyEvidence(t) ==
  /\ qtx[t].at = "locked" /\ Recorded(qtx[t].statement.key) = {}
  /\ IF qtx[t].statement \in expired THEN Ends(t)
     ELSE Moves(t, "verified") /\ UNCHANGED locks
  /\ UNCHANGED <<tables, expired>>

\* Mutant of LockModels: the rows are read without FOR UPDATE.
ReadModels(t) ==
  /\ qtx[t].at = "verified"
  /\ qtx' = [qtx EXCEPT ![t].at = "read", ![t].rows = quality]
  /\ UNCHANGED <<tables, expired, locks>>

\* record_trusted_event_in_transaction: the rows of the name, in the order of
\* their ids, FOR UPDATE.
LockModels(t) ==
  /\ qtx[t].at = "verified" /\ rows_lock = NoTx
  /\ rows_lock' = t
  /\ qtx' = [qtx EXCEPT ![t].at = "read", ![t].rows = quality]
  /\ UNCHANGED <<tables, expired, event_lock>>

\* The new rows, the event with the scores before and after, the tier changes,
\* the audit of a signed statement; commit.
CommitEvent(t) ==
  LET s == qtx[t].statement
      old == qtx[t].rows
  IN /\ qtx[t].at = "read"
     /\ \E q \in ApplyEvent(old[s.model], s) :
          LET new == RecomputeGroup([old EXCEPT ![s.model] = q]) IN
          /\ quality' = new
          /\ events' = events \cup
               {[key |-> s.key, model |-> s.model, kind |-> s.kind, samples |-> s.samples,
                 tx |-> t]}
          /\ seen_tiers' = [m \in Model |->
               IF new[m].fusion # quality[m].fusion THEN {}
               ELSE IF new[m].tier # quality[m].tier
               THEN seen_tiers[m] \cup {quality[m].tier} ELSE seen_tiers[m]]
     /\ audits' = IF s.signed THEN audits \cup {s.key} ELSE audits
     /\ Ends(t)
     /\ UNCHANGED expired

\* A failed statement or a lost connection.
RecordFails(t) ==
  /\ qtx[t].at # "idle"
  /\ Ends(t)
  /\ UNCHANGED <<tables, expired>>

\* valid_until passes.
StatementExpires(s) ==
  /\ s.signed /\ s \notin expired
  /\ expired' = expired \cup {s}
  /\ UNCHANGED <<tables, qtx, locks>>

-----------------------------------------------------------------------------
\* Models with a history and equal scores, which leaves them at medium.
Init ==
  /\ quality \in [Model -> {[bench |-> FirstScore, samples |-> 1, glicko |-> FirstScore,
                             evals |-> n, fusion |-> FirstScore, tier |-> "medium"] :
                              n \in FirstSamples}]
  /\ events = {} /\ audits = {} /\ expired = {}
  /\ qtx = [t \in QualityTx |-> Idle]
  /\ event_lock = [k \in Key |-> NoTx]
  /\ rows_lock = NoTx
  /\ seen_tiers = [m \in Model |-> {}]

Next ==
  \/ \E t \in QualityTx :
       \/ \E s \in Statement : BeginRecord(t, s)
       \/ LockQualityEvent(t) \/ AnswerAgain(t) \/ VerifyEvidence(t) \/ LockModels(t)
       \/ CommitEvent(t) \/ RecordFails(t)
  \/ \E s \in Statement : StatementExpires(s)

Spec == Init /\ [][Next]_vars

-----------------------------------------------------------------------------
Made(m, kind) == {e \in events : e.model = m /\ e.kind = kind}
\* One element for each sample of these events.
SamplesOf(made) == UNION {{<<e.key, i>> : i \in 1 .. e.samples} : e \in made}

(***************************************************************************)
(* However transactions on the models of one name are interleaved, no      *)
(* event is lost and none is applied twice: a key has one event, the       *)
(* samples of a model are those of its events, and every audit is the      *)
(* audit of an event that was applied.                                     *)
(***************************************************************************)
EventsAccounted ==
  /\ \A d, e \in events : d.key = e.key => d = e
  /\ audits \subseteq {e.key : e \in events}
  /\ \A m \in Model :
       /\ quality[m].samples = 1 + Cardinality(SamplesOf(Made(m, "score")))
       /\ quality[m].evals - Cardinality(Made(m, "blind")) \in FirstSamples

(***************************************************************************)
(* Hysteresis: as long as a model's own score stays the same, the events   *)
(* of other models of the name may move it to another tier through its     *)
(* rank, and never back to one it has left.                                *)
(***************************************************************************)
NoFlapping == \A m \in Model : quality[m].tier \notin seen_tiers[m]
=============================================================================
