---------------------------- MODULE Attestation ----------------------------
(***************************************************************************)
(* Hardware attestation of one node.  A run of `auth attest' prepares a    *)
(* key, gets a challenge, stores the key as pending, submits evidence and  *)
(* marks the key verified.  The coordinator consumes the challenge in one  *)
(* transaction that keeps node, instance and model locked FOR SHARE while  *)
(* an external verifier works, and updates the node at the end: two        *)
(* submissions that both got as far wait for each other, and the database  *)
(* aborts one of them.                                                     *)
(*                                                                         *)
(* Source: routes/attestation_routes.rs, attestation.rs,                   *)
(* routes/nodes_models.rs (register_node), the CLI's auth.rs, vault.rs.    *)
(***************************************************************************)
EXTENDS Naturals, FiniteSets

CONSTANTS
  Attempt,         \* runs of `auth attest', each with its key and challenge
  Handler,         \* submissions the coordinator handles at a time
  NoAttempt

VARIABLES
  instance_up,     \* the model instance is published
  challenge,       \* challenge[a]: "none", "pending", "verified", "rejected", "expired"
  challenge_over,  \* challenge[a] has reached its expires_at
  verdicts,        \* verdicts[a]: reports stored for the challenge
  node_report,     \* the attempt whose report the node holds, or NoAttempt
  trust_over,      \* that report has expired
  submission,      \* submission[h]: the challenge it names and where it stands
  attest,          \* attest[a]: where the command stands
  key_record       \* the vault's key: its attempt, and whether it is verified

vars == <<instance_up, challenge, challenge_over, verdicts, node_report, trust_over,
          submission, attest, key_record>>
rows == <<challenge, challenge_over, verdicts>>
node_row == <<node_report, trust_over>>

NoKeyRecord == [attempt |-> NoAttempt, verified |-> FALSE]
Unused == [of |-> NoAttempt, pc |-> "idle", fresh |-> FALSE]

\* Submissions that hold the challenge's row, and those that hold node and
\* instance FOR SHARE.
Holding(a) == {h \in Handler : /\ submission[h].of = a
                               /\ submission[h].pc \in {"locked", "verifying", "accepted", "refused"}}
Sharing == {h \in Handler : submission[h].pc \in {"verifying", "accepted", "refused"}}

Moves(h, pc) == submission' = [submission EXCEPT ![h].pc = pc]

-----------------------------------------------------------------------------
\* attest: the worker runs, its model and policy are as published, and the
\* runtime inside the hardware makes a key.
PrepareKey(a) ==
  /\ attest[a] = "idle"
  /\ attest' = [attest EXCEPT ![a] = "prepared"]
  /\ UNCHANGED <<instance_up, rows, node_row, submission, key_record>>

\* create_attestation_challenge: only for a published instance; the account's
\* overdue challenges are expired on the way.
RequestChallenge(a) ==
  /\ attest[a] = "prepared" /\ instance_up
  /\ \A b \in Attempt : challenge_over[b] => Holding(b) = {}
  /\ attest' = [attest EXCEPT ![a] = "challenged"]
  /\ challenge' = [b \in Attempt |->
       CASE b = a -> "pending"
         [] challenge[b] = "pending" /\ challenge_over[b] -> "expired"
         [] OTHER -> challenge[b]]
  /\ UNCHANGED <<instance_up, challenge_over, verdicts, node_row, submission, key_record>>

ChallengeOver(a) ==
  /\ challenge[a] = "pending" /\ ~ challenge_over[a]
  /\ challenge_over' = [challenge_over EXCEPT ![a] = TRUE]
  /\ UNCHANGED <<instance_up, challenge, verdicts, node_row, submission, attest, key_record>>

\* The command checks the answer against its own REPORTDATA and stores the key
\* as pending, in the one place the vault has for it.
StorePendingKey(a) ==
  /\ attest[a] = "challenged"
  /\ attest' = [attest EXCEPT ![a] = "stored"]
  /\ key_record' = [attempt |-> a, verified |-> FALSE]
  /\ UNCHANGED <<instance_up, rows, node_row, submission>>

\* The hardware gives no evidence: the key is removed, whichever it is.
EvidenceFails(a) ==
  /\ attest[a] = "stored"
  /\ attest' = [attest EXCEPT ![a] = "failed"]
  /\ key_record' = NoKeyRecord
  /\ UNCHANGED <<instance_up, rows, node_row, submission>>

-----------------------------------------------------------------------------
(***************************************************************************)
(* submit_attestation.  A request may arrive twice.                        *)
(***************************************************************************)
\* The time is read before the challenge's row is locked.
Submit(a, h) ==
  /\ attest[a] \in {"stored", "submitted"} /\ submission[h] = Unused
  /\ attest' = [attest EXCEPT ![a] = "submitted"]
  /\ submission' = [submission EXCEPT ![h] =
       [of |-> a, pc |-> "begun", fresh |-> ~ challenge_over[a]]]
  /\ UNCHANGED <<instance_up, rows, node_row, key_record>>

\* Mutant of LockChallenge: a challenge that was consumed is taken again.
LockAnyChallenge(h) ==
  LET a == submission[h].of IN
  /\ submission[h].pc = "begun" /\ Holding(a) = {}
  /\ Moves(h, "locked")
  /\ UNCHANGED <<instance_up, rows, node_row, attest, key_record>>

\* A challenge that is not pending was consumed: the replay is refused.
LockChallenge(h) ==
  LET a == submission[h].of IN
  /\ submission[h].pc = "begun" /\ Holding(a) = {}
  /\ Moves(h, IF challenge[a] = "pending" THEN "locked" ELSE "failed")
  /\ UNCHANGED <<instance_up, rows, node_row, attest, key_record>>

\* The resources are locked FOR SHARE and compared with the challenge.  An
\* expired challenge or a changed resource is refused without the verifier.
ShareResources(h) ==
  /\ submission[h].pc = "locked"
  /\ Moves(h, IF submission[h].fresh /\ instance_up THEN "verifying" ELSE "refused")
  /\ UNCHANGED <<instance_up, rows, node_row, attest, key_record>>

\* evaluate_claims: every conclusion of the verifier is required.
Conclusion == {"report_data", "measurement", "signature", "chain", "tcb", "collateral", "verdict"}
EvaluateClaims(claims) == claims = Conclusion

\* communicate_bounded and parse_adapter_output: the verifier's claims, or none
\* from one that fails, is late, says too much or answers out of form.
Claims == {Conclusion \ {c} : c \in Conclusion} \cup {Conclusion}
Output == Claims \cup {{}}

\* ExternalHardwareEvidenceVerifier::verify checks the program and runs it.
Verify(h) ==
  /\ submission[h].pc = "verifying"
  /\ \E claims \in Output : Moves(h, IF EvaluateClaims(claims) THEN "accepted" ELSE "refused")
  /\ UNCHANGED <<instance_up, rows, node_row, attest, key_record>>

\* The report of a refused submission; the challenge is consumed all the same.
CommitRefusal(h) ==
  LET a == submission[h].of IN
  /\ submission[h].pc = "refused"
  /\ verdicts' = [verdicts EXCEPT ![a] = @ + 1]
  /\ challenge' = [challenge EXCEPT ![a] = IF submission[h].fresh THEN "rejected" ELSE "expired"]
  /\ Moves(h, "failed")
  /\ UNCHANGED <<instance_up, challenge_over, node_row, attest, key_record>>

\* The report of an accepted one.  Updating the node waits for every other
\* submission that shares it.
CommitReport(h) ==
  LET a == submission[h].of IN
  /\ submission[h].pc = "accepted" /\ Sharing = {h}
  /\ verdicts' = [verdicts EXCEPT ![a] = @ + 1]
  /\ challenge' = [challenge EXCEPT ![a] = "verified"]
  /\ node_report' = a /\ trust_over' = FALSE
  /\ Moves(h, "reported")
  /\ UNCHANGED <<instance_up, challenge_over, attest, key_record>>

\* Two submissions that wait for each other: the database rolls one back, and
\* its challenge stays pending.  A lost connection does the same.
Aborted(h) ==
  /\ submission[h].pc \in {"locked", "verifying", "accepted", "refused"}
  /\ Moves(h, "failed")
  /\ UNCHANGED <<instance_up, rows, node_row, attest, key_record>>

\* Mutant of Answer: the key is marked before the answer is checked.
AnswerUnchecked(a, h) ==
  /\ submission[h].of = a /\ submission[h].pc \in {"reported", "failed"}
  /\ submission' = [submission EXCEPT ![h] = Unused]
  /\ IF attest[a] # "submitted" THEN UNCHANGED <<attest, key_record>>
     ELSE /\ attest' = [attest EXCEPT ![a] = "verified"]
          /\ key_record' = [attempt |-> a, verified |-> TRUE]
  /\ UNCHANGED <<instance_up, rows, node_row>>

\* The command marks its record verified and stores it again, or removes the
\* key the vault holds; a lost answer counts as a failure.  Later answers find
\* nobody.
Answer(a, h) ==
  /\ submission[h].of = a /\ submission[h].pc \in {"reported", "failed"}
  /\ submission' = [submission EXCEPT ![h] = Unused]
  /\ IF attest[a] # "submitted" THEN UNCHANGED <<attest, key_record>>
     ELSE \/ /\ submission[h].pc = "reported"
             /\ attest' = [attest EXCEPT ![a] = "verified"]
             /\ key_record' = [attempt |-> a, verified |-> TRUE]
          \/ /\ attest' = [attest EXCEPT ![a] = "failed"]
             /\ key_record' = NoKeyRecord
  /\ UNCHANGED <<instance_up, rows, node_row>>

-----------------------------------------------------------------------------
\* Mutant of Unpublish: it does not wait for the row.
UnpublishUnlocked ==
  /\ instance_up' = ~ instance_up
  /\ UNCHANGED <<rows, node_row, submission, attest, key_record>>

\* unpublish and publish write the instance's row.
Unpublish ==
  /\ Sharing = {}
  /\ instance_up' = ~ instance_up
  /\ UNCHANGED <<rows, node_row, submission, attest, key_record>>

TrustOver ==
  /\ node_report # NoAttempt /\ ~ trust_over
  /\ trust_over' = TRUE
  /\ UNCHANGED <<instance_up, rows, node_report, submission, attest, key_record>>

\* register_node keeps a report that is still good and drops one that is not.
RegisterNode ==
  /\ Sharing = {} /\ trust_over
  /\ node_report' = NoAttempt /\ trust_over' = FALSE
  /\ UNCHANGED <<instance_up, rows, submission, attest, key_record>>

Init ==
  /\ instance_up = TRUE
  /\ challenge = [a \in Attempt |-> "none"] /\ challenge_over = [a \in Attempt |-> FALSE]
  /\ verdicts = [a \in Attempt |-> 0]
  /\ node_report = NoAttempt /\ trust_over = FALSE
  /\ submission = [h \in Handler |-> Unused]
  /\ attest = [a \in Attempt |-> "idle"]
  /\ key_record = NoKeyRecord

Next ==
  \/ Unpublish \/ TrustOver \/ RegisterNode
  \/ \E a \in Attempt : PrepareKey(a) \/ RequestChallenge(a) \/ ChallengeOver(a)
                        \/ StorePendingKey(a) \/ EvidenceFails(a)
  \/ \E a \in Attempt, h \in Handler : Submit(a, h) \/ Answer(a, h)
  \/ \E h \in Handler : LockChallenge(h) \/ ShareResources(h) \/ Verify(h) \/ CommitRefusal(h)
                        \/ CommitReport(h) \/ Aborted(h)

Spec == Init /\ [][Next]_vars

-----------------------------------------------------------------------------
\* The values of the variables are of their kinds.
TypeOK ==
  /\ challenge \in [Attempt -> {"none", "pending", "verified", "rejected", "expired"}]
  /\ node_report \in Attempt \cup {NoAttempt}
  /\ attest \in [Attempt -> {"idle", "prepared", "challenged", "stored", "submitted", "verified", "failed"}]
  /\ key_record \in [attempt : Attempt \cup {NoAttempt}, verified : BOOLEAN]
  /\ {instance_up, trust_over} \subseteq BOOLEAN

\* However submissions of a challenge race, it gets one report: evidence is
\* never judged twice.
OneVerdict == \A a \in Attempt : verdicts[a] <= 1

\* A node becomes trusted only while the instance it was attested with is
\* published, although the verifier may take long.
TrustedWhilePublished ==
  [][(node_report' # node_report /\ node_report' # NoAttempt) => instance_up]_vars

\* A key that the vault calls verified is the key of a verified report.
VerifiedKeyReported == key_record.verified => challenge[key_record.attempt] = "verified"
=============================================================================
