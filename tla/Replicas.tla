------------------------------ MODULE Replicas ------------------------------
(***************************************************************************)
(* Coordinator processes on one database: how each starts, and what it may *)
(* do once it serves.  The first one to start binds the key that protects  *)
(* Standard jobs at rest, the first one with a private catalog or its      *)
(* budget binds the key of the private challenges; whoever starts later    *)
(* must have the same keys.                                                *)
(*                                                                         *)
(* The preparation of private challenges runs SERIALIZABLE and begins with *)
(* the statement that waits for an advisory lock: its snapshot is as old   *)
(* as that request, so BeginPrepare reads and FinishPrepare decides.  A    *)
(* process may be stopped or killed at any time and started again with     *)
(* another configuration.                                                  *)
(*                                                                         *)
(* Source: crates/mindone-coordinator/src/main.rs, lib.rs, db.rs,          *)
(* config.rs, standard_data.rs, routes/evaluations.rs.                     *)
(***************************************************************************)
EXTENDS Naturals

CONSTANTS
  Replica,
  Config,     \* what may be configured: [std, hmac, budget]
  StoredJob,  \* Standard jobs
  Legacy,     \* those that were stored before rows were protected
  Hidden,     \* ids of hidden challenges
  NoKey

VARIABLES
  schema,      \* the migrations of this program are applied
  std_state,   \* standard_data_key_state
  hmac_state,  \* private_evaluation_hmac_key_state
  stored,      \* stored[j]: absent, plain, or the key its columns are under
  hidden_row,  \* hidden_row[c]: key is NoKey for a public canary
  catalog_on,  \* the private catalog can be loaded
  replica      \* replica[r]: where it is, its configuration, its capability

vars == <<schema, std_state, hmac_state, stored, hidden_row, catalog_on, replica>>

Down == [at |-> "down"]

Serving(r) == replica[r].at = "serving"
At(r, step) == replica' = [replica EXCEPT ![r].at = step]
Fails(r) == replica' = [replica EXCEPT ![r] = Down]

-----------------------------------------------------------------------------
(***************************************************************************)
(* Startup                                                                 *)
(***************************************************************************)
\* Config::from_env: no secret serves two purposes.
FromEnv(c) == c.std # c.hmac

Configure(r, c) ==
  /\ replica[r] = Down /\ FromEnv(c)
  /\ replica' = [replica EXCEPT ![r] = [at |-> "configured", config |-> c, security |-> NoKey]]
  /\ UNCHANGED <<schema, std_state, hmac_state, stored, hidden_row, catalog_on>>

\* migrate_legacy_rows: the key is bound or compared, and every row that is not
\* protected yet is, in one transaction under an advisory lock.
KeyAccepted(key) == std_state \in {NoKey, key}

Protected(key) == [j \in StoredJob |-> IF stored[j] = "plain" THEN key ELSE stored[j]]

\* database-migrate, by the owner of the database: the schema, then the rows;
\* a wrong key leaves the new schema behind.
DatabaseMigrate(c) ==
  /\ FromEnv(c)
  /\ schema' = TRUE
  /\ IF KeyAccepted(c.std) THEN std_state' = c.std /\ stored' = Protected(c.std)
                           ELSE UNCHANGED <<std_state, stored>>
  /\ UNCHANGED <<hmac_state, hidden_row, catalog_on, replica>>

\* prepare_runtime: verify_runtime_schema, then the rows.  Operator commands
\* begin the same way.
PrepareRuntime(r) ==
  /\ replica[r].at = "configured"
  /\ IF schema /\ KeyAccepted(replica[r].config.std)
       THEN /\ std_state' = replica[r].config.std
            /\ stored' = Protected(replica[r].config.std)
            /\ At(r, "prepared")
       ELSE Fails(r) /\ UNCHANGED <<std_state, stored>>
  /\ UNCHANGED <<schema, hmac_state, hidden_row, catalog_on>>

PrivateRows == \E c \in Hidden : hidden_row[c].key # NoKey

\* prepare_private_evaluation_runtime: the catalog is read before the
\* transaction, the key state and the existence of private rows in it.
BeginPrepare(r) ==
  /\ replica[r].at = "prepared"
  /\ replica' = [replica EXCEPT ![r] =
       [at |-> "preparing", config |-> @.config, security |-> NoKey,
        saw |-> [key |-> hmac_state, rows |-> PrivateRows, catalog |-> catalog_on]]]
  /\ UNCHANGED <<schema, std_state, hmac_state, stored, hidden_row, catalog_on>>

\* Mutant of Decide: an existing key state is not compared.
DecideUncompared(c, saw) ==
  IF c.hmac = NoKey
    THEN IF saw.catalog \/ saw.rows \/ saw.key # NoKey THEN "error" ELSE "disabled"
  ELSE IF saw.catalog /\ ~ c.budget THEN "error"
  ELSE IF saw.key # NoKey THEN "verified"
  ELSE IF saw.rows THEN "error"
  ELSE IF saw.catalog \/ c.budget THEN "initialize" ELSE "disabled"

\* decide_private_hmac_key_state
Decide(c, saw) ==
  IF c.hmac = NoKey
    THEN IF saw.catalog \/ saw.rows \/ saw.key # NoKey THEN "error" ELSE "disabled"
  ELSE IF saw.catalog /\ ~ c.budget THEN "error"
  ELSE IF saw.key # NoKey THEN (IF saw.key = c.hmac THEN "verified" ELSE "error")
  ELSE IF saw.rows THEN "error"
  ELSE IF saw.catalog \/ c.budget THEN "initialize" ELSE "disabled"

\* INSERT ... ON CONFLICT DO NOTHING: a state that was written after the
\* snapshot ends the start.  AppState gets the capability after the commit.
FinishPrepare(r) ==
  LET c == replica[r].config
      decision == Decide(c, replica[r].saw)
      conflict == decision = "initialize" /\ hmac_state # NoKey
  IN /\ replica[r].at = "preparing"
     /\ hmac_state' = IF decision = "initialize" /\ ~ conflict THEN c.hmac ELSE hmac_state
     /\ IF decision = "error" \/ conflict THEN Fails(r)
        ELSE replica' = [replica EXCEPT ![r] =
               [at |-> "serving", config |-> c,
                security |-> IF decision = "disabled" THEN NoKey ELSE c.hmac]]
     /\ UNCHANGED <<schema, std_state, stored, hidden_row, catalog_on>>

\* SIGTERM, a failed bind, or a crash.
Stops(r) ==
  /\ replica[r] # Down
  /\ Fails(r)
  /\ UNCHANGED <<schema, std_state, hmac_state, stored, hidden_row, catalog_on>>

-----------------------------------------------------------------------------
(***************************************************************************)
(* Service                                                                 *)
(***************************************************************************)
\* create_job stores the payload with encrypt_for_storage.
StoreJob(r, j) ==
  /\ Serving(r) /\ stored[j] = "absent"
  /\ stored' = [stored EXCEPT ![j] = replica[r].config.std]
  /\ UNCHANGED <<schema, std_state, hmac_state, hidden_row, catalog_on, replica>>

\* private_evaluation_issuance_security: the capability and a budget, and the
\* catalog as it is when the node claims.
MayIssue(r) == replica[r].security # NoKey /\ replica[r].config.budget /\ catalog_on

IssueHidden(r, c) ==
  /\ Serving(r) /\ hidden_row[c].status = "none"
  /\ hidden_row' = [hidden_row EXCEPT
       ![c] = [status |-> "leased", key |-> IF MayIssue(r) THEN replica[r].security ELSE NoKey]]
  /\ UNCHANGED <<schema, std_state, hmac_state, stored, catalog_on, replica>>

\* authorize_terminal_row: whoever ends a private challenge has the capability.
Authorized(r, c) == hidden_row[c].key = NoKey \/ replica[r].security # NoKey

Ended(cs) ==
  [c \in Hidden |-> IF c \in cs THEN [hidden_row[c] EXCEPT !.status = "ended"] ELSE hidden_row[c]]

\* A result or a failure, judged with the key of the process that gets it.
SubmitHidden(r, c) ==
  /\ Serving(r) /\ hidden_row[c].status = "leased" /\ Authorized(r, c)
  /\ hidden_row' = Ended({c})
  /\ UNCHANGED <<schema, std_state, hmac_state, stored, catalog_on, replica>>

HiddenLeaseOver(c) ==
  /\ hidden_row[c].status = "leased"
  /\ hidden_row' = [hidden_row EXCEPT ![c].status = "over"]
  /\ UNCHANGED <<schema, std_state, hmac_state, stored, catalog_on, replica>>

Overdue == {c \in Hidden : hidden_row[c].status = "over"}

\* Mutant of SweepExpired: the entry point for callers without the capability,
\* which leaves the private challenges out.
SweepLegacy(r) ==
  LET legacy == {c \in Overdue : hidden_row[c].key = NoKey} IN
  /\ Serving(r) /\ legacy # {}
  /\ hidden_row' = Ended(legacy)
  /\ UNCHANGED <<schema, std_state, hmac_state, stored, catalog_on, replica>>

\* run_hidden_expiry_sweeper: one transaction ends all that is overdue; a
\* process without the capability that meets a private row rolls all of it back.
SweepExpired(r) ==
  /\ Serving(r) /\ Overdue # {}
  /\ \A c \in Overdue : Authorized(r, c)
  /\ hidden_row' = Ended(Overdue)
  /\ UNCHANGED <<schema, std_state, hmac_state, stored, catalog_on, replica>>

\* The operator installs or removes a catalog, or its window ends.
CatalogSwitches ==
  /\ catalog_on' = ~ catalog_on
  /\ UNCHANGED <<schema, std_state, hmac_state, stored, hidden_row, replica>>

-----------------------------------------------------------------------------
Init ==
  /\ schema = FALSE /\ std_state = NoKey /\ hmac_state = NoKey
  /\ stored = [j \in StoredJob |-> IF j \in Legacy THEN "plain" ELSE "absent"]
  /\ hidden_row = [c \in Hidden |-> [status |-> "none", key |-> NoKey]]
  /\ catalog_on = FALSE
  /\ replica = [r \in Replica |-> Down]

Next ==
  \/ \E c \in Config : DatabaseMigrate(c)
  \/ CatalogSwitches
  \/ \E c \in Hidden : HiddenLeaseOver(c)
  \/ \E r \in Replica :
       \/ \E c \in Config : Configure(r, c)
       \/ PrepareRuntime(r) \/ BeginPrepare(r) \/ FinishPrepare(r) \/ Stops(r)
       \/ \E j \in StoredJob : StoreJob(r, j)
       \/ \E c \in Hidden : IssueHidden(r, c) \/ SubmitHidden(r, c)
       \/ SweepExpired(r)

Spec == Init /\ [][Next]_vars

\* The sweeper's timer fires every five seconds.
Fairness == \A r \in Replica : WF_vars(SweepExpired(r))

-----------------------------------------------------------------------------
\* However processes start beside each other, are stopped and configured anew,
\* the ones that serve agree on their keys with the database and with every
\* row: whatever one has stored the others can read and judge.  No row is left
\* unprotected once somebody serves, and the two keys differ.
ReplicasAgree ==
  /\ \A r \in Replica : Serving(r) =>
       /\ replica[r].config.std = std_state
       /\ replica[r].security \in {NoKey, hmac_state}
       /\ \A j \in StoredJob : stored[j] \in {"absent", std_state}
  /\ \A c \in Hidden : hidden_row[c].key \in {NoKey, hmac_state}
  /\ std_state # NoKey => std_state # hmac_state

\* A hidden challenge whose lease ran out ends although some process may lack
\* the capability to end it, as long as one that has it goes on serving.
EndsWith(r, c) ==
  <>[](Serving(r) /\ replica[r].security # NoKey) => ((c \in Overdue) ~> (c \notin Overdue))

OverdueEnds == \A r \in Replica, c \in Hidden : EndsWith(r, c)
=============================================================================
