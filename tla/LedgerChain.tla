----------------------------- MODULE LedgerChain -----------------------------
(***************************************************************************)
(* The hash-chained ledgers and the transactions that extend them: the     *)
(* settlement of a job, an operator's grant, an operator's release from    *)
(* the reserve, and the public report that reads them.                     *)
(*                                                                         *)
(* A transaction takes row and advisory locks one at a time and writes at  *)
(* its commit; what it wrote before is seen by nobody.  A ledger entry is  *)
(* hashed together with its idempotency key, which is unique in a ledger:  *)
(* the key stands for the hash.  Weights are tenths.                       *)
(*                                                                         *)
(* Source: crates/mindone-coordinator/src/settlement.rs, anti_abuse.rs,    *)
(* operator_grant.rs, routes/governance.rs, crates/mindone-accounting/src/ *)
(* ledger.rs, reserve.rs, migrations/0024_authoritative_ledger_heads.sql.  *)
(***************************************************************************)
EXTENDS Settlement, Sequences, FiniteSets, FiniteSetsExt

CONSTANTS
  User,             \* the users, in the order of their ids (numbers)
  Command,          \* what is asked of the ledgers: settle a job, grant, release
  LedgerTx,
  InitialQuota,     \* every user's first grant
  MaxMicro,         \* the largest amount of an account
  ReciprocalBlock,  \* RECIPROCAL_BLOCK_REQUESTS
  Nobody

Quota(u) == <<"quota", u>>
Contribution(u) == <<"contribution", u>>
Reserve == <<"reserve">>
Account == {Quota(u) : u \in User} \cup {Contribution(u) : u \in User} \cup {Reserve}
\* A row lock on quota_accounts covers both balances of the user.
Row == {<<"account", u>> : u \in User} \cup {Reserve} \cup {<<"key", c.key>> : c \in Command}
RowOf(a) == IF a = Reserve THEN Reserve ELSE <<"account", a[2]>>
Genesis == <<"genesis", "">>
Opened == <<"opening", "">>

VARIABLES
  ledger,    \* ledger[a]: the entries of the account's ledger
  account,   \* account[a]: balance, head and count, kept by the insert triggers
  recorded,  \* the commands that were carried out, by key
  receipts,  \* the settled jobs, in the order of their commits
  ltx,       \* ltx[t]: the transaction's command and what it has read
  row_lock,  \* row_lock[r]: the transaction that holds it
  refused,   \* an insert was refused by its trigger
  report     \* the latest transparency report

vars == <<ledger, account, recorded, receipts, ltx, row_lock, refused, report>>
tables == <<ledger, account, recorded, receipts>>

LedgerIdle == [kind |-> "idle"]

SumOf(f, S) == MapThenSumSet(LAMBDA x : f[x], S)

-----------------------------------------------------------------------------
(***************************************************************************)
(* Entries                                                                 *)
(***************************************************************************)
\* LedgerEntry::new with the balance the caller has read.
LedgerEntry(key, delta, row) ==
  [key |-> key, delta |-> delta, before |-> row.balance, after |-> row.balance + delta,
   prev |-> row.head]

\* validate_fields: no empty movement but a contribution weighed to zero, no
\* negative balance, no overflow.  The direction of a kind holds by its amounts.
ValidFields(a, e) ==
  /\ e.delta # 0 \/ a[1] = "contribution"
  /\ e.before >= 0 /\ e.after \in 0 .. MaxMicro

\* mindone_advance_*_ledger_head: an entry extends the authoritative state of
\* its account, the next one of the transaction extends that one, or the insert
\* is refused.
Extends(row, e) == e.prev = row.head /\ e.before = row.balance /\ e.after = e.before + e.delta

Advanced(row, e) == [balance |-> e.after, head |-> e.key, count |-> row.count + 1]

AllExtend(row, entries) ==
  \A i \in DOMAIN entries :
    Extends(IF i = 1 THEN row ELSE Advanced(row, entries[i - 1]), entries[i])

\* The entries of one transaction, by account, and the triggers that advance
\* the accounts, up to the last of its entries.
Insert(new) ==
  LET last(a) == new[a][Len(new[a])] IN
  /\ ledger' = [a \in Account |-> IF a \in DOMAIN new THEN ledger[a] \o new[a] ELSE ledger[a]]
  /\ account' = [a \in Account |->
                  IF a \in DOMAIN new
                  THEN [balance |-> last(a).after, head |-> last(a).key,
                        count |-> account[a].count + Len(new[a])]
                  ELSE account[a]]

-----------------------------------------------------------------------------
(***************************************************************************)
(* What a settlement pays                                                  *)
(***************************************************************************)
Edges(consumer, node) ==
  Cardinality({i \in DOMAIN receipts :
                 receipts[i].consumer = consumer /\ receipts[i].node = node})

\* settlement_contribution_weight, for normal traffic, over the edges that
\* record_settled_edge counts: nothing for self-dealing, a tenth in a loop.
SettlementContributionWeight(consumer, node) ==
  IF consumer = node THEN 0
  ELSE IF Edges(consumer, node) >= ReciprocalBlock /\ Edges(node, consumer) >= ReciprocalBlock
  THEN 1 ELSE 10

Less(a, b) == IF a <= b THEN a ELSE b

\* The entries of complete_job: the consumer's deduction, the node's quota and
\* contribution, the reserve's share.  The node's balance is read after the
\* deduction: it is the next entry of a user that serves its own job.
SettlementEntries(c, saw, weight) ==
  LET deducted == LedgerEntry(<<c.key, "consumer">>, -UserDeduction(c.base, c.tier),
                              saw[Quota(c.consumer)])
      node_row == IF c.node = c.consumer THEN Advanced(saw[Quota(c.node)], deducted)
                  ELSE saw[Quota(c.node)]
      reward == LedgerEntry(<<c.key, "node-quota">>,
                            NodeSpendableQuota(c.base, c.tier, c.trust), node_row)
      points == (NodeContributionPoints(c.base, c.tier, c.trust) * Less(c.precreate, weight))
                  \div 10
  IN [a \in {Quota(c.consumer), Quota(c.node), Contribution(c.node), Reserve} |->
        CASE a = Reserve ->
               <<LedgerEntry(<<c.key, "reserve">>, ReserveInflow(c.base, c.tier, c.trust), saw[a])>>
          [] a = Contribution(c.node) ->
               <<LedgerEntry(<<c.key, "contribution">>, points, saw[a])>>
          [] a = Quota(c.consumer) /\ c.node = c.consumer -> <<deducted, reward>>
          [] a = Quota(c.consumer) /\ c.node # c.consumer -> <<deducted>>
          [] a = Quota(c.node) /\ c.node # c.consumer -> <<reward>>]

-----------------------------------------------------------------------------
(***************************************************************************)
(* Transactions and their locks                                            *)
(***************************************************************************)
\* Mutant of LockOrder: the accounts in the order of the call.
LockOrderOfCall(c) ==
  CASE c.kind = "settle" -> <<<<"key", c.key>>, <<"account", c.consumer>>,
                              <<"account", c.node>>, Reserve>>
    [] c.kind = "grant" -> <<<<"key", c.key>>, <<"account", c.user>>>>
    [] c.kind = "release" -> <<Reserve>>

\* complete_job: the job, lock_accounts in the order of the ids, the reserve;
\* grant_operator_quota: the key, the account; release_reserve: the reserve,
\* under which the key is looked up too.
LockOrder(c) ==
  CASE c.kind = "settle" ->
         LET low == Less(c.consumer, c.node)
             high == c.consumer + c.node - low
         IN <<<<"key", c.key>>, <<"account", low>>, <<"account", high>>, Reserve>>
    [] c.kind = "grant" -> <<<<"key", c.key>>, <<"account", c.user>>>>
    [] c.kind = "release" -> <<Reserve>>

Running(t) == ltx[t].kind # "idle"
AllLocked(t) == ltx[t].locked = Len(LockOrder(ltx[t].command))
Wants(t) == LockOrder(ltx[t].command)[ltx[t].locked + 1]
Waits(t) == Running(t) /\ ~AllLocked(t)

EndsTx(t) ==
  /\ ltx' = [ltx EXCEPT ![t] = LedgerIdle]
  /\ row_lock' = [r \in Row |-> IF row_lock[r] = t THEN Nobody ELSE row_lock[r]]

Requested(c) == {d \in recorded : d.key = c.key}

\* A retried or repeated request; validate_reserve_release_command and the
\* grant's validate.
Begin(t, c) ==
  /\ ~Running(t)
  /\ c.kind # "settle" => c.amount >= 1
  /\ ltx' = [ltx EXCEPT ![t] = [kind |-> "running", command |-> c, locked |-> 0,
                                weight |-> 10, saw |-> <<>>]]
  /\ UNCHANGED <<tables, row_lock, refused, report>>

\* The weight is read with the accounts locked, before the reserve is.
AccountsLocked(c, n) == c.kind = "settle" /\ n = 3

TakesLock(t) ==
  LET c == ltx[t].command
      n == ltx[t].locked + 1
  IN ltx' = [ltx EXCEPT ![t].locked = n,
               ![t].saw = [a \in DOMAIN @ \cup {b \in Account : RowOf(b) = Wants(t)} |->
                             IF RowOf(a) = Wants(t) THEN account[a] ELSE @[a]],
               ![t].weight = IF AccountsLocked(c, n)
                             THEN SettlementContributionWeight(c.consumer, c.node) ELSE @]

\* Mutant of Lock: the row is read without FOR UPDATE.
ReadRow(t) ==
  /\ Waits(t)
  /\ ltx[t].locked >= 1 => Requested(ltx[t].command) = {}
  /\ TakesLock(t)
  /\ UNCHANGED <<tables, row_lock, refused, report>>

\* SELECT ... FOR UPDATE, or an advisory lock.
Lock(t) ==
  /\ Waits(t)
  /\ ltx[t].locked >= 1 => Requested(ltx[t].command) = {}
  /\ row_lock[Wants(t)] \in {Nobody, t}
  /\ row_lock' = [row_lock EXCEPT ![Wants(t)] = t]
  /\ TakesLock(t)
  /\ UNCHANGED <<tables, refused, report>>

\* The key was used: the same request is answered from its record, another one
\* is a conflict.  Neither writes.
AnswerFromRecord(t) ==
  /\ Running(t) /\ ltx[t].locked >= 1 /\ Requested(ltx[t].command) # {}
  /\ EndsTx(t)
  /\ UNCHANGED <<tables, refused, report>>

Ready(t) == Running(t) /\ AllLocked(t) /\ Requested(ltx[t].command) = {}

\* The entries are validated before they are inserted: an invalid one is an
\* error of the request, one that extends nothing is refused by its trigger.
Writes(t, new) ==
  LET c == ltx[t].command
      valid == \A a \in DOMAIN new : \A i \in DOMAIN new[a] : ValidFields(a, new[a][i])
  IN IF valid /\ \A a \in DOMAIN new : AllExtend(account[a], new[a])
     THEN Insert(new) /\ recorded' = recorded \cup {c} /\ UNCHANGED refused
     ELSE UNCHANGED <<ledger, account, recorded>> /\ refused' = (refused \/ valid)

\* complete_job from its weights to its commit.
CommitSettlement(t) ==
  LET c == ltx[t].command
      weight == Less(c.precreate, ltx[t].weight)
  IN /\ Ready(t) /\ c.kind = "settle"
     /\ Writes(t, SettlementEntries(c, ltx[t].saw, ltx[t].weight))
     /\ receipts' = IF recorded' = recorded THEN receipts
                    ELSE Append(receipts,
                                [consumer |-> c.consumer, node |-> c.node, weight |-> weight,
                                 precreate |-> c.precreate,
                                 earned |-> NodeSpendableQuota(c.base, c.tier, c.trust),
                                 kept |-> ReserveInflow(c.base, c.tier, c.trust)])
     /\ EndsTx(t)
     /\ UNCHANGED report

\* release_reserve from its balance check: ReserveState::release, the entry and
\* the operator's audit row.
ReleaseReserve(t) ==
  LET c == ltx[t].command IN
  /\ Ready(t) /\ c.kind = "release"
  /\ Writes(t, [a \in {Reserve} |->
                  <<LedgerEntry(<<c.key, "release">>, -c.amount, ltx[t].saw[a])>>])
  /\ EndsTx(t)
  /\ UNCHANGED <<receipts, report>>

\* grant_operator_quota
GrantOperatorQuota(t) ==
  LET c == ltx[t].command IN
  /\ Ready(t) /\ c.kind = "grant"
  /\ Writes(t, [a \in {Quota(c.user)} |->
                  <<LedgerEntry(<<c.key, "grant">>, c.amount, ltx[t].saw[a])>>])
  /\ EndsTx(t)
  /\ UNCHANGED <<receipts, report>>

\* A lost connection, or another error of the transaction.
TxFails(t) ==
  /\ Running(t)
  /\ EndsTx(t)
  /\ UNCHANGED <<tables, refused, report>>

-----------------------------------------------------------------------------
(***************************************************************************)
(* transparency_report: one snapshot, several queries                      *)
(***************************************************************************)
Total(f) == SumOf(f, DOMAIN f)

Inflow(l) == [i \in DOMAIN l |-> IF l[i].delta > 0 THEN l[i].delta ELSE 0]
Outflow(l) == [i \in DOMAIN l |-> IF l[i].delta < 0 THEN -l[i].delta ELSE 0]
Earned(paid) == [i \in DOMAIN paid |-> paid[i].earned]
Kept(paid) == [i \in DOMAIN paid |-> paid[i].kept]

ReserveView ==
  [balance |-> account[Reserve].balance, inflow |-> Total(Inflow(ledger[Reserve])),
   outflow |-> Total(Outflow(ledger[Reserve]))]

\* REPEATABLE READ: the first query fixes what every later one sees.
BeginReport ==
  /\ report.at = "none"
  /\ report' = [at |-> "begun", rewards |-> Total(Earned(receipts)), reserve |-> ReserveView]
  /\ UNCHANGED <<tables, ltx, row_lock, refused>>

\* Mutant of FinishReport: every query sees what is committed when it runs.
FinishReportCommitted ==
  /\ report.at = "begun"
  /\ report' = [report EXCEPT !.at = "sent", !.reserve = ReserveView]
  /\ UNCHANGED <<tables, ltx, row_lock, refused>>

FinishReport ==
  /\ report.at = "begun"
  /\ report' = [report EXCEPT !.at = "sent"]
  /\ UNCHANGED <<tables, ltx, row_lock, refused>>

-----------------------------------------------------------------------------
Opening(u) == [key |-> Opened, delta |-> InitialQuota, before |-> 0,
               after |-> InitialQuota, prev |-> Genesis]

\* Users with a first grant.
Init ==
  /\ ledger = [a \in Account |-> IF a[1] = "quota" THEN <<Opening(a[2])>> ELSE <<>>]
  /\ account = [a \in Account |->
                  IF a[1] = "quota" THEN [balance |-> InitialQuota, head |-> Opened, count |-> 1]
                  ELSE [balance |-> 0, head |-> Genesis, count |-> 0]]
  /\ recorded = {} /\ receipts = <<>>
  /\ ltx = [t \in LedgerTx |-> LedgerIdle]
  /\ row_lock = [r \in Row |-> Nobody]
  /\ refused = FALSE
  /\ report = [at |-> "none"]

Next ==
  \/ \E t \in LedgerTx :
       \/ \E c \in Command : Begin(t, c)
       \/ Lock(t) \/ AnswerFromRecord(t)
       \/ CommitSettlement(t) \/ ReleaseReserve(t) \/ GrantOperatorQuota(t)
       \/ TxFails(t)
  \/ BeginReport \/ FinishReport

Spec == Init /\ [][Next]_vars

-----------------------------------------------------------------------------
\* An account's ledger leads from the opening to the account's row, entry by
\* entry, and no key occurs twice in it.
Chained(a) ==
  LET rows == [i \in 0 .. Len(ledger[a]) |->
                 IF i = 0 THEN [balance |-> 0, head |-> Genesis, count |-> 0]
                 ELSE [balance |-> ledger[a][i].after, head |-> ledger[a][i].key, count |-> i]]
  IN /\ \A i \in DOMAIN ledger[a] : Extends(rows[i - 1], ledger[a][i])
     /\ account[a] = rows[Len(ledger[a])]
     /\ \A i, j \in DOMAIN ledger[a] : ledger[a][i].key = ledger[a][j].key => i = j

\* Contributions are points, not money.
Money == {a \in Account : a[1] # "contribution"}
Done(kind) == {c \in recorded : c.kind = kind}
Amounts(kind) == SumOf([c \in Done(kind) |-> c.amount], Done(kind))

(***************************************************************************)
(* However settlements, grants and releases are interleaved, retried and   *)
(* repeated under the same key with other contents, every ledger stays a   *)
(* chain that ends at its account, a key is carried out once, and what the *)
(* users and the reserve hold together is what was granted less what was   *)
(* released.                                                               *)
(***************************************************************************)
LedgersBalance ==
  /\ \A a \in Account : Chained(a)
  /\ \A c, d \in recorded : c.key = d.key => c = d
  /\ SumOf([a \in Money |-> account[a].balance], Money)
       = InitialQuota * Cardinality(User) + Amounts("grant") - Amounts("release")

(***************************************************************************)
(* The locks suffice: no entry is ever built on a balance or a head that   *)
(* is stale when its trigger looks, and no transactions wait for each      *)
(* other in a circle, so no settlement fails because of another one.       *)
(***************************************************************************)
LocksSuffice ==
  /\ ~refused
  /\ \A stuck \in (SUBSET LedgerTx) \ {{}} :
       \E t \in stuck : Waits(t) => row_lock[Wants(t)] \notin stuck \ {t}

(***************************************************************************)
(* A contribution is weighed by every settlement that committed before it: *)
(* two users that serve each other cannot both settle at full weight by    *)
(* settling at the same time.                                              *)
(***************************************************************************)
LoopsWeighed ==
  \A i \in DOMAIN receipts :
    LET r == receipts[i]
        before(c, n) == Cardinality({j \in 1 .. i - 1 :
                                       receipts[j].consumer = c /\ receipts[j].node = n})
        loop == before(r.consumer, r.node) >= ReciprocalBlock
                  /\ before(r.node, r.consumer) >= ReciprocalBlock
    IN r.weight = IF r.consumer = r.node THEN 0
                  ELSE IF loop THEN Less(r.precreate, 1) ELSE r.precreate

(***************************************************************************)
(* The parts of a transparency report describe one moment: its rewards and *)
(* its reserve are those of the same settlements, and the reserve's        *)
(* balance is its inflow less its outflow.                                 *)
(***************************************************************************)
ReportConsistent ==
  report.at = "sent" =>
    /\ report.reserve.balance = report.reserve.inflow - report.reserve.outflow
    /\ \E n \in 0 .. Len(receipts) :
         /\ report.rewards = Total(Earned(SubSeq(receipts, 1, n)))
         /\ report.reserve.inflow = Total(Kept(SubSeq(receipts, 1, n)))
=============================================================================
