------------------------------ MODULE RateLimit ------------------------------
(***************************************************************************)
(* The rate limiter in front of the API: one table of fixed windows, keyed *)
(* by client address and by credential.  A request reads the time, waits   *)
(* for the table's lock, and is charged to all of its keys or to none.     *)
(* The table is bounded: a new key in a full table takes the place of the  *)
(* oldest window, and the map has no order among equally old ones.         *)
(*                                                                         *)
(* Time is in ticks of which RATE_WINDOW is Window; nobody waits longer    *)
(* for the lock than MaxWait.                                              *)
(*                                                                         *)
(* Source: crates/mindone-coordinator/src/lib.rs (GlobalRateLimiter,       *)
(* enforce_rate_limit, client_rate_key).                                   *)
(***************************************************************************)
EXTENDS Integers, Sequences, FiniteSets

CONSTANTS
  Handler,     \* requests under way
  Peer,        \* addresses that connect
  Proxies,     \* trusted_proxy_ips
  Forwarded,   \* addresses in CF-Connecting-IP
  Token,       \* credentials
  Limit,       \* requests per window
  Burst,       \* AUTHENTICATED_IP_BURST_MULTIPLIER
  Window, MaxBuckets, MaxWait,
  MaxTime, MaxAdmitted,   \* bounds of the instance
  Nothing

VARIABLES
  clock,
  windows,     \* windows[key]: when it started and how many it has counted
  arriving,    \* arriving[h]: its time and limits while it waits for the lock
  admitted,    \* history: the requests let through
  refusal,     \* history: the last request refused
  evicted      \* history: keys whose window made room for another

vars == <<clock, windows, arriving, admitted, refusal, evicted>>

-----------------------------------------------------------------------------
\* client_rate_key: the header counts only from an exact trusted peer.
ClientRateKey(peer, header) ==
  IF peer \in Proxies /\ header # Nothing THEN header ELSE peer

\* request_limits: a credential shares its client's larger allowance.
RequestLimits(client, token) ==
  IF token = Nothing THEN <<[key |-> client, limit |-> Limit]>>
  ELSE <<[key |-> client, limit |-> Limit * Burst], [key |-> token, limit |-> Limit]>>

Arrive(h, peer, header, token) ==
  /\ arriving[h] = Nothing
  /\ Len(admitted) + Cardinality({x \in Handler : arriving[x] # Nothing}) < MaxAdmitted
  /\ arriving' = [arriving EXCEPT ![h] =
       [now |-> clock, limits |-> RequestLimits(ClientRateKey(peer, header), token)]]
  /\ UNCHANGED <<clock, windows, admitted, refusal, evicted>>

-----------------------------------------------------------------------------
\* Mutant of Retained: a window lasts one tick longer.
RetainedLate(now) ==
  [k \in {x \in DOMAIN windows : now <= windows[x].started + Window} |-> windows[k]]

\* windows.retain: a window that started after `now' is of age zero.
Retained(now) ==
  [k \in {x \in DOMAIN windows : now < windows[x].started + Window} |-> windows[k]]

Full(table, limits) ==
  \E i \in DOMAIN limits :
    /\ limits[i].key \in DOMAIN table
    /\ table[limits[i].key].count >= limits[i].limit

Oldest(table) ==
  {k \in DOMAIN table : \A x \in DOMAIN table : table[k].started <= table[x].started}

Without(table, k) == [x \in DOMAIN table \ {k} |-> table[x]]

Counted(table, now, key) ==
  [x \in DOMAIN table \cup {key} |->
     IF x # key THEN table[x]
     ELSE IF key \in DOMAIN table THEN [table[key] EXCEPT !.count = @ + 1]
     ELSE [started |-> now, count |-> 1]]

\* What may be left when one key is charged, and which windows made room so far.
Charged(left, now, key) ==
  IF key \notin DOMAIN left.table /\ Cardinality(DOMAIN left.table) >= MaxBuckets
  THEN {[table |-> Counted(Without(left.table, k), now, key), gone |-> left.gone \cup {k}]
        : k \in Oldest(left.table)}
  ELSE {[table |-> Counted(left.table, now, key), gone |-> left.gone]}

\* The keys one after the other: the client's, and the credential's if there is one.
ChargedAll(left, now, limits) ==
  IF Len(limits) = 1 THEN Charged(left, now, limits[1].key)
  ELSE UNION {Charged(one, now, limits[2].key) : one \in Charged(left, now, limits[1].key)}

\* GlobalRateLimiter::allow, under the lock, and enforce_rate_limit around it.
Allow(h) ==
  LET now == arriving[h].now
      limits == arriving[h].limits
      table == Retained(now)
  IN /\ arriving[h] # Nothing
     /\ arriving' = [arriving EXCEPT ![h] = Nothing]
     /\ IF Full(table, limits)
          THEN /\ windows' = table
               /\ refusal' = [now |-> now, limits |-> limits, seen |-> Len(admitted)]
               /\ UNCHANGED <<admitted, evicted>>
          ELSE /\ \E left \in ChargedAll([table |-> table, gone |-> evicted], now, limits) :
                    windows' = left.table /\ evicted' = left.gone
               /\ admitted' = Append(admitted, [now |-> now, limits |-> limits])
               /\ UNCHANGED refusal
     /\ UNCHANGED clock

Tick ==
  /\ clock < MaxTime
  /\ \A h \in Handler : arriving[h] # Nothing => clock < arriving[h].now + MaxWait
  /\ clock' = clock + 1
  /\ UNCHANGED <<windows, arriving, admitted, refusal, evicted>>

-----------------------------------------------------------------------------
Init ==
  /\ clock = 0 /\ windows = << >> /\ arriving = [h \in Handler |-> Nothing]
  /\ admitted = <<>> /\ refusal = Nothing /\ evicted = {}

Next ==
  \/ \E h \in Handler :
       \/ \E peer \in Peer, header \in Forwarded \cup {Nothing}, token \in Token \cup {Nothing} :
            Arrive(h, peer, header, token)
       \/ Allow(h)
  \/ Tick

Spec == Init /\ [][Next]_vars

-----------------------------------------------------------------------------
Pays(request, key, limit) ==
  \E x \in DOMAIN request.limits :
    request.limits[x].key = key /\ request.limits[x].limit <= limit

\* The requests among the first n let through that key paid for under a limit
\* of at most `limit', and that came in the `length' ticks from time t on.
Paid(key, limit, t, length, n) ==
  {i \in 1 .. n : /\ Pays(admitted[i], key, limit)
                  /\ t <= admitted[i].now /\ admitted[i].now < t + length}

\* Whatever order the waiting requests get the lock in: no client or credential
\* has more than two windows' worth let through in any stretch of a window's
\* length, less the waits for the lock at its ends, unless its window had to make
\* room for another key; nobody is refused who has not used the whole allowance
\* in the last window, give or take those waits; and the table stays bounded.
LimitsHold ==
  /\ \A key \in (Peer \cup Forwarded \cup Token) \ evicted,
       limit \in {Limit, Limit * Burst}, t \in 0 .. clock :
       Cardinality(Paid(key, limit, t, Window + 1 - 2 * MaxWait, Len(admitted))) <= 2 * limit
  /\ refusal # Nothing =>
       \E x \in DOMAIN refusal.limits, t \in 0 .. refusal.now :
         LET l == refusal.limits[x] IN
         /\ refusal.now < t + Window + MaxWait
         /\ Cardinality(Paid(l.key, Limit * Burst, t, Window + 2 * MaxWait, refusal.seen)) >= l.limit
  /\ Cardinality(DOMAIN windows) <= MaxBuckets
=============================================================================
