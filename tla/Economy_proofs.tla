--------------------------- MODULE Economy_proofs ---------------------------
(***************************************************************************)
(* Theorems about the hash-chained ledgers, hidden evaluations, the prices *)
(* of physical billing, the quality of models, the standing of nodes and   *)
(* routing, for every number of users, commands, transactions, nodes,      *)
(* accounts, catalog entries, models, statements, jobs and instances,      *)
(* every limit and every rate.                                             *)
(*                                                                         *)
(* Each invariant speaks of one part only; a part that does not run stays  *)
(* as it is, so it holds whichever part is in focus.                       *)
(***************************************************************************)
EXTENDS MCEconomy, FiniteSetsExt, SequenceTheorems, FunctionTheorems, FiniteSetTheorems,
  WellFoundedInduction, TLAPS

\* A step of the whole is a step of each part or leaves it alone.
LEMMA PartSteps ==
  ASSUME [Next]_vars
  PROVE  /\ [Hidden!Next]_hidden /\ [Prices!Next]_prices /\ [Models!Next]_models
         /\ [Honors!Next]_honors /\ [Routes!Next]_routing
  BY DEF Next, vars

-----------------------------------------------------------------------------
(***************************************************************************)
(* Numbers and sums.  Induction over a finite set is the choice of a least *)
(* subset that something is wrong with: a sum is taken element by element, *)
(* in the order CHOOSE gives, and these lemmas say it may be any order.    *)
(***************************************************************************)
\* A set of numbers has a least one.
LEMMA LeastNumber ==
  ASSUME NEW S \in SUBSET Nat, S # {}
  PROVE  \E m \in S : \A k \in S : m <= k
<1> DEFINE Less == {p \in Nat \X Nat : p[1] < p[2]}
<1>1. IsWellFoundedOn(Less, Nat)
  BY NatLessThanWellFounded DEF OpToRel
<1>2. \E m \in S : \A k \in S : ~ (<<k, m>> \in Less)
  BY <1>1, WFMin
<1>3. PICK m \in S : \A k \in S : ~ (<<k, m>> \in Less)
  BY <1>2
<1>4. ASSUME NEW k \in S PROVE m <= k
  <2>1. ~ (<<k, m>> \in Less) /\ k \in Nat /\ m \in Nat
    BY <1>3
  <2>2. <<k, m>> \in Nat \X Nat => ~ (<<k, m>>[1] < <<k, m>>[2])
    BY <2>1
  <2> QED
    BY <2>1, <2>2
<1> QED
  BY <1>4

\* A sum is taken element by element, in the order CHOOSE gives.
SumOf(f, S) == MapThenSumSet(LAMBDA x : f[x], S)
\* The element CHOOSE takes first.
Pick(s) == CHOOSE x \in s : TRUE
\* A partial sum at one subset.
SumStep(f, g, s) == g[s] = IF s = {} THEN 0 ELSE f[Pick(s)] + g[s \ {Pick(s)}]

\* The recursion of MapThenSumSet, for the subsets of one set.
SumBody(f, T, g) ==
  [s \in SUBSET T |-> IF s = {} THEN 0 ELSE f[Pick(s)] + g[s \ {Pick(s)}]]

\* There are partial sums of every finite set: by induction on the size of the subsets.
LEMMA SumsExist ==
  ASSUME NEW S, IsFiniteSet(S), NEW f
  PROVE  \E g : g = SumBody(f, S, g)
<1> DEFINE Upto(n) == \E g : \A s \in SUBSET S : Cardinality(s) <= n => SumStep(f, g, s)
           Bad == {n \in Nat : ~ Upto(n)}
<1>1. \A s \in SUBSET S : IsFiniteSet(s) /\ Cardinality(s) \in Nat /\ Cardinality(s) <= Cardinality(S)
                           /\ (s = {} <=> Cardinality(s) = 0)
  BY FS_Subset, FS_CardinalityType, FS_EmptySet
<1>2. \A s \in SUBSET S : s # {} =>
         /\ Pick(s) \in s /\ s \ {Pick(s)} \in SUBSET S
         /\ Cardinality(s \ {Pick(s)}) = Cardinality(s) - 1
  BY <1>1, FS_RemoveElement DEF Pick
<1>3. Upto(0)
  <2>1. \A s \in SUBSET S : Cardinality(s) <= 0 => SumStep(f, [t \in SUBSET S |-> 0], s)
    BY <1>1 DEF SumStep
  <2> QED
    BY <2>1
<1>4. ASSUME NEW n \in Nat, Upto(n) PROVE Upto(n + 1)
  <2>1. PICK g : \A s \in SUBSET S : Cardinality(s) <= n => SumStep(f, g, s)
    BY <1>4
  <2> DEFINE h == [s \in SUBSET S |-> IF Cardinality(s) <= n THEN g[s]
                                      ELSE f[Pick(s)] + g[s \ {Pick(s)}]]
  <2>2. ASSUME NEW s \in SUBSET S, Cardinality(s) <= n + 1 PROVE SumStep(f, h, s)
    <3>1. CASE s = {}
      BY <1>1, <2>1, <3>1 DEF SumStep
    <3>2. CASE s # {}
      <4>1. Cardinality(s \ {Pick(s)}) <= n
        BY <1>1, <1>2, <2>2, <3>2
      <4>2. h[s \ {Pick(s)}] = g[s \ {Pick(s)}]
        BY <1>2, <3>2, <4>1
      <4>3. h[s] = f[Pick(s)] + g[s \ {Pick(s)}]
        BY <2>1, <3>2 DEF SumStep
      <4> QED
        BY <3>2, <4>2, <4>3 DEF SumStep
    <3> QED
      BY <3>1, <3>2
  <2> QED
    BY <2>2
<1>5. \A n \in Nat : Upto(n)
  <2> SUFFICES ASSUME Bad # {} PROVE FALSE
    OBVIOUS
  <2>1. PICK m \in Bad : \A k \in Bad : m <= k
    BY LeastNumber
  <2> HIDE DEF Upto
  <2>2. m \in Nat /\ ~ Upto(m) /\ m # 0
    BY <1>3
  <2>3. m - 1 \in Nat /\ Upto(m - 1)
    BY <2>1, <2>2
  <2>4. Upto((m - 1) + 1)
    BY <1>4, <2>3
  <2> QED
    BY <2>2, <2>4
<1>6. PICK g : \A s \in SUBSET S : Cardinality(s) <= Cardinality(S) => SumStep(f, g, s)
  BY <1>1, <1>5
<1> DEFINE h == [s \in SUBSET S |-> g[s]]
<1>7. \A s \in SUBSET S : h[s] = IF s = {} THEN 0 ELSE f[Pick(s)] + h[s \ {Pick(s)}]
  BY <1>1, <1>2, <1>6 DEF SumStep
<1>8. h = [s \in SUBSET S |-> IF s = {} THEN 0 ELSE f[Pick(s)] + h[s \ {Pick(s)}]]
  BY <1>7
<1> QED
  BY <1>8 DEF SumBody

\* Among the subsets of a finite set that something is wrong with, one has no
\* smaller one beside it.
LEMMA LeastSubset ==
  ASSUME NEW S, IsFiniteSet(S), NEW F \in SUBSET SUBSET S, F # {}
  PROVE  \E s \in F : IsFiniteSet(s) /\ \A x \in s : s \ {x} \notin F
<1> DEFINE Sizes == {Cardinality(s) : s \in F}
<1>1. \A s \in SUBSET S : IsFiniteSet(s) /\ Cardinality(s) \in Nat
  BY FS_Subset, FS_CardinalityType
<1>2. Sizes \in SUBSET Nat /\ Sizes # {}
  BY <1>1
<1>3. PICK m \in Sizes : \A k \in Sizes : m <= k
  <2> HIDE DEF Sizes
  <2> QED
    BY <1>2, LeastNumber
<1>4. PICK s \in F : Cardinality(s) = m
  OBVIOUS
<1>5. ASSUME NEW x \in s, s \ {x} \in F PROVE FALSE
  <2>1. Cardinality(s \ {x}) = Cardinality(s) - 1
    BY <1>1, FS_RemoveElement
  <2>2. m <= Cardinality(s \ {x}) /\ m \in Nat
    BY <1>2, <1>3, <1>5
  <2> QED
    BY <1>4, <2>1, <2>2
<1> QED
  BY <1>1, <1>5

\* A partial sum is one function of the subsets, whatever the set it is taken of.
LEMMA SumPicks ==
  ASSUME NEW f, NEW S, IsFiniteSet(S)
  PROVE  /\ SumOf(f, {}) = 0
         /\ \A T \in SUBSET S : T # {} =>
              SumOf(f, T) = f[Pick(T)] + SumOf(f, T \ {Pick(T)})
<1> DEFINE Iter(T) == CHOOSE g : g = SumBody(f, T, g)
<1>1. \A T : SumOf(f, T) = Iter(T)[T]
  BY DEF SumOf, MapThenSumSet, MapThenFoldSet, Pick, SumBody
<1>2. \A T \in SUBSET S : IsFiniteSet(T)
  BY FS_Subset
<1>3. ASSUME NEW T \in SUBSET S PROVE Iter(T) = SumBody(f, T, Iter(T))
  <2>1. IsFiniteSet(T)
    BY <1>2
  <2> QED
    BY <2>1, SumsExist
<1>4. ASSUME NEW T \in SUBSET S, NEW s \in SUBSET T
      PROVE  Iter(T)[s] = IF s = {} THEN 0 ELSE f[Pick(s)] + Iter(T)[s \ {Pick(s)}]
  <2>1. Iter(T) = SumBody(f, T, Iter(T))
    BY <1>3
  <2>2. SumBody(f, T, Iter(T))[s] = IF s = {} THEN 0 ELSE f[Pick(s)] + Iter(T)[s \ {Pick(s)}]
    BY DEF SumBody
  <2> QED
    BY <2>1, <2>2
<1> HIDE DEF Iter
<1>5. \A T \in SUBSET S : T # {} => Pick(T) \in T
  BY DEF Pick
<1>6. ASSUME NEW T \in SUBSET S, NEW U \in SUBSET T
      PROVE  Iter(T)[U] = Iter(U)[U]
  <2> DEFINE Differ == {s \in SUBSET U : Iter(T)[s] # Iter(U)[s]}
  <2> SUFFICES ASSUME Differ # {} PROVE FALSE
    OBVIOUS
  <2>1. IsFiniteSet(U)
    BY <1>2
  <2>3. PICK s \in Differ : \A x \in s : s \ {x} \notin Differ
    <3>1. Differ \in SUBSET SUBSET U
      OBVIOUS
    <3> HIDE DEF Differ
    <3> QED
      BY <2>1, <3>1, LeastSubset
  <2>4. s # {}
    BY <1>4, <2>3
  <2> DEFINE t == s \ {Pick(s)}
  <2>5. Pick(s) \in s
    BY <2>4 DEF Pick
  <2>7. Iter(T)[t] = Iter(U)[t]
    BY <2>3, <2>5
  <2>8. s \in SUBSET T /\ s \in SUBSET U /\ U \in SUBSET S
    OBVIOUS
  <2>9. Iter(T)[s] = f[Pick(s)] + Iter(T)[t] /\ Iter(U)[s] = f[Pick(s)] + Iter(U)[t]
    BY <1>4, <2>4, <2>8
  <2> QED
    BY <2>3, <2>7, <2>9
<1>7. SumOf(f, {}) = 0
  BY <1>1, <1>4
<1>8. ASSUME NEW T \in SUBSET S, T # {} PROVE SumOf(f, T) = f[Pick(T)] + SumOf(f, T \ {Pick(T)})
  <2>1. Iter(T)[T] = f[Pick(T)] + Iter(T)[T \ {Pick(T)}]
    BY <1>4, <1>8
  <2>2. Iter(T)[T \ {Pick(T)}] = Iter(T \ {Pick(T)})[T \ {Pick(T)}]
    BY <1>6
  <2> QED
    BY <1>1, <2>1, <2>2
<1> QED
  BY <1>7, <1>8

\* A sum of integers is an integer.
LEMMA SumType ==
  ASSUME NEW f, NEW S, IsFiniteSet(S), \A x \in S : f[x] \in Int
  PROVE  /\ SumOf(f, S) \in Int
         /\ (\A x \in S : f[x] >= 0) => SumOf(f, S) \in Nat
<1> DEFINE Fine(T) == SumOf(f, T) \in Int /\ ((\A x \in S : f[x] >= 0) => SumOf(f, T) \in Nat)
           Differ == {T \in SUBSET S : ~ Fine(T)}
<1> SUFFICES ASSUME Differ # {} PROVE FALSE
  OBVIOUS
<1>1. \A s \in SUBSET S : IsFiniteSet(s)
  BY FS_Subset
<1>2. PICK s \in Differ : \A x \in s : s \ {x} \notin Differ
  <2>1. Differ \in SUBSET SUBSET S
    OBVIOUS
  <2> HIDE DEF Differ
  <2> QED
    BY <2>1, LeastSubset
<1>3. IsFiniteSet(s) /\ s \in SUBSET S /\ ~ Fine(s) /\ \A x \in s : Fine(s \ {x})
  BY <1>1, <1>2
<1> HIDE DEF Fine
<1>4. s # {}
  BY <1>3, SumPicks DEF Fine
<1>5. Pick(s) \in s
  BY <1>4 DEF Pick
<1> DEFINE t == s \ {Pick(s)}
<1>6. SumOf(f, s) = f[Pick(s)] + SumOf(f, t)
  BY <1>3, <1>4, SumPicks
<1>7. Fine(t) /\ f[Pick(s)] \in Int /\ Pick(s) \in S
  BY <1>3, <1>5
<1> QED
  BY <1>3, <1>6, <1>7 DEF Fine

\* Any element can be taken out of a sum first.
LEMMA SumRemove ==
  ASSUME NEW f, NEW S, IsFiniteSet(S), \A x \in S : f[x] \in Int
  PROVE  \A x \in S : SumOf(f, S) = f[x] + SumOf(f, S \ {x})
<1> DEFINE Fine(T) == \A x \in T : SumOf(f, T) = f[x] + SumOf(f, T \ {x})
           Differ == {T \in SUBSET S : ~ Fine(T)}
<1> SUFFICES ASSUME Differ # {} PROVE FALSE
  OBVIOUS
<1>1. \A s \in SUBSET S : IsFiniteSet(s)
  BY FS_Subset
<1>2. PICK s \in Differ : \A x \in s : s \ {x} \notin Differ
  <2>1. Differ \in SUBSET SUBSET S
    OBVIOUS
  <2> HIDE DEF Differ
  <2> QED
    BY <2>1, LeastSubset
<1>3. IsFiniteSet(s) /\ s \in SUBSET S /\ ~ Fine(s) /\ \A x \in s : Fine(s \ {x})
  BY <1>1, <1>2
<1> HIDE DEF Fine
<1>4. s # {}
  BY <1>3 DEF Fine
<1>5. Pick(s) \in s
  BY <1>4 DEF Pick
<1>6. PICK x \in s : SumOf(f, s) # f[x] + SumOf(f, s \ {x})
  BY <1>3 DEF Fine
<1> DEFINE y == Pick(s)
           t == s \ {y}
<1>7. SumOf(f, s) = f[y] + SumOf(f, t)
  BY <1>3, <1>4, SumPicks
<1>8. x # y
  BY <1>6, <1>7
<1>9. SumOf(f, t) = f[x] + SumOf(f, t \ {x})
  BY <1>3, <1>5, <1>6, <1>8 DEF Fine
<1>10. SumOf(f, s \ {x}) = f[y] + SumOf(f, (s \ {x}) \ {y})
  BY <1>3, <1>5, <1>6, <1>8 DEF Fine
<1>11. (s \ {x}) \ {y} = t \ {x}
  OBVIOUS
<1>12. SumOf(f, t \ {x}) \in Int
  <2>1. t \ {x} \in SUBSET S /\ IsFiniteSet(t \ {x}) /\ \A z \in t \ {x} : f[z] \in Int
    BY <1>1, <1>3
  <2> QED
    BY <2>1, SumType
<1>13. f[x] \in Int /\ f[y] \in Int
  BY <1>3, <1>5, <1>6
<1> DEFINE rest == SumOf(f, t \ {x})
           whole == SumOf(f, s)
           without == SumOf(f, s \ {x})
           left == SumOf(f, t)
<1>14. whole # f[x] + without /\ whole = f[y] + left /\ left = f[x] + rest
       /\ without = f[y] + rest /\ rest \in Int
  BY <1>6, <1>7, <1>9, <1>10, <1>11, <1>12
<1> HIDE DEF rest, whole, without, left, t, y
<1> QED
  BY <1>13, <1>14

\* An element that is added adds its value.
LEMMA SumAdd ==
  ASSUME NEW f, NEW S, IsFiniteSet(S), NEW x, x \notin S, \A y \in S \cup {x} : f[y] \in Int
  PROVE  SumOf(f, S \cup {x}) = f[x] + SumOf(f, S)
<1>1. IsFiniteSet(S \cup {x})
  BY FS_AddElement
<1>2. SumOf(f, S \cup {x}) = f[x] + SumOf(f, (S \cup {x}) \ {x})
  BY <1>1, SumRemove
<1>3. (S \cup {x}) \ {x} = S
  OBVIOUS
<1> QED
  BY <1>2, <1>3

\* Sums of equal terms are equal.
LEMMA SumSame ==
  ASSUME NEW f, NEW g, NEW S, IsFiniteSet(S), \A x \in S : f[x] = g[x]
  PROVE  SumOf(f, S) = SumOf(g, S)
<1> DEFINE Fine(T) == SumOf(f, T) = SumOf(g, T)
           Differ == {T \in SUBSET S : ~ Fine(T)}
<1> SUFFICES ASSUME Differ # {} PROVE FALSE
  OBVIOUS
<1>1. \A s \in SUBSET S : IsFiniteSet(s)
  BY FS_Subset
<1>2. PICK s \in Differ : \A x \in s : s \ {x} \notin Differ
  <2>1. Differ \in SUBSET SUBSET S
    OBVIOUS
  <2> HIDE DEF Differ
  <2> QED
    BY <2>1, LeastSubset
<1>3. IsFiniteSet(s) /\ s \in SUBSET S /\ ~ Fine(s) /\ \A x \in s : Fine(s \ {x})
  BY <1>1, <1>2
<1> HIDE DEF Fine
<1>4. s # {}
  BY <1>3, SumPicks DEF Fine
<1>5. Pick(s) \in s
  BY <1>4 DEF Pick
<1>6. /\ SumOf(f, s) = f[Pick(s)] + SumOf(f, s \ {Pick(s)})
      /\ SumOf(g, s) = g[Pick(s)] + SumOf(g, s \ {Pick(s)})
  BY <1>3, <1>4, SumPicks
<1>7. SumOf(f, s \ {Pick(s)}) = SumOf(g, s \ {Pick(s)}) /\ f[Pick(s)] = g[Pick(s)]
  BY <1>3, <1>5 DEF Fine
<1> QED
  BY <1>3, <1>6, <1>7 DEF Fine

-----------------------------------------------------------------------------
(***************************************************************************)
(* The hash-chained ledgers.  A transaction that has locked a row has read *)
(* what the row is until it commits, so its entries extend the accounts;   *)
(* the sums of the balances follow from the entries it inserts.            *)
(***************************************************************************)
\* A finite set of numbers has a greatest one.
LEMMA GreatestNumber ==
  ASSUME NEW S \in SUBSET Nat, IsFiniteSet(S), S # {}
  PROVE  \E m \in S : \A k \in S : k <= m
<1> DEFINE Topped(T) == \E m \in T : \A k \in T : k <= m
           Bad == {T \in SUBSET S : T # {} /\ ~ Topped(T)}
<1> SUFFICES ASSUME Bad # {} PROVE FALSE
  OBVIOUS
<1>1. PICK T \in Bad : \A x \in T : T \ {x} \notin Bad
  <2>1. Bad \in SUBSET SUBSET S
    OBVIOUS
  <2> HIDE DEF Bad
  <2> QED
    BY <2>1, LeastSubset
<1>2. PICK x \in T : TRUE
  OBVIOUS
<1>3. CASE T \ {x} = {}
  BY <1>1, <1>2, <1>3
<1>4. CASE T \ {x} # {}
  <2>1. PICK m \in T \ {x} : \A k \in T \ {x} : k <= m
    BY <1>1, <1>2, <1>4
  <2>2. x \in Nat /\ m \in Nat /\ T \subseteq Nat
    BY <1>1, <1>2, <2>1
  <2>3. CASE x <= m
    BY <1>1, <2>1, <2>2, <2>3
  <2>4. CASE m <= x
    <3>1. \A k \in T : k <= x
      BY <2>1, <2>2, <2>4
    <3> QED
      BY <1>1, <1>2, <3>1
  <2> QED
    BY <2>2, <2>3, <2>4
<1> QED
  BY <1>3, <1>4

\* A sum is one operator, by whichever name it is reached.
LEMMA SumIs == \A f, S : Ledgers!SumOf(f, S) = SumOf(f, S)
  BY DEF SumOf, MapThenSumSet, MapThenFoldSet, Ledgers!SumOf, Ledgers!MapThenSumSet,
     Ledgers!MapThenFoldSet

\* A sum follows a change of one of its terms.
LEMMA SumChange ==
  ASSUME NEW f, NEW g, NEW S, IsFiniteSet(S), \A y \in S : f[y] \in Int /\ g[y] \in Int,
         NEW x \in S, \A y \in S \ {x} : g[y] = f[y]
  PROVE  SumOf(g, S) = SumOf(f, S) + g[x] - f[x]
<1>1. IsFiniteSet(S \ {x})
  BY FS_Subset
<1>2. SumOf(g, S \ {x}) = SumOf(f, S \ {x}) /\ SumOf(f, S \ {x}) \in Int
  BY <1>1, SumSame, SumType
<1>3. SumOf(f, S) = f[x] + SumOf(f, S \ {x}) /\ SumOf(g, S) = g[x] + SumOf(g, S \ {x})
  BY SumRemove
<1> DEFINE rest == SumOf(f, S \ {x})
           sum == SumOf(f, S)
           next == SumOf(g, S)
<1>4. next = g[x] + rest /\ sum = f[x] + rest /\ rest \in Int /\ f[x] \in Int /\ g[x] \in Int
  BY <1>2, <1>3
<1> HIDE DEF rest, sum, next
<1>5. next = sum + g[x] - f[x]
  BY <1>4
<1> QED
  BY <1>5 DEF sum, next

\* The sum of a sequence that one value was appended to.
LEMMA SumAppend ==
  ASSUME NEW n \in Nat, NEW f, NEW g, \A i \in 1 .. n : f[i] \in Int /\ g[i] = f[i],
         g[n + 1] \in Int
  PROVE  SumOf(g, 1 .. n + 1) = SumOf(f, 1 .. n) + g[n + 1] /\ SumOf(f, 1 .. n) \in Int
<1>a. 1 .. n + 1 = (1 .. n) \cup {n + 1} /\ n + 1 \notin 1 .. n
  OBVIOUS
<1>b. IsFiniteSet(1 .. n)
  BY FS_Interval
<1>1. IsFiniteSet(1 .. n) /\ 1 .. n + 1 = (1 .. n) \cup {n + 1} /\ n + 1 \notin 1 .. n
  BY <1>a, <1>b
<1>2. SumOf(g, (1 .. n) \cup {n + 1}) = g[n + 1] + SumOf(g, 1 .. n)
  BY <1>1, SumAdd
<1>3. SumOf(g, 1 .. n) = SumOf(f, 1 .. n) /\ SumOf(f, 1 .. n) \in Int
  BY <1>1, SumSame, SumType
<1> DEFINE head == SumOf(f, 1 .. n)
           whole == SumOf(g, 1 .. n + 1)
<1>4. whole = g[n + 1] + head /\ head \in Int
  BY <1>1, <1>2, <1>3
<1> HIDE DEF head, whole
<1>5. whole = head + g[n + 1]
  BY <1>4
<1> QED
  BY <1>3, <1>5 DEF head, whole

-----------------------------------------------------------------------------
\* What the entries of one command are told apart by.
Label == {"consumer", "node-quota", "contribution", "reserve", "grant", "release"}
\* The keys of entries, which stand for their hashes.
LedgerKey ==
  {Ledgers!Genesis, Ledgers!Opened} \cup {<<c.key, label>> : c \in Command, label \in Label}
\* LedgerEntry
EntryRecord == [key : LedgerKey, delta : Int, before : Nat, after : Nat, prev : LedgerKey]
\* The authoritative state of an account.
LedgerRow == [balance : Nat, head : LedgerKey, count : Nat]
\* A transaction that runs.
LedgerTxRecord ==
  [kind : {"running"}, command : Command, locked : 0 .. 4, weight : {0, 1, 10},
   saw : UNION {[rows -> LedgerRow] : rows \in SUBSET Ledgers!Account}]
\* A settled job.
Receipt ==
  [consumer : User, node : User, weight : 0 .. 10, precreate : 0 .. 10, earned : Int, kept : Int]

LedgersType ==
  /\ ledger \in [Ledgers!Account -> Seq(EntryRecord)]
  /\ account \in [Ledgers!Account -> LedgerRow]
  /\ recorded \subseteq Command /\ IsFiniteSet(recorded)
  /\ receipts \in Seq(Receipt)
  /\ ltx \in [LedgerTx -> LedgerTxRecord \cup {Ledgers!LedgerIdle}]
  /\ row_lock \in [Ledgers!Row -> LedgerTx \cup {None}]
  /\ refused = FALSE

\* The names of accounts and of rows tell them apart.
LEMMA Names ==
  /\ \A u \in User : /\ Ledgers!Quota(u) \in Ledgers!Account /\ Ledgers!Contribution(u) \in Ledgers!Account
                     /\ Ledgers!Quota(u)[1] = "quota" /\ Ledgers!Contribution(u)[1] = "contribution"
                     /\ Ledgers!RowOf(Ledgers!Quota(u)) = <<"account", u>>
                     /\ Ledgers!RowOf(Ledgers!Contribution(u)) = <<"account", u>>
  /\ Ledgers!Reserve \in Ledgers!Account /\ Ledgers!Reserve[1] = "reserve"
  /\ Ledgers!RowOf(Ledgers!Reserve) = Ledgers!Reserve
  /\ \A u, v : Ledgers!Quota(u) = Ledgers!Quota(v) => u = v
  /\ \A u, v : Ledgers!Contribution(u) = Ledgers!Contribution(v) => u = v
  /\ \A u, v : Ledgers!Quota(u) # Ledgers!Contribution(v)
  /\ \A u : Ledgers!Quota(u) # Ledgers!Reserve /\ Ledgers!Contribution(u) # Ledgers!Reserve
  /\ \A u : <<"account", u>> # Ledgers!Reserve
  /\ \A u, v : <<"account", u>> = <<"account", v>> => u = v
  /\ \A u, k : <<"account", u>> # <<"key", k>> /\ <<"key", k>> # Ledgers!Reserve
  /\ \A a \in Ledgers!Account : Ledgers!RowOf(a) \in Ledgers!Row
  /\ \A c \in Command : <<"key", c.key>> \in Ledgers!Row
  /\ \A u \in User : <<"account", u>> \in Ledgers!Row
  /\ Ledgers!Reserve \in Ledgers!Row
<1>1. Ledgers!Reserve[1] = "reserve" /\ \A u : <<"account", u>>[1] = "account" /\ \A k : <<"key", k>>[1] = "key"
  BY DEF Ledgers!Reserve
<1>2. \A u : Ledgers!Quota(u)[1] = "quota" /\ Ledgers!Contribution(u)[1] = "contribution"
             /\ Ledgers!Quota(u)[2] = u /\ Ledgers!Contribution(u)[2] = u
  BY DEF Ledgers!Quota, Ledgers!Contribution
<1>3. \A u : Ledgers!Quota(u) # Ledgers!Reserve /\ Ledgers!Contribution(u) # Ledgers!Reserve
  BY <1>1, <1>2
<1>4. \A u : Ledgers!RowOf(Ledgers!Quota(u)) = <<"account", u>>
             /\ Ledgers!RowOf(Ledgers!Contribution(u)) = <<"account", u>>
  BY <1>2, <1>3 DEF Ledgers!RowOf
<1>5. Ledgers!RowOf(Ledgers!Reserve) = Ledgers!Reserve
  BY DEF Ledgers!RowOf
<1>6. /\ \A u \in User : Ledgers!Quota(u) \in Ledgers!Account /\ Ledgers!Contribution(u) \in Ledgers!Account
      /\ Ledgers!Reserve \in Ledgers!Account
      /\ \A a \in Ledgers!Account : (\E u \in User : a = Ledgers!Quota(u) \/ a = Ledgers!Contribution(u))
                                    \/ a = Ledgers!Reserve
  BY DEF Ledgers!Account
<1>7. /\ \A c \in Command : <<"key", c.key>> \in Ledgers!Row
      /\ \A u \in User : <<"account", u>> \in Ledgers!Row
      /\ Ledgers!Reserve \in Ledgers!Row
  BY DEF Ledgers!Row
<1>8. \A a \in Ledgers!Account : Ledgers!RowOf(a) \in Ledgers!Row
  BY <1>4, <1>5, <1>6, <1>7
<1>9. \A u, v : <<"account", u>> = <<"account", v>> => u = v
  OBVIOUS
<1>10. \A u, k : <<"account", u>> # <<"key", k>> /\ <<"key", k>> # Ledgers!Reserve
                 /\ <<"account", u>> # Ledgers!Reserve
  BY <1>1
<1> QED
  BY <1>1, <1>2, <1>3, <1>4, <1>5, <1>6, <1>7, <1>8, <1>9, <1>10

\* The rows a command locks, one after the other.
LEMMA Order ==
  ASSUME NEW c \in Command
  PROVE  /\ Ledgers!LockOrder(c) \in Seq(Ledgers!Row) /\ Len(Ledgers!LockOrder(c)) \in 1 .. 4
         /\ c.kind = "settle" =>
              /\ c.consumer \in User /\ c.node \in User
              /\ Len(Ledgers!LockOrder(c)) = 4
              /\ Ledgers!LockOrder(c)[1] = <<"key", c.key>> /\ Ledgers!LockOrder(c)[4] = Ledgers!Reserve
              /\ \E low, high \in User :
                   /\ Ledgers!LockOrder(c)[2] = <<"account", low>>
                   /\ Ledgers!LockOrder(c)[3] = <<"account", high>>
                   /\ low <= high /\ {low, high} = {c.consumer, c.node}
         /\ c.kind = "grant" =>
              /\ c.user \in User /\ c.amount \in Int
              /\ Len(Ledgers!LockOrder(c)) = 2
              /\ Ledgers!LockOrder(c)[1] = <<"key", c.key>>
              /\ Ledgers!LockOrder(c)[2] = <<"account", c.user>>
         /\ c.kind = "release" =>
              /\ c.amount \in Int
              /\ Len(Ledgers!LockOrder(c)) = 1 /\ Ledgers!LockOrder(c)[1] = Ledgers!Reserve
         /\ c.kind \in {"settle", "grant", "release"}
<1>1. CASE c.kind = "settle"
  <2>1. c.consumer \in User /\ c.node \in User /\ c.consumer \in Nat /\ c.node \in Nat
    BY <1>1, LedgerAssumption
  <2> DEFINE low == Ledgers!Less(c.consumer, c.node)
             high == c.consumer + c.node - low
  <2>2. low <= high /\ {low, high} = {c.consumer, c.node}
    BY <2>1 DEF Ledgers!Less
  <2>3. low \in User /\ high \in User
    BY <2>1, <2>2
  <2>4. Ledgers!LockOrder(c) = <<<<"key", c.key>>, <<"account", low>>, <<"account", high>>, Ledgers!Reserve>>
    BY <1>1 DEF Ledgers!LockOrder
  <2> HIDE DEF low, high
  <2>5. Ledgers!LockOrder(c) \in Seq(Ledgers!Row)
    <3>1. <<"key", c.key>> \in Ledgers!Row /\ <<"account", low>> \in Ledgers!Row
          /\ <<"account", high>> \in Ledgers!Row /\ Ledgers!Reserve \in Ledgers!Row
      BY <2>3, Names
    <3> QED
      BY <2>4, <3>1
  <2>6. Len(Ledgers!LockOrder(c)) = 4
    BY <2>4
  <2> QED
    BY <1>1, <2>1, <2>2, <2>3, <2>4, <2>5, <2>6
<1>2. CASE c.kind = "grant"
  <2>1. c.user \in User /\ c.amount \in Int
    BY <1>2, LedgerAssumption
  <2>2. Ledgers!LockOrder(c) = <<<<"key", c.key>>, <<"account", c.user>>>>
    BY <1>2 DEF Ledgers!LockOrder
  <2>3. <<"key", c.key>> \in Ledgers!Row /\ <<"account", c.user>> \in Ledgers!Row
    BY <2>1, Names
  <2> QED
    BY <1>2, <2>1, <2>2, <2>3
<1>3. CASE c.kind = "release"
  <2>1. c.amount \in Int
    BY <1>3, LedgerAssumption
  <2>2. Ledgers!LockOrder(c) = <<Ledgers!Reserve>>
    BY <1>3 DEF Ledgers!LockOrder
  <2>3. Ledgers!Reserve \in Ledgers!Row
    BY Names
  <2> QED
    BY <1>3, <2>1, <2>2, <2>3
<1> QED
  BY <1>1, <1>2, <1>3, LedgerAssumption

-----------------------------------------------------------------------------
\* The account's row after the first i entries.
RowAt(l, i) ==
  IF i = 0 THEN [balance |-> 0, head |-> Ledgers!Genesis, count |-> 0]
  ELSE [balance |-> l[i].after, head |-> l[i].key, count |-> i]

\* A ledger that leads to a row, with each key once.
ChainOf(l, row) ==
  /\ \A i \in DOMAIN l : Ledgers!Extends(RowAt(l, i - 1), l[i])
  /\ row = RowAt(l, Len(l))
  /\ \A i, j \in DOMAIN l : l[i].key = l[j].key => i = j

\* An entry of a ledger that grew is an old one or a new one.
LEMMA ConcatIndex ==
  ASSUME NEW S, NEW l \in Seq(S), NEW m \in Seq(S), NEW i \in DOMAIN (l \o m)
  PROVE  \/ i \in DOMAIN l /\ (l \o m)[i] = l[i]
         \/ i - Len(l) \in DOMAIN m /\ (l \o m)[i] = m[i - Len(l)]
<1>1. Len(l) \in Nat /\ Len(m) \in Nat /\ DOMAIN l = 1 .. Len(l) /\ DOMAIN m = 1 .. Len(m)
  BY LenProperties
<1>2. l \o m \in Seq(S) /\ Len(l \o m) = Len(l) + Len(m)
  BY ConcatProperties
<1>3. i \in 1 .. Len(l) + Len(m)
  BY <1>2, LenProperties
<1>4. (l \o m)[i] = IF i <= Len(l) THEN l[i] ELSE m[i - Len(l)]
  BY <1>3, ConcatProperties
<1>5. CASE i <= Len(l)
  BY <1>1, <1>3, <1>4, <1>5
<1>6. CASE i > Len(l)
  BY <1>1, <1>3, <1>4, <1>6
<1> QED
  BY <1>1, <1>3, <1>5, <1>6

\* The chain of the invariant is the one of the property.
LEMMA ChainedIs ==
  ASSUME NEW a \in Ledgers!Account, ledger[a] \in Seq(EntryRecord)
  PROVE  Ledgers!Chained(a) <=> ChainOf(ledger[a], account[a])
<1> DEFINE rows == [i \in 0 .. Len(ledger[a]) |-> RowAt(ledger[a], i)]
<1>1. DOMAIN ledger[a] = 1 .. Len(ledger[a]) /\ Len(ledger[a]) \in Nat
  OBVIOUS
<1>2. Len(ledger[a]) \in 0 .. Len(ledger[a])
      /\ \A i \in DOMAIN ledger[a] : i - 1 \in 0 .. Len(ledger[a])
  BY <1>1
<1>3. rows[Len(ledger[a])] = RowAt(ledger[a], Len(ledger[a]))
      /\ \A i \in DOMAIN ledger[a] : rows[i - 1] = RowAt(ledger[a], i - 1)
  BY <1>2
<1>4. Ledgers!Chained(a) <=>
        /\ \A i \in DOMAIN ledger[a] : Ledgers!Extends(rows[i - 1], ledger[a][i])
        /\ account[a] = rows[Len(ledger[a])]
        /\ \A i, j \in DOMAIN ledger[a] : ledger[a][i].key = ledger[a][j].key => i = j
  BY DEF Ledgers!Chained, RowAt
<1> QED
  BY <1>3, <1>4 DEF ChainOf

\* A chain that is extended entry by entry is a chain.
LEMMA ChainGrows ==
  ASSUME NEW l \in Seq(EntryRecord), NEW row \in LedgerRow, ChainOf(l, row),
         NEW m \in Seq(EntryRecord), m # <<>>, Ledgers!AllExtend(row, m),
         \A i \in DOMAIN l, j \in DOMAIN m : l[i].key # m[j].key,
         \A i, j \in DOMAIN m : m[i].key = m[j].key => i = j
  PROVE  /\ l \o m \in Seq(EntryRecord)
         /\ ChainOf(l \o m, [balance |-> m[Len(m)].after, head |-> m[Len(m)].key,
                              count |-> row.count + Len(m)])
<1> DEFINE k == Len(l)
           n == Len(m)
           all == l \o m
<1>1. k \in Nat /\ n \in Nat /\ n >= 1 /\ DOMAIN l = 1 .. k /\ DOMAIN m = 1 .. n
  OBVIOUS
<1>2. all \in Seq(EntryRecord) /\ Len(all) = k + n
  OBVIOUS
<1>3. DOMAIN all = 1 .. (k + n)
  BY <1>2
<1>4. \A i \in 1 .. k : all[i] = l[i]
  OBVIOUS
<1>5. \A i \in 1 .. n : all[k + i] = m[i]
  BY <1>1
<1>6. \A i \in 1 .. (k + n) : i \in 1 .. k \/ \E j \in 1 .. n : i = k + j
  <2> TAKE i \in 1 .. (k + n)
  <2>1. CASE i <= k
    BY <1>1, <2>1
  <2>2. CASE i > k
    <3>1. i - k \in 1 .. n /\ i = k + (i - k)
      BY <1>1, <2>2
    <3> QED
      BY <3>1
  <2> QED
    BY <1>1, <2>1, <2>2
<1> HIDE DEF all, k, n
<1>7. ASSUME NEW i \in 1 .. k PROVE Ledgers!Extends(RowAt(all, i - 1), all[i])
  <2>1. Ledgers!Extends(RowAt(l, i - 1), l[i])
    BY <1>1 DEF ChainOf
  <2>2. RowAt(all, i - 1) = RowAt(l, i - 1)
    <3>1. CASE i - 1 = 0
      BY <3>1 DEF RowAt
    <3>2. CASE i - 1 # 0
      <4>1. i - 1 \in 1 .. k
        BY <1>1, <3>2
      <4> QED
        BY <1>4, <3>2, <4>1 DEF RowAt
    <3> QED
      BY <3>1, <3>2
  <2> QED
    BY <1>4, <2>1, <2>2
<1>8. ASSUME NEW j \in 1 .. n PROVE Ledgers!Extends(RowAt(all, k + j - 1), all[k + j])
  <2>1. Ledgers!Extends(IF j = 1 THEN row ELSE Ledgers!Advanced(row, m[j - 1]), m[j])
    BY <1>1 DEF Ledgers!AllExtend
  <2>2. CASE j = 1
    <3>1. RowAt(all, k) = RowAt(l, k)
      <4>1. CASE k = 0
        BY <4>1 DEF RowAt
      <4>2. CASE k # 0
        <5>1. k \in 1 .. k
          BY <1>1, <4>2
        <5> QED
          BY <1>4, <4>2, <5>1 DEF RowAt
      <4> QED
        BY <4>1, <4>2
    <3>2. k + j - 1 = k
      BY <1>1, <2>2
    <3> QED
      BY <1>5, <2>1, <2>2, <3>1, <3>2 DEF ChainOf, k
  <2>3. CASE j # 1
    <3>1. j - 1 \in 1 .. n /\ k + j - 1 = k + (j - 1) /\ k + j - 1 # 0
      BY <1>1, <2>3
    <3>2. all[k + j - 1] = m[j - 1]
      BY <1>5, <3>1
    <3>3. RowAt(all, k + j - 1).balance = Ledgers!Advanced(row, m[j - 1]).balance
          /\ RowAt(all, k + j - 1).head = Ledgers!Advanced(row, m[j - 1]).head
      BY <3>1, <3>2 DEF RowAt, Ledgers!Advanced
    <3> QED
      BY <1>5, <2>1, <2>3, <3>3 DEF Ledgers!Extends
  <2> QED
    BY <2>2, <2>3
<1>9. \A i \in 1 .. (k + n) : Ledgers!Extends(RowAt(all, i - 1), all[i])
  <2> TAKE i \in 1 .. (k + n)
  <2>1. CASE i \in 1 .. k
    BY <1>7, <2>1
  <2>2. ASSUME NEW j \in 1 .. n, i = k + j PROVE Ledgers!Extends(RowAt(all, i - 1), all[i])
    <3>1. i - 1 = k + j - 1
      BY <1>1, <2>2
    <3> QED
      BY <1>8, <2>2, <3>1
  <2> QED
    BY <1>6, <2>1, <2>2
<1>10. \A i, j \in 1 .. (k + n) : all[i].key = all[j].key => i = j
  <2> TAKE i, j \in 1 .. (k + n)
  <2> SUFFICES ASSUME all[i].key = all[j].key PROVE i = j
    OBVIOUS
  <2>1. CASE i \in 1 .. k /\ j \in 1 .. k
    BY <1>1, <1>4, <2>1 DEF ChainOf
  <2>2. ASSUME NEW p \in 1 .. n, i = k + p, j \in 1 .. k PROVE FALSE
    <3>1. all[i] = m[p] /\ all[j] = l[j]
      BY <1>4, <1>5, <2>2
    <3> QED
      BY <1>1, <2>2, <3>1
  <2>3. ASSUME NEW p \in 1 .. n, j = k + p, i \in 1 .. k PROVE FALSE
    <3>1. all[j] = m[p] /\ all[i] = l[i]
      BY <1>4, <1>5, <2>3
    <3> QED
      BY <1>1, <2>3, <3>1
  <2>4. ASSUME NEW p \in 1 .. n, NEW q \in 1 .. n, i = k + p, j = k + q PROVE i = j
    <3>1. all[i] = m[p] /\ all[j] = m[q]
      BY <1>5, <2>4
    <3> QED
      BY <1>1, <2>4, <3>1
  <2> QED
    BY <1>6, <2>1, <2>2, <2>3, <2>4
<1>11. [balance |-> m[n].after, head |-> m[n].key, count |-> row.count + n] = RowAt(all, k + n)
  <2>1. n \in 1 .. n /\ k + n # 0
    BY <1>1
  <2>2. all[k + n] = m[n]
    BY <1>5, <2>1
  <2>3. row.count = k
    BY <1>1 DEF ChainOf, RowAt, k
  <2> QED
    BY <2>1, <2>2, <2>3 DEF RowAt
<1>12. ChainOf(all, RowAt(all, k + n))
  BY <1>2, <1>3, <1>9, <1>10 DEF ChainOf
<1> QED
  BY <1>2, <1>11, <1>12 DEF all, k, n

-----------------------------------------------------------------------------
\* The entries are written under the keys of carried out commands.
KeysRecorded ==
  \A a \in Ledgers!Account : \A i \in DOMAIN ledger[a] :
    \/ ledger[a][i].key = Ledgers!Opened
    \/ \E d \in recorded, label \in Label : ledger[a][i].key = <<d.key, label>>

\* Every ledger leads to its account.
Chains == \A a \in Ledgers!Account : ChainOf(ledger[a], account[a])
\* A key is carried out once.
OnceEach == \A c, d \in recorded : c.key = d.key => c = d

\* What a transaction that commits hands to Writes.
RawEntry(c) ==
  [key : {<<c.key, label>> : label \in Label}, delta : Int, before : Int, after : Int,
   prev : LedgerKey]

\* The entries a command brings: of this command's labels, each once, some for each account.
NewEntries(c, new) ==
  /\ DOMAIN new \subseteq Ledgers!Account
  /\ \A a \in DOMAIN new :
       /\ new[a] \in Seq(RawEntry(c))
       /\ new[a] # <<>> /\ Ledgers!AllExtend(account[a], new[a])
       /\ \A i, j \in DOMAIN new[a] : new[a][i].key = new[a][j].key => i = j

\* What an insert does to a ledger and to its account.
Inserted(c, new) ==
  /\ recorded' = recorded \cup {c} /\ c \notin recorded
  /\ \A a \in Ledgers!Account \ DOMAIN new : ledger'[a] = ledger[a] /\ account'[a] = account[a]
  /\ \A a \in DOMAIN new :
       /\ new[a] \in Seq(EntryRecord)
       /\ \A i \in DOMAIN new[a] : Ledgers!ValidFields(a, new[a][i])
       /\ ledger'[a] = ledger[a] \o new[a]
       /\ account'[a].balance = new[a][Len(new[a])].after

\* Entries that are accepted keep the chains, and their key is new.
LEMMA Written ==
  ASSUME LedgersType, KeysRecorded, Chains, OnceEach,
         NEW t \in LedgerTx, NEW c \in Command, ltx[t].command = c, Ledgers!Requested(c) = {},
         NEW new, NewEntries(c, new), Ledgers!Writes(t, new)
  PROVE  /\ ledger' \in [Ledgers!Account -> Seq(EntryRecord)]
         /\ account' \in [Ledgers!Account -> LedgerRow]
         /\ recorded' \subseteq Command /\ IsFiniteSet(recorded')
         /\ refused' = FALSE
         /\ KeysRecorded' /\ Chains' /\ OnceEach'
         /\ Inserted(c, new) \/ UNCHANGED <<ledger, account, recorded>>
<1> DEFINE valid == \A a \in DOMAIN new : \A i \in DOMAIN new[a] : Ledgers!ValidFields(a, new[a][i])
<1>1. \A a \in DOMAIN new : Ledgers!AllExtend(account[a], new[a])
  BY DEF NewEntries
<1>2. CASE ~ valid
  <2>1. UNCHANGED <<ledger, account, recorded>> /\ refused' = FALSE
    BY <1>2 DEF Ledgers!Writes, LedgersType
  <2> QED
    BY <2>1 DEF LedgersType, KeysRecorded, Chains, OnceEach
<1>3. CASE valid
  <2>1. Ledgers!Insert(new) /\ recorded' = recorded \cup {c} /\ UNCHANGED refused
    BY <1>1, <1>3 DEF Ledgers!Writes
  <2>2. c \notin recorded /\ \A d \in recorded : d.key # c.key
    BY DEF Ledgers!Requested
  <2>3. recorded' \subseteq Command /\ IsFiniteSet(recorded')
    BY <2>1, FS_AddElement DEF LedgersType
  <2>4. OnceEach'
    BY <2>1, <2>2 DEF OnceEach
  <2>5. ASSUME NEW a \in Ledgers!Account \ DOMAIN new
        PROVE  ledger'[a] = ledger[a] /\ account'[a] = account[a]
    BY <2>1, <2>5 DEF Ledgers!Insert
  <2>6. ASSUME NEW a \in DOMAIN new
        PROVE  /\ new[a] \in Seq(EntryRecord) /\ a \in Ledgers!Account
               /\ ledger'[a] = ledger[a] \o new[a]
               /\ account'[a] = [balance |-> new[a][Len(new[a])].after,
                                 head |-> new[a][Len(new[a])].key,
                                 count |-> account[a].count + Len(new[a])]
               /\ account'[a] \in LedgerRow
               /\ ledger'[a] \in Seq(EntryRecord) /\ ChainOf(ledger'[a], account'[a])
    <3>1. a \in Ledgers!Account
      BY DEF NewEntries
    <3>2. ledger'[a] = ledger[a] \o new[a]
          /\ account'[a] = [balance |-> new[a][Len(new[a])].after,
                            head |-> new[a][Len(new[a])].key,
                            count |-> account[a].count + Len(new[a])]
      BY <2>1, <3>1 DEF Ledgers!Insert
    <3>3. /\ new[a] \in Seq(RawEntry(c))
          /\ new[a] # <<>>
          /\ \A i, j \in DOMAIN new[a] : new[a][i].key = new[a][j].key => i = j
      BY DEF NewEntries
    <3>4. \A i \in DOMAIN new[a] : /\ new[a][i] \in EntryRecord
                                   /\ \E label \in Label : new[a][i].key = <<c.key, label>>
      <4> TAKE i \in DOMAIN new[a]
      <4>1. new[a][i] \in RawEntry(c)
        BY <3>3, ElementOfSeq
      <4>2. new[a][i].after \in Nat /\ new[a][i].before \in Nat
        <5>1. new[a][i].after \in 0 .. MaxMicro /\ new[a][i].before >= 0 /\ new[a][i].before \in Int
          BY <1>3, <4>1 DEF Ledgers!ValidFields, RawEntry
        <5> QED
          BY <5>1, BillingAssumption
      <4>3. \A label \in Label : <<c.key, label>> \in LedgerKey
        BY DEF LedgerKey
      <4> QED
        BY <4>1, <4>2, <4>3 DEF EntryRecord, RawEntry
    <3>5. new[a] \in Seq(EntryRecord)
      <4>1. Len(new[a]) \in Nat /\ DOMAIN new[a] = 1 .. Len(new[a])
            /\ new[a] = [i \in 1 .. Len(new[a]) |-> new[a][i]]
        BY <3>3
      <4>2. new[a] \in [1 .. Len(new[a]) -> EntryRecord]
        BY <3>4, <4>1
      <4> QED
        BY <4>1, <4>2, SeqDef
    <3>6. ledger[a] \in Seq(EntryRecord) /\ account[a] \in LedgerRow
      BY <3>1 DEF LedgersType
    <3>7. \A i \in DOMAIN ledger[a], j \in DOMAIN new[a] : ledger[a][i].key # new[a][j].key
      <4> TAKE i \in DOMAIN ledger[a], j \in DOMAIN new[a]
      <4>1. PICK label \in Label : new[a][j].key = <<c.key, label>>
        BY <3>4
      <4>2. <<c.key, label>> # Ledgers!Opened
        BY DEF Ledgers!Opened, Label
      <4>3. ASSUME NEW d \in recorded, NEW other \in Label PROVE <<d.key, other>> # <<c.key, label>>
        BY <2>2
      <4>4. \/ ledger[a][i].key = Ledgers!Opened
            \/ \E d \in recorded, other \in Label : ledger[a][i].key = <<d.key, other>>
        BY <3>1 DEF KeysRecorded
      <4>5. ASSUME NEW d \in recorded, NEW other \in Label, ledger[a][i].key = <<d.key, other>>
            PROVE  ledger[a][i].key # new[a][j].key
        BY <4>1, <4>3, <4>5
      <4> QED
        BY <4>1, <4>2, <4>4, <4>5
    <3>8. ChainOf(ledger[a], account[a]) /\ Ledgers!AllExtend(account[a], new[a])
      BY <1>1, <3>1 DEF Chains
    <3>9. ledger'[a] \in Seq(EntryRecord) /\ ChainOf(ledger'[a], account'[a])
      <4>1. /\ ledger[a] \o new[a] \in Seq(EntryRecord)
            /\ ChainOf(ledger[a] \o new[a],
                       [balance |-> new[a][Len(new[a])].after, head |-> new[a][Len(new[a])].key,
                        count |-> account[a].count + Len(new[a])])
        BY <3>3, <3>5, <3>6, <3>7, <3>8, ChainGrows
      <4> QED
        BY <3>2, <4>1
    <3>10. account'[a] \in LedgerRow
      <4>1. Len(new[a]) \in DOMAIN new[a] /\ Len(new[a]) \in Nat
        BY <3>3
      <4>2. new[a][Len(new[a])] \in EntryRecord
        BY <3>4, <4>1
      <4> QED
        BY <3>2, <3>6, <4>1, <4>2 DEF EntryRecord, LedgerRow
    <3> QED
      BY <3>1, <3>2, <3>5, <3>9, <3>10
  <2>7. DOMAIN ledger' = Ledgers!Account /\ DOMAIN account' = Ledgers!Account
        /\ ledger' = [a \in Ledgers!Account |-> ledger'[a]]
        /\ account' = [a \in Ledgers!Account |-> account'[a]]
    BY <2>1 DEF Ledgers!Insert
  <2>8. \A a \in Ledgers!Account :
          /\ ledger'[a] \in Seq(EntryRecord) /\ account'[a] \in LedgerRow
          /\ ChainOf(ledger'[a], account'[a])
    <3> TAKE a \in Ledgers!Account
    <3>1. CASE a \in DOMAIN new
      BY <2>6, <3>1
    <3>2. CASE a \notin DOMAIN new
      BY <2>5, <3>2 DEF LedgersType, Chains
    <3> QED
      BY <3>1, <3>2
  <2>9. KeysRecorded'
    <3> SUFFICES ASSUME NEW a \in Ledgers!Account, NEW i \in DOMAIN ledger'[a]
                 PROVE  \/ ledger'[a][i].key = Ledgers!Opened
                        \/ \E d \in recorded', label \in Label : ledger'[a][i].key = <<d.key, label>>
      BY DEF KeysRecorded
    <3>1. CASE a \notin DOMAIN new
      BY <2>1, <2>5, <3>1 DEF KeysRecorded
    <3>2. CASE a \in DOMAIN new
      <4>1. ledger[a] \in Seq(EntryRecord) /\ new[a] \in Seq(EntryRecord)
            /\ ledger'[a] = ledger[a] \o new[a]
        BY <2>6, <3>2 DEF LedgersType
      <4>2. CASE i \in DOMAIN ledger[a] /\ ledger'[a][i] = ledger[a][i]
        BY <2>1, <4>2 DEF KeysRecorded
      <4>3. CASE i - Len(ledger[a]) \in DOMAIN new[a]
                  /\ ledger'[a][i] = new[a][i - Len(ledger[a])]
        <5>2. new[a][i - Len(ledger[a])].key \in {<<c.key, label>> : label \in Label}
          <6>1. new[a] \in Seq(RawEntry(c)) /\ i - Len(ledger[a]) \in DOMAIN new[a]
            BY <3>2, <4>3 DEF NewEntries
          <6>2. new[a][i - Len(ledger[a])] \in RawEntry(c)
            BY <6>1, ElementOfSeq
          <6> QED
            BY <6>2 DEF RawEntry
        <5> QED
          BY <2>1, <4>3, <5>2
      <4>4. i \in DOMAIN (ledger[a] \o new[a])
        BY <4>1
      <4>5. \/ i \in DOMAIN ledger[a] /\ (ledger[a] \o new[a])[i] = ledger[a][i]
            \/ i - Len(ledger[a]) \in DOMAIN new[a]
               /\ (ledger[a] \o new[a])[i] = new[a][i - Len(ledger[a])]
        BY <4>1, <4>4, ConcatIndex
      <4> QED
        BY <4>1, <4>2, <4>3, <4>5
    <3> QED
      BY <3>1, <3>2
  <2>10. Inserted(c, new)
    <3>1. \A a \in DOMAIN new : \A i \in DOMAIN new[a] : Ledgers!ValidFields(a, new[a][i])
      BY <1>3
    <3>2. \A a \in DOMAIN new :
            /\ new[a] \in Seq(EntryRecord) /\ ledger'[a] = ledger[a] \o new[a]
            /\ account'[a].balance = new[a][Len(new[a])].after
      <4> TAKE a \in DOMAIN new
      <4>1. account'[a] = [balance |-> new[a][Len(new[a])].after,
                           head |-> new[a][Len(new[a])].key,
                           count |-> account[a].count + Len(new[a])]
        BY <2>6
      <4> QED
        BY <2>6, <4>1
    <3> QED
      BY <2>1, <2>2, <2>5, <3>1, <3>2 DEF Inserted
  <2>11. Chains'
    BY <2>8 DEF Chains
  <2>12. ledger' \in [Ledgers!Account -> Seq(EntryRecord)] /\ account' \in [Ledgers!Account -> LedgerRow]
    BY <2>7, <2>8
  <2> QED
    BY <2>1, <2>3, <2>4, <2>9, <2>10, <2>11, <2>12 DEF LedgersType
<1> QED
  BY <1>2, <1>3

-----------------------------------------------------------------------------
\* The rows of a transaction's command, in the order they are locked.
Ordered(t) == Ledgers!LockOrder(ltx[t].command)
\* It has locked no more rows than there are.
InOrder(t) == ltx[t].locked <= Len(Ordered(t))
              /\ (ltx[t].command.kind # "settle" => ltx[t].command.amount >= 1)
\* It holds every row that it has locked.
HoldsRows(t) == \A i \in 1 .. ltx[t].locked : row_lock[Ordered(t)[i]] = t
\* What it has read of an account it holds is what the account is.
SeesRows(t) ==
  \A a \in Ledgers!Account : \A i \in 1 .. ltx[t].locked :
    Ledgers!RowOf(a) = Ordered(t)[i] => a \in DOMAIN ltx[t].saw /\ ltx[t].saw[a] = account[a]
\* The weight it has read is the one of now.
KnowsWeight(t) ==
  ltx[t].command.kind = "settle" /\ ltx[t].locked >= 3 =>
    ltx[t].weight =
      Ledgers!SettlementContributionWeight(ltx[t].command.consumer, ltx[t].command.node)

\* What a transaction that runs relies on.
TxsSound ==
  \A t \in LedgerTx :
    Ledgers!Running(t) => InOrder(t) /\ HoldsRows(t) /\ SeesRows(t) /\ KnowsWeight(t)

\* A lock is held by a transaction that runs and has taken it.
LocksHeld ==
  \A r \in Ledgers!Row : row_lock[r] # None =>
    /\ Ledgers!Running(row_lock[r])
    /\ \E i \in 1 .. ltx[row_lock[r]].locked : Ordered(row_lock[r])[i] = r

\* A transaction runs or is idle.
LEMMA LedgerTxStates ==
  ASSUME LedgersType, NEW t \in LedgerTx
  PROVE  /\ Ledgers!Running(t) => ltx[t] \in LedgerTxRecord
         /\ ~ Ledgers!Running(t) => ltx[t] = Ledgers!LedgerIdle
         /\ Ledgers!LedgerIdle.kind = "idle"
<1>1. Ledgers!LedgerIdle.kind = "idle"
  BY DEF Ledgers!LedgerIdle
<1>2. \A x \in LedgerTxRecord : x.kind = "running"
  BY DEF LedgerTxRecord
<1>3. ltx[t] \in LedgerTxRecord \cup {Ledgers!LedgerIdle}
  BY DEF LedgersType
<1> QED
  BY <1>1, <1>2, <1>3 DEF Ledgers!Running

\* A transaction that begins holds nothing and has read nothing.
LEMMA LedgerBegins ==
  ASSUME LedgersType, TxsSound, LocksHeld,
         NEW t \in LedgerTx, NEW c \in Command, Ledgers!Begin(t, c)
  PROVE  LedgersType' /\ TxsSound' /\ LocksHeld'
<1> DEFINE new == [kind |-> "running", command |-> c, locked |-> 0, weight |-> 10, saw |-> <<>>]
<1>1. /\ ~ Ledgers!Running(t) /\ (c.kind # "settle" => c.amount >= 1)
      /\ ltx' = [ltx EXCEPT ![t] = new]
      /\ UNCHANGED <<ledger, account, recorded, receipts, row_lock, refused>>
  BY DEF Ledgers!Begin, Ledgers!tables
<1>2. new \in LedgerTxRecord
  <2>1. <<>> \in UNION {[rows -> LedgerRow] : rows \in SUBSET Ledgers!Account}
    <3>1. <<>> \in [{} -> LedgerRow]
      OBVIOUS
    <3> QED
      BY <3>1
  <2> QED
    BY <2>1 DEF LedgerTxRecord
<1> HIDE DEF new
<1>3. LedgersType'
  BY <1>1, <1>2 DEF LedgersType
<1>4. \A u \in LedgerTx : u # t => ltx'[u] = ltx[u]
  BY <1>1 DEF LedgersType
<1>5. ltx'[t] = new
  BY <1>1 DEF LedgersType
<1>6. TxsSound'
  <2> SUFFICES ASSUME NEW u \in LedgerTx, Ledgers!Running(u)'
               PROVE  (InOrder(u) /\ HoldsRows(u) /\ SeesRows(u) /\ KnowsWeight(u))'
    BY DEF TxsSound
  <2>1. CASE u = t
    <3>1. ltx'[u].locked = 0 /\ ltx'[u].command = c
      BY <1>5, <2>1 DEF new
    <3>2. Len(Ledgers!LockOrder(c)) \in 1 .. 4
      BY Order
    <3> QED
      BY <1>1, <3>1, <3>2 DEF InOrder, HoldsRows, SeesRows, KnowsWeight, Ordered, Ledgers!LockOrder
  <2>2. CASE u # t
    <3>1. ltx'[u] = ltx[u] /\ Ledgers!Running(u)
      BY <1>4, <2>2 DEF Ledgers!Running
    <3>2. InOrder(u) /\ HoldsRows(u) /\ SeesRows(u) /\ KnowsWeight(u)
      BY <3>1 DEF TxsSound
    <3>3. Ordered(u)' = Ordered(u)
      BY <3>1 DEF Ordered, Ledgers!LockOrder
    <3>4. HoldsRows(u)' /\ InOrder(u)'
      BY <1>1, <3>1, <3>2, <3>3 DEF InOrder, HoldsRows
    <3>5. SeesRows(u)'
      BY <1>1, <3>1, <3>2, <3>3 DEF SeesRows, Ledgers!RowOf, Ledgers!Account, Ledgers!Reserve
    <3>6. KnowsWeight(u)'
      <4>1. \A x, y : Ledgers!SettlementContributionWeight(x, y)'
                       = Ledgers!SettlementContributionWeight(x, y)
        BY <1>1 DEF Ledgers!SettlementContributionWeight, Ledgers!Edges
      <4> QED
        BY <3>1, <3>2, <4>1 DEF KnowsWeight
    <3> QED
      BY <3>4, <3>5, <3>6
  <2> QED
    BY <2>1, <2>2
<1>7. LocksHeld'
  <2> SUFFICES ASSUME NEW r \in Ledgers!Row, row_lock'[r] # None
               PROVE  (Ledgers!Running(row_lock[r])
                       /\ \E i \in 1 .. ltx[row_lock[r]].locked : Ordered(row_lock[r])[i] = r)'
    BY DEF LocksHeld
  <2>1. row_lock'[r] = row_lock[r] /\ Ledgers!Running(row_lock[r]) /\ row_lock[r] \in LedgerTx
    BY <1>1 DEF LocksHeld, LedgersType
  <2>2. ltx'[row_lock[r]] = ltx[row_lock[r]]
    BY <1>1, <1>4, <2>1
  <2>3. \E i \in 1 .. ltx[row_lock[r]].locked : Ordered(row_lock[r])[i] = r
    BY <1>1 DEF LocksHeld
  <2> QED
    BY <2>1, <2>2, <2>3 DEF Ledgers!Running, Ordered, Ledgers!LockOrder
<1> QED
  BY <1>3, <1>6, <1>7

\* The weight depends on the receipts between two users.
LEMMA WeightKept ==
  ASSUME NEW x, NEW y, receipts \in Seq(Receipt), receipts' \in Seq(Receipt),
         \/ receipts' = receipts
         \/ \E r \in Receipt : /\ receipts' = Append(receipts, r)
                               /\ ~ (r.consumer = x /\ r.node = y)
                               /\ ~ (r.consumer = y /\ r.node = x)
  PROVE  Ledgers!SettlementContributionWeight(x, y)' = Ledgers!SettlementContributionWeight(x, y)
<1> DEFINE edges(s, p, q) == {i \in DOMAIN s : s[i].consumer = p /\ s[i].node = q}
<1>1. edges(receipts', x, y) = edges(receipts, x, y) /\ edges(receipts', y, x) = edges(receipts, y, x)
  <2>1. CASE receipts' = receipts
    BY <2>1
  <2>2. ASSUME NEW r \in Receipt, receipts' = Append(receipts, r),
               ~ (r.consumer = x /\ r.node = y), ~ (r.consumer = y /\ r.node = x)
        PROVE  edges(receipts', x, y) = edges(receipts, x, y) /\ edges(receipts', y, x) = edges(receipts, y, x)
    <3>1. /\ Len(receipts) \in Nat /\ DOMAIN receipts = 1 .. Len(receipts)
          /\ DOMAIN receipts' = 1 .. Len(receipts) + 1 /\ receipts'[Len(receipts) + 1] = r
          /\ \A i \in 1 .. Len(receipts) : receipts'[i] = receipts[i]
      BY <2>2
    <3>2. \A i \in DOMAIN receipts' : i \in DOMAIN receipts \/ i = Len(receipts) + 1
      BY <3>1
    <3>3. \A i \in DOMAIN receipts : i \in DOMAIN receipts'
      BY <3>1
    <3> QED
      BY <2>2, <3>1, <3>2, <3>3
  <2> QED
    BY <2>1, <2>2
<1>2. Ledgers!Edges(x, y)' = Ledgers!Edges(x, y) /\ Ledgers!Edges(y, x)' = Ledgers!Edges(y, x)
  BY <1>1 DEF Ledgers!Edges
<1> QED
  BY <1>2 DEF Ledgers!SettlementContributionWeight

\* A lock that is taken adds what it covers to what the transaction has read.
LEMMA LedgerLocks ==
  ASSUME LedgersType, TxsSound, LocksHeld, NEW t \in LedgerTx, Ledgers!Lock(t)
  PROVE  LedgersType' /\ TxsSound' /\ LocksHeld'
<1> DEFINE c == ltx[t].command
           n == ltx[t].locked + 1
           row == Ledgers!LockOrder(c)[n]
<1>1. /\ Ledgers!Running(t) /\ ltx[t].locked # Len(Ledgers!LockOrder(c))
      /\ row_lock[row] \in {None, t}
      /\ row_lock' = [row_lock EXCEPT ![row] = t]
      /\ UNCHANGED <<ledger, account, recorded, receipts, refused>>
  BY DEF Ledgers!Lock, Ledgers!Waits, Ledgers!AllLocked, Ledgers!Wants, Ledgers!tables
<1>2. /\ ltx[t] \in LedgerTxRecord /\ c \in Command /\ ltx[t].locked \in 0 .. 4
      /\ ltx[t].saw \in UNION {[rows -> LedgerRow] : rows \in SUBSET Ledgers!Account}
      /\ InOrder(t) /\ HoldsRows(t) /\ SeesRows(t) /\ KnowsWeight(t)
  BY <1>1, LedgerTxStates DEF LedgerTxRecord, TxsSound
<1>3. n \in 1 .. Len(Ledgers!LockOrder(c)) /\ n <= 4 /\ row \in Ledgers!Row
  <2>1. Len(Ledgers!LockOrder(c)) \in 1 .. 4 /\ Ledgers!LockOrder(c) \in Seq(Ledgers!Row)
    BY <1>2, Order
  <2>2. ltx[t].locked <= Len(Ledgers!LockOrder(c))
    BY <1>2 DEF InOrder, Ordered
  <2>3. n \in 1 .. Len(Ledgers!LockOrder(c)) /\ n <= 4
    BY <1>1, <1>2, <2>1, <2>2
  <2> HIDE DEF n
  <2> QED
    BY <2>1, <2>3, ElementOfSeq
<1> DEFINE saw == [a \in DOMAIN ltx[t].saw \cup {b \in Ledgers!Account : Ledgers!RowOf(b) = row} |->
                    IF Ledgers!RowOf(a) = row THEN account[a] ELSE ltx[t].saw[a]]
           weight == IF Ledgers!AccountsLocked(c, n)
                     THEN Ledgers!SettlementContributionWeight(c.consumer, c.node) ELSE ltx[t].weight
           new == [kind |-> "running", command |-> c, locked |-> n, weight |-> weight, saw |-> saw]
<1>4. ltx' = [ltx EXCEPT ![t] = new]
  <2>1. ltx[t] = [kind |-> "running", command |-> c, locked |-> ltx[t].locked,
                  weight |-> ltx[t].weight, saw |-> ltx[t].saw]
    BY <1>2 DEF LedgerTxRecord
  <2>2. ltx' = [ltx EXCEPT ![t].locked = n, ![t].saw = saw, ![t].weight = weight]
    BY DEF Ledgers!Lock, Ledgers!TakesLock, Ledgers!Wants
  <2> HIDE DEF saw, weight, n, c
  <2>3. ltx' = [ltx EXCEPT ![t] = [[[ltx[t] EXCEPT !.locked = n] EXCEPT !.saw = saw] EXCEPT !.weight = weight]]
    BY <2>2 DEF LedgersType
  <2> DEFINE old == ltx[t]
  <2>4. [[[old EXCEPT !.locked = n] EXCEPT !.saw = saw] EXCEPT !.weight = weight] = new
    <3>1. old = [kind |-> "running", command |-> c, locked |-> old.locked,
                 weight |-> old.weight, saw |-> old.saw]
      BY <2>1
    <3> HIDE DEF old
    <3>2. [old EXCEPT !.locked = n]
            = [kind |-> "running", command |-> c, locked |-> n, weight |-> old.weight, saw |-> old.saw]
      BY <3>1
    <3>3. [[kind |-> "running", command |-> c, locked |-> n, weight |-> old.weight, saw |-> old.saw]
             EXCEPT !.saw = saw]
            = [kind |-> "running", command |-> c, locked |-> n, weight |-> old.weight, saw |-> saw]
      OBVIOUS
    <3>4. [[kind |-> "running", command |-> c, locked |-> n, weight |-> old.weight, saw |-> saw]
             EXCEPT !.weight = weight] = new
      OBVIOUS
    <3> QED
      BY <3>2, <3>3, <3>4
  <2> QED
    BY <2>3, <2>4
<1>5. weight \in {0, 1, 10}
  BY <1>2 DEF Ledgers!SettlementContributionWeight, LedgerTxRecord
<1>6. saw \in UNION {[rows -> LedgerRow] : rows \in SUBSET Ledgers!Account}
  <2>1. PICK rows \in SUBSET Ledgers!Account : ltx[t].saw \in [rows -> LedgerRow]
    BY <1>2
  <2>2. saw \in [rows \cup {b \in Ledgers!Account : Ledgers!RowOf(b) = row} -> LedgerRow]
    BY <2>1 DEF LedgersType
  <2> QED
    BY <2>1, <2>2
<1>7. new \in LedgerTxRecord
  <2>1. c \in Command /\ n \in 0 .. 4
    BY <1>2, <1>3
  <2> HIDE DEF c, n, weight, saw
  <2> QED
    BY <1>5, <1>6, <2>1 DEF LedgerTxRecord
<1>8. /\ \A a \in Ledgers!Account : Ledgers!RowOf(a) = row => a \in DOMAIN saw /\ saw[a] = account[a]
      /\ \A a \in DOMAIN ltx[t].saw : a \in DOMAIN saw
                                   /\ (Ledgers!RowOf(a) # row => saw[a] = ltx[t].saw[a])
  OBVIOUS
<1>9. c.kind = "settle" /\ n >= 3 =>
        weight = Ledgers!SettlementContributionWeight(c.consumer, c.node)
  <2> SUFFICES ASSUME c.kind = "settle", n >= 3
               PROVE  weight = Ledgers!SettlementContributionWeight(c.consumer, c.node)
    OBVIOUS
  <2>1. CASE n = 3
    BY <2>1 DEF Ledgers!AccountsLocked
  <2>2. CASE n # 3
    BY <1>2, <2>2 DEF Ledgers!AccountsLocked, KnowsWeight
  <2> QED
    BY <2>1, <2>2
<1>10. /\ new.kind = "running" /\ new.command = c /\ new.locked = n /\ new.weight = weight /\ new.saw = saw
  OBVIOUS
<1> HIDE DEF new, saw, weight
<1>11. /\ LedgersType' /\ ltx'[t] = new /\ \A u \in LedgerTx : u # t => ltx'[u] = ltx[u]
       /\ row_lock'[row] = t /\ \A r \in Ledgers!Row : r # row => row_lock'[r] = row_lock[r]
  BY <1>1, <1>3, <1>4, <1>7 DEF LedgersType
<1>12. TxsSound'
  <2> SUFFICES ASSUME NEW u \in LedgerTx, Ledgers!Running(u)'
               PROVE  (InOrder(u) /\ HoldsRows(u) /\ SeesRows(u) /\ KnowsWeight(u))'
    BY DEF TxsSound
  <2>1. CASE u = t
    <3>1. ltx'[t].locked = n /\ ltx'[t].command = c /\ ltx'[t].weight = weight /\ ltx'[t].saw = saw
      BY <1>10, <1>11
    <3>2. Ordered(t)' = Ledgers!LockOrder(c) /\ Ordered(t) = Ledgers!LockOrder(c)
      BY <3>1 DEF Ordered, Ledgers!LockOrder
    <3>3. InOrder(t)'
      BY <1>2, <1>3, <3>1, <3>2 DEF InOrder
    <3>4. \A i \in 1 .. n : i = n \/ i \in 1 .. ltx[t].locked
      BY <1>2
    <3>5. HoldsRows(t)'
      <4> SUFFICES ASSUME NEW i \in 1 .. n PROVE row_lock'[Ledgers!LockOrder(c)[i]] = t
        BY <3>1, <3>2 DEF HoldsRows
      <4>1. CASE i = n
        BY <1>11, <4>1
      <4>2. CASE i \in 1 .. ltx[t].locked
        <5>1. row_lock[Ledgers!LockOrder(c)[i]] = t
          BY <1>2, <3>2, <4>2 DEF HoldsRows
        <5>2. row_lock' = [row_lock EXCEPT ![row] = t]
          BY <1>1
        <5>3. Ledgers!LockOrder(c)[i] \in Ledgers!Row
          <6>1. i \in 1 .. Len(Ledgers!LockOrder(c)) /\ Ledgers!LockOrder(c) \in Seq(Ledgers!Row)
            BY <1>2, <1>3, <4>2, Order
          <6> QED
            BY <6>1, ElementOfSeq
        <5> QED
          BY <1>11, <5>1, <5>3
      <4> QED
        BY <3>4, <4>1, <4>2
    <3>6. SeesRows(t)'
      <4> SUFFICES ASSUME NEW a \in Ledgers!Account, NEW i \in 1 .. n,
                          Ledgers!RowOf(a) = Ledgers!LockOrder(c)[i]
                   PROVE  a \in DOMAIN saw /\ saw[a] = account'[a]
        BY <3>1, <3>2 DEF SeesRows, Ledgers!RowOf, Ledgers!Reserve, Ledgers!Account
      <4>1. CASE Ledgers!RowOf(a) = row
        BY <1>1, <1>8, <4>1
      <4>2. CASE Ledgers!RowOf(a) # row
        <5>1. i \in 1 .. ltx[t].locked
          BY <3>4, <4>2
        <5>2. a \in DOMAIN ltx[t].saw /\ ltx[t].saw[a] = account[a]
          BY <1>2, <3>2, <5>1 DEF SeesRows
        <5> QED
          BY <1>1, <1>8, <4>2, <5>2
      <4> QED
        BY <4>1, <4>2
    <3>7. KnowsWeight(t)'
      BY <1>1, <1>9, <3>1 DEF KnowsWeight, Ledgers!SettlementContributionWeight, Ledgers!Edges
    <3> QED
      BY <2>1, <3>3, <3>5, <3>6, <3>7
  <2>2. CASE u # t
    <3>1. ltx'[u] = ltx[u] /\ Ledgers!Running(u)
      BY <1>11, <2>2 DEF Ledgers!Running
    <3>2. InOrder(u) /\ HoldsRows(u) /\ SeesRows(u) /\ KnowsWeight(u)
      BY <3>1 DEF TxsSound
    <3>3. Ordered(u)' = Ordered(u)
      BY <3>1 DEF Ordered, Ledgers!LockOrder
    <3>4. HoldsRows(u)'
      <4> SUFFICES ASSUME NEW i \in 1 .. ltx[u].locked PROVE row_lock'[Ordered(u)[i]] = u
        BY <3>1, <3>3 DEF HoldsRows
      <4>1. row_lock[Ordered(u)[i]] = u
        BY <3>2 DEF HoldsRows
      <4>2. Ordered(u)[i] # row
        BY <1>1, <2>2, <4>1, LedgerAssumption
      <4> QED
        BY <1>1, <4>1, <4>2 DEF LedgersType
    <3> QED
      BY <1>1, <3>1, <3>2, <3>3, <3>4 DEF InOrder, SeesRows, KnowsWeight, Ledgers!RowOf, Ledgers!Account,
         Ledgers!Reserve, Ledgers!SettlementContributionWeight, Ledgers!Edges
  <2> QED
    BY <2>1, <2>2
<1>13. LocksHeld'
  <2> SUFFICES ASSUME NEW r \in Ledgers!Row, row_lock'[r] # None
               PROVE  (Ledgers!Running(row_lock[r])
                       /\ \E i \in 1 .. ltx[row_lock[r]].locked : Ordered(row_lock[r])[i] = r)'
    BY DEF LocksHeld
  <2>0. Ordered(t)' = Ledgers!LockOrder(c) /\ ltx'[t].locked = n /\ Ledgers!Running(t)'
    BY <1>10, <1>11 DEF Ordered, Ledgers!LockOrder, Ledgers!Running
  <2>1. CASE r = row
    <3>1. n \in 1 .. n
      BY <1>3
    <3> QED
      BY <1>11, <2>0, <2>1, <3>1
  <2>2. CASE r # row
    <3>1. row_lock'[r] = row_lock[r] /\ Ledgers!Running(row_lock[r]) /\ row_lock[r] \in LedgerTx
          /\ \E i \in 1 .. ltx[row_lock[r]].locked : Ordered(row_lock[r])[i] = r
      BY <1>11, <2>2 DEF LocksHeld, LedgersType
    <3>2. CASE row_lock[r] = t
      <4>1. PICK i \in 1 .. ltx[t].locked : Ordered(t)[i] = r
        BY <3>1, <3>2
      <4>2. i \in 1 .. n /\ Ledgers!LockOrder(c)[i] = r
        BY <1>2, <4>1 DEF Ordered
      <4> QED
        BY <2>0, <3>1, <3>2, <4>2
    <3>3. CASE row_lock[r] # t
      <4>1. ltx'[row_lock[r]] = ltx[row_lock[r]]
        BY <1>11, <3>1, <3>3
      <4> QED
        BY <3>1, <4>1 DEF Ledgers!Running, Ordered, Ledgers!LockOrder
    <3> QED
      BY <3>2, <3>3
  <2> QED
    BY <2>1, <2>2
<1> QED
  BY <1>11, <1>12, <1>13

-----------------------------------------------------------------------------
\* A transaction that ends, with what it wrote to the accounts whose rows it
\* holds and to the receipts of users whose rows it holds.
LEMMA LedgerEnds ==
  ASSUME LedgersType, TxsSound, LocksHeld, NEW t \in LedgerTx, Ledgers!Running(t), Ledgers!EndsTx(t),
         \A a \in Ledgers!Account : row_lock[Ledgers!RowOf(a)] # t => account'[a] = account[a],
         \A u \in LedgerTx : u # t /\ Ledgers!Running(u) => KnowsWeight(u)'
  PROVE  /\ ltx' \in [LedgerTx -> LedgerTxRecord \cup {Ledgers!LedgerIdle}]
         /\ row_lock' \in [Ledgers!Row -> LedgerTx \cup {None}]
         /\ TxsSound' /\ LocksHeld'
<1>1. /\ ltx' = [ltx EXCEPT ![t] = Ledgers!LedgerIdle]
      /\ row_lock' = [r \in Ledgers!Row |-> IF row_lock[r] = t THEN None ELSE row_lock[r]]
  BY DEF Ledgers!EndsTx
<1>2. /\ ltx' \in [LedgerTx -> LedgerTxRecord \cup {Ledgers!LedgerIdle}]
      /\ row_lock' \in [Ledgers!Row -> LedgerTx \cup {None}]
  BY <1>1 DEF LedgersType
<1>3. ltx'[t] = Ledgers!LedgerIdle /\ \A u \in LedgerTx : u # t => ltx'[u] = ltx[u]
  BY <1>1 DEF LedgersType
<1>4. TxsSound'
  <2> SUFFICES ASSUME NEW u \in LedgerTx, Ledgers!Running(u)'
               PROVE  (InOrder(u) /\ HoldsRows(u) /\ SeesRows(u) /\ KnowsWeight(u))'
    BY DEF TxsSound
  <2>1. u # t
    BY <1>3, LedgerTxStates DEF Ledgers!Running
  <2>2. ltx'[u] = ltx[u] /\ Ledgers!Running(u)
    BY <1>3, <2>1 DEF Ledgers!Running
  <2>3. InOrder(u) /\ HoldsRows(u) /\ SeesRows(u) /\ ltx[u] \in LedgerTxRecord
    BY <2>2, LedgerTxStates DEF TxsSound
  <2>4. Ordered(u)' = Ordered(u)
    BY <2>2 DEF Ordered, Ledgers!LockOrder
  <2>5. \A i \in 1 .. ltx[u].locked : Ordered(u)[i] \in Ledgers!Row
    <3> TAKE i \in 1 .. ltx[u].locked
    <3>1. ltx[u].command \in Command /\ ltx[u].locked \in 0 .. 4 /\ ltx[u].locked <= Len(Ordered(u))
      BY <2>3 DEF LedgerTxRecord, InOrder
    <3>2. Ordered(u) \in Seq(Ledgers!Row) /\ Len(Ordered(u)) \in 1 .. 4
      BY <3>1, Order DEF Ordered
    <3>3. i \in 1 .. Len(Ordered(u))
      BY <3>1, <3>2
    <3> QED
      BY <3>2, <3>3, ElementOfSeq
  <2>6. HoldsRows(u)'
    <3> SUFFICES ASSUME NEW i \in 1 .. ltx[u].locked PROVE row_lock'[Ordered(u)[i]] = u
      BY <2>2, <2>4 DEF HoldsRows
    <3>1. row_lock[Ordered(u)[i]] = u
      BY <2>3 DEF HoldsRows
    <3> QED
      BY <1>1, <2>1, <2>5, <3>1
  <2>7. SeesRows(u)'
    <3> SUFFICES ASSUME NEW a \in Ledgers!Account, NEW i \in 1 .. ltx[u].locked,
                        Ledgers!RowOf(a) = Ordered(u)[i]
                 PROVE  a \in DOMAIN ltx[u].saw /\ ltx[u].saw[a] = account'[a]
      BY <2>2, <2>4 DEF SeesRows, Ledgers!RowOf, Ledgers!Reserve, Ledgers!Account
    <3>1. row_lock[Ledgers!RowOf(a)] # t
      BY <2>1, <2>3 DEF HoldsRows
    <3> QED
      BY <2>3, <3>1 DEF SeesRows
  <2>8. InOrder(u)'
    BY <2>2, <2>3, <2>4 DEF InOrder
  <2> QED
    BY <2>1, <2>2, <2>6, <2>7, <2>8
<1>5. LocksHeld'
  <2> SUFFICES ASSUME NEW r \in Ledgers!Row, row_lock'[r] # None
               PROVE  (Ledgers!Running(row_lock[r])
                       /\ \E i \in 1 .. ltx[row_lock[r]].locked : Ordered(row_lock[r])[i] = r)'
    BY DEF LocksHeld
  <2>1. row_lock'[r] = row_lock[r] /\ row_lock[r] # t /\ row_lock[r] \in LedgerTx
    BY <1>1 DEF LedgersType
  <2>2. Ledgers!Running(row_lock[r]) /\ \E i \in 1 .. ltx[row_lock[r]].locked : Ordered(row_lock[r])[i] = r
    BY <2>1 DEF LocksHeld
  <2>3. ltx'[row_lock[r]] = ltx[row_lock[r]]
    BY <1>3, <2>1
  <2> QED
    BY <2>1, <2>2, <2>3 DEF Ledgers!Running, Ordered, Ledgers!LockOrder
<1> QED
  BY <1>2, <1>4, <1>5

-----------------------------------------------------------------------------
\* What a settlement pays is what the consumer loses.
LEMMA Pays ==
  ASSUME NEW c \in Command, c.kind = "settle"
  PROVE  /\ Ledgers!UserDeduction(c.base, c.tier) \in Nat
         /\ Ledgers!NodeSpendableQuota(c.base, c.tier, c.trust) \in Nat
         /\ Ledgers!NodeContributionPoints(c.base, c.tier, c.trust) \in Nat
         /\ Ledgers!ReserveInflow(c.base, c.tier, c.trust) \in Nat
         /\ Ledgers!UserDeduction(c.base, c.tier) =
               Ledgers!NodeSpendableQuota(c.base, c.tier, c.trust)
                 + Ledgers!ReserveInflow(c.base, c.tier, c.trust)
         /\ c.consumer \in User /\ c.node \in User /\ c.precreate \in 0 .. 10
<1>1. /\ c.base \in Nat /\ c.tier \in {"high", "medium", "low"}
      /\ c.trust \in {"enhanced", "standard", "unverified"}
      /\ c.consumer \in User /\ c.node \in User /\ c.precreate \in 0 .. 10
  BY LedgerAssumption
<1>2. Ledgers!TierMilli(c.tier) \in {1500, 1000, 700} /\ Ledgers!TrustMilli(c.trust) \in {1100, 1000, 500}
  BY <1>1 DEF Ledgers!TierMilli, Ledgers!TrustMilli
<1> DEFINE milli == Ledgers!TierMilli(c.tier)
           trust == Ledgers!TrustMilli(c.trust)
           paid == Ledgers!UserDeduction(c.base, c.tier)
<1>3. paid = (c.base * milli + 999) \div 1000
  BY DEF Ledgers!UserDeduction, Ledgers!MulMilliCeil
<1>4. /\ Ledgers!NodeSpendableQuota(c.base, c.tier, c.trust) = (paid * (800 * trust)) \div 1000000
      /\ Ledgers!NodeContributionPoints(c.base, c.tier, c.trust) = (paid * (1200 * trust)) \div 1000000
      /\ Ledgers!ReserveInflow(c.base, c.tier, c.trust) =
            paid - Ledgers!NodeSpendableQuota(c.base, c.tier, c.trust)
  BY DEF Ledgers!NodeSpendableQuota, Ledgers!NodeContributionPoints, Ledgers!ReserveInflow,
     Ledgers!MulTwoMilliFloor
<1> HIDE DEF milli, trust, paid
<1>5. paid \in Nat
  <2>1. milli = 1500 \/ milli = 1000 \/ milli = 700
    BY <1>2 DEF milli
  <2> QED
    BY <1>1, <1>3, <2>1
<1>6. trust = 1100 \/ trust = 1000 \/ trust = 500
  BY <1>2 DEF trust
<1>7. (paid * (800 * trust)) \div 1000000 \in Nat /\ (paid * (1200 * trust)) \div 1000000 \in Nat
      /\ (paid * (800 * trust)) \div 1000000 <= paid
  BY <1>5, <1>6
<1> QED
  BY <1>1, <1>4, <1>5, <1>7 DEF paid

-----------------------------------------------------------------------------
\* An entry on the row of an account.
LEMMA EntryOf ==
  ASSUME NEW c \in Command, NEW label \in Label, NEW delta \in Int,
         NEW row, row.balance \in Int, row.head \in LedgerKey
  PROVE  /\ Ledgers!LedgerEntry(<<c.key, label>>, delta, row) \in RawEntry(c)
         /\ Ledgers!Extends(row, Ledgers!LedgerEntry(<<c.key, label>>, delta, row))
         /\ Ledgers!LedgerEntry(<<c.key, label>>, delta, row).after = row.balance + delta
         /\ Ledgers!LedgerEntry(<<c.key, label>>, delta, row).delta = delta
         /\ Ledgers!LedgerEntry(<<c.key, label>>, delta, row).key = <<c.key, label>>
  BY DEF Ledgers!LedgerEntry, RawEntry, Ledgers!Extends

\* The entries of a grant or a release.
LEMMA OneEntry ==
  ASSUME NEW c \in Command, NEW e \in RawEntry(c), NEW row, Ledgers!Extends(row, e)
  PROVE  /\ <<e>> \in Seq(RawEntry(c)) /\ <<e>> # <<>> /\ Ledgers!AllExtend(row, <<e>>)
         /\ \A i, j \in DOMAIN <<e>> : <<e>>[i].key = <<e>>[j].key => i = j
         /\ Len(<<e>>) = 1
<1>1. DOMAIN <<e>> = {1} /\ <<e>>[1] = e /\ Len(<<e>>) = 1
  OBVIOUS
<1>2. <<e>> \in Seq(RawEntry(c)) /\ <<e>> # <<>>
  OBVIOUS
<1>3. Ledgers!AllExtend(row, <<e>>)
  BY <1>1 DEF Ledgers!AllExtend
<1> QED
  BY <1>1, <1>2, <1>3

\* The entries of a user's own job.
LEMMA TwoEntries ==
  ASSUME NEW c \in Command, NEW d \in RawEntry(c), NEW e \in RawEntry(c), NEW row,
         Ledgers!Extends(row, d), Ledgers!Extends(Ledgers!Advanced(row, d), e), d.key # e.key
  PROVE  /\ <<d, e>> \in Seq(RawEntry(c)) /\ <<d, e>> # <<>> /\ Ledgers!AllExtend(row, <<d, e>>)
         /\ \A i, j \in DOMAIN <<d, e>> : <<d, e>>[i].key = <<d, e>>[j].key => i = j
         /\ Len(<<d, e>>) = 2
<1>1. DOMAIN <<d, e>> = {1, 2} /\ <<d, e>>[1] = d /\ <<d, e>>[2] = e /\ Len(<<d, e>>) = 2
  OBVIOUS
<1>2. <<d, e>> \in Seq(RawEntry(c)) /\ <<d, e>> # <<>>
  OBVIOUS
<1>3. Ledgers!AllExtend(row, <<d, e>>)
  BY <1>1 DEF Ledgers!AllExtend
<1>4. \A i, j \in DOMAIN <<d, e>> : <<d, e>>[i].key = <<d, e>>[j].key => i = j
  BY <1>1
<1> QED
  BY <1>1, <1>2, <1>3, <1>4

\* The entries of a settlement, on the accounts as they are.
SettleRows(c) == {Ledgers!Quota(c.consumer), Ledgers!Quota(c.node), Ledgers!Contribution(c.node), Ledgers!Reserve}

\* A settlement's entries are labelled, each key once, and on what was read.
LEMMA SettlementIsNew ==
  ASSUME LedgersType, NEW c \in Command, c.kind = "settle", NEW weight \in {0, 1, 10},
         NEW saw, \A a \in SettleRows(c) : saw[a] = account[a]
  PROVE  LET new == Ledgers!SettlementEntries(c, saw, weight)
             paid == Ledgers!UserDeduction(c.base, c.tier)
             gained == Ledgers!NodeSpendableQuota(c.base, c.tier, c.trust)
             kept == Ledgers!ReserveInflow(c.base, c.tier, c.trust)
         IN /\ NewEntries(c, new) /\ DOMAIN new = SettleRows(c)
            /\ Len(new[Ledgers!Reserve]) = 1
            /\ new[Ledgers!Reserve][1].delta = kept
            /\ new[Ledgers!Reserve][1].after = account[Ledgers!Reserve].balance + kept
            /\ c.node = c.consumer =>
                 /\ Len(new[Ledgers!Quota(c.consumer)]) = 2
                 /\ new[Ledgers!Quota(c.consumer)][2].after =
                      account[Ledgers!Quota(c.consumer)].balance - paid + gained
            /\ c.node # c.consumer =>
                 /\ Len(new[Ledgers!Quota(c.consumer)]) = 1
                 /\ new[Ledgers!Quota(c.consumer)][1].after =
                      account[Ledgers!Quota(c.consumer)].balance - paid
                 /\ Len(new[Ledgers!Quota(c.node)]) = 1
                 /\ new[Ledgers!Quota(c.node)][1].after =
                      account[Ledgers!Quota(c.node)].balance + gained
<1> DEFINE new == Ledgers!SettlementEntries(c, saw, weight)
           paid == Ledgers!UserDeduction(c.base, c.tier)
           gained == Ledgers!NodeSpendableQuota(c.base, c.tier, c.trust)
           kept == Ledgers!ReserveInflow(c.base, c.tier, c.trust)
           points == (Ledgers!NodeContributionPoints(c.base, c.tier, c.trust)
                        * Ledgers!Less(c.precreate, weight)) \div 10
           Qc == Ledgers!Quota(c.consumer)
           Qn == Ledgers!Quota(c.node)
           Cn == Ledgers!Contribution(c.node)
           Rs == Ledgers!Reserve
           deducted == Ledgers!LedgerEntry(<<c.key, "consumer">>, -paid, saw[Qc])
           node_row == IF c.node = c.consumer THEN Ledgers!Advanced(saw[Qn], deducted) ELSE saw[Qn]
           reward == Ledgers!LedgerEntry(<<c.key, "node-quota">>, gained, node_row)
           credit == Ledgers!LedgerEntry(<<c.key, "contribution">>, points, saw[Cn])
           share == Ledgers!LedgerEntry(<<c.key, "reserve">>, kept, saw[Rs])
<1>1. new = [a \in {Qc, Qn, Cn, Rs} |->
               CASE a = Rs -> <<Ledgers!LedgerEntry(<<c.key, "reserve">>, kept, saw[a])>>
                 [] a = Cn -> <<Ledgers!LedgerEntry(<<c.key, "contribution">>, points, saw[a])>>
                 [] a = Qc /\ c.node = c.consumer -> <<deducted, reward>>
                 [] a = Qc /\ c.node # c.consumer -> <<deducted>>
                 [] a = Qn /\ c.node # c.consumer -> <<reward>>]
  BY DEF Ledgers!SettlementEntries
<1>2. /\ paid \in Nat /\ gained \in Nat /\ kept \in Nat /\ points \in Int
      /\ c.consumer \in User /\ c.node \in User
  <2>1. /\ paid \in Nat /\ gained \in Nat /\ kept \in Nat
        /\ c.consumer \in User /\ c.node \in User /\ c.precreate \in 0 .. 10
        /\ Ledgers!NodeContributionPoints(c.base, c.tier, c.trust) \in Nat
    BY Pays
  <2>2. Ledgers!Less(c.precreate, weight) \in 0 .. 10
    BY <2>1 DEF Ledgers!Less
  <2> HIDE DEF paid, gained, kept
  <2>3. ASSUME NEW x \in Nat, NEW w \in 0 .. 10 PROVE (x * w) \div 10 \in Int
    OBVIOUS
  <2> QED
    BY <2>1, <2>2, <2>3
<1>3. /\ Qc \in Ledgers!Account /\ Qn \in Ledgers!Account /\ Cn \in Ledgers!Account /\ Rs \in Ledgers!Account
      /\ Qc # Cn /\ Qc # Rs /\ Qn # Cn /\ Qn # Rs /\ Cn # Rs
      /\ (c.node # c.consumer => Qn # Qc) /\ (c.node = c.consumer => Qn = Qc)
  BY <1>2, Names
<1>4. SettleRows(c) = {Qc, Qn, Cn, Rs}
  BY DEF SettleRows
<1> HIDE DEF Qc, Qn, Cn, Rs, paid, gained, kept, points, new
<1>5. /\ DOMAIN new = {Qc, Qn, Cn, Rs}
      /\ new[Rs] = <<share>> /\ new[Cn] = <<credit>>
      /\ c.node = c.consumer => new[Qc] = <<deducted, reward>>
      /\ c.node # c.consumer => new[Qc] = <<deducted>> /\ new[Qn] = <<reward>>
  <2> HIDE DEF deducted, reward
  <2> QED
    BY <1>1, <1>3
<1>6. \A a \in {Qc, Qn, Cn, Rs} : saw[a] = account[a] /\ account[a].balance \in Int /\ account[a].head \in LedgerKey
  <2> TAKE a \in {Qc, Qn, Cn, Rs}
  <2>1. a \in Ledgers!Account
    BY <1>3
  <2>2. account[a] \in LedgerRow
    BY <2>1 DEF LedgersType
  <2> QED
    BY <1>4, <2>2 DEF LedgerRow
<1>7. \A label \in Label : <<c.key, label>> \in LedgerKey
  BY DEF LedgerKey
<1>8. /\ deducted \in RawEntry(c) /\ Ledgers!Extends(account[Qc], deducted)
      /\ deducted.after = account[Qc].balance - paid /\ deducted.key = <<c.key, "consumer">>
  <2>1. "consumer" \in Label /\ -paid \in Int
    BY <1>2 DEF Label
  <2>2. account[Qc].balance \in Int /\ account[Qc].head \in LedgerKey /\ saw[Qc] = account[Qc]
    BY <1>6
  <2>3. account[Qc].balance + -paid = account[Qc].balance - paid
    BY <1>2, <2>2
  <2> QED
    BY <2>1, <2>2, <2>3, EntryOf
<1>9. /\ share \in RawEntry(c) /\ Ledgers!Extends(account[Rs], share)
      /\ share.after = account[Rs].balance + kept /\ share.delta = kept
  <2>1. "reserve" \in Label
    BY DEF Label
  <2>2. account[Rs].balance \in Int /\ account[Rs].head \in LedgerKey /\ saw[Rs] = account[Rs] /\ kept \in Int
    BY <1>2, <1>6
  <2> QED
    BY <2>1, <2>2, EntryOf
<1>10. credit \in RawEntry(c) /\ Ledgers!Extends(account[Cn], credit)
  <2>1. "contribution" \in Label
    BY DEF Label
  <2>2. account[Cn].balance \in Int /\ account[Cn].head \in LedgerKey /\ saw[Cn] = account[Cn] /\ points \in Int
    BY <1>2, <1>6
  <2> QED
    BY <2>1, <2>2, EntryOf
<1>11. node_row.balance \in Int /\ node_row.head \in LedgerKey
       /\ (c.node = c.consumer => node_row = Ledgers!Advanced(account[Qc], deducted)
                                  /\ node_row.balance = account[Qc].balance - paid)
       /\ (c.node # c.consumer => node_row = account[Qn])
  <2>1. CASE c.node = c.consumer
    <3>1. node_row = Ledgers!Advanced(account[Qc], deducted)
      BY <1>3, <1>6, <2>1
    <3>2. Ledgers!Advanced(account[Qc], deducted).balance = deducted.after
          /\ Ledgers!Advanced(account[Qc], deducted).head = deducted.key
      BY DEF Ledgers!Advanced
    <3>3. "consumer" \in Label /\ account[Qc].balance - paid \in Int
      BY <1>2, <1>6 DEF Label
    <3> HIDE DEF deducted, node_row
    <3> QED
      BY <1>7, <1>8, <2>1, <3>1, <3>2, <3>3
  <2>2. CASE c.node # c.consumer
    BY <1>6, <2>2
  <2> QED
    BY <2>1, <2>2
<1> HIDE DEF node_row
<1>12. /\ reward \in RawEntry(c) /\ Ledgers!Extends(node_row, reward)
       /\ reward.after = node_row.balance + gained /\ reward.key = <<c.key, "node-quota">>
  <2>1. "node-quota" \in Label /\ gained \in Int
    BY <1>2 DEF Label
  <2> QED
    BY <1>11, <2>1, EntryOf
<1>13. deducted.key # reward.key
  BY <1>8, <1>12
<1> HIDE DEF deducted, reward, credit, share
<1>14. /\ new[Rs] \in Seq(RawEntry(c)) /\ new[Rs] # <<>> /\ Ledgers!AllExtend(account[Rs], new[Rs])
       /\ \A i, j \in DOMAIN new[Rs] : new[Rs][i].key = new[Rs][j].key => i = j
       /\ Len(new[Rs]) = 1 /\ new[Rs][1] = share
  BY <1>5, <1>9, OneEntry
<1>15. /\ new[Cn] \in Seq(RawEntry(c)) /\ new[Cn] # <<>> /\ Ledgers!AllExtend(account[Cn], new[Cn])
       /\ \A i, j \in DOMAIN new[Cn] : new[Cn][i].key = new[Cn][j].key => i = j
  BY <1>5, <1>10, OneEntry
<1>16. CASE c.node = c.consumer
  <2>1. /\ new[Qc] \in Seq(RawEntry(c)) /\ new[Qc] # <<>> /\ Ledgers!AllExtend(account[Qc], new[Qc])
        /\ \A i, j \in DOMAIN new[Qc] : new[Qc][i].key = new[Qc][j].key => i = j
        /\ Len(new[Qc]) = 2 /\ new[Qc][2] = reward
    <3>1. Ledgers!Extends(Ledgers!Advanced(account[Qc], deducted), reward)
      BY <1>11, <1>12, <1>16
    <3>2. /\ <<deducted, reward>> \in Seq(RawEntry(c)) /\ <<deducted, reward>> # <<>>
          /\ Ledgers!AllExtend(account[Qc], <<deducted, reward>>)
          /\ \A i, j \in DOMAIN <<deducted, reward>> :
               <<deducted, reward>>[i].key = <<deducted, reward>>[j].key => i = j
          /\ Len(<<deducted, reward>>) = 2
      BY <1>8, <1>12, <1>13, <3>1, TwoEntries
    <3>3. new[Qc] = <<deducted, reward>>
      BY <1>5, <1>16
    <3> QED
      BY <3>2, <3>3
  <2>2. \A a \in {Qc, Qn, Cn, Rs} : a \in {Qc, Cn, Rs}
    BY <1>3, <1>16
  <2>3. NewEntries(c, new)
    BY <1>3, <1>5, <1>14, <1>15, <2>1, <2>2 DEF NewEntries
  <2> QED
    BY <1>4, <1>5, <1>9, <1>11, <1>12, <1>14, <1>16, <2>1, <2>3 DEF new, paid, gained, kept, Qc, Qn, Rs
<1>17. CASE c.node # c.consumer
  <2>1. /\ new[Qc] \in Seq(RawEntry(c)) /\ new[Qc] # <<>> /\ Ledgers!AllExtend(account[Qc], new[Qc])
        /\ \A i, j \in DOMAIN new[Qc] : new[Qc][i].key = new[Qc][j].key => i = j
        /\ Len(new[Qc]) = 1 /\ new[Qc][1] = deducted
    <3>1. new[Qc] = <<deducted>>
      BY <1>5, <1>17
    <3> QED
      BY <1>8, <3>1, OneEntry
  <2>2. /\ new[Qn] \in Seq(RawEntry(c)) /\ new[Qn] # <<>> /\ Ledgers!AllExtend(account[Qn], new[Qn])
        /\ \A i, j \in DOMAIN new[Qn] : new[Qn][i].key = new[Qn][j].key => i = j
        /\ Len(new[Qn]) = 1 /\ new[Qn][1] = reward
    <3>1. new[Qn] = <<reward>> /\ Ledgers!Extends(account[Qn], reward)
      BY <1>5, <1>11, <1>12, <1>17
    <3> QED
      BY <1>12, <3>1, OneEntry
  <2>3. NewEntries(c, new)
    <3>1. DOMAIN new \subseteq Ledgers!Account
      BY <1>3, <1>5
    <3>2. ASSUME NEW a \in DOMAIN new
          PROVE  /\ new[a] \in Seq(RawEntry(c))
                 /\ new[a] # <<>> /\ Ledgers!AllExtend(account[a], new[a])
                 /\ \A i, j \in DOMAIN new[a] : new[a][i].key = new[a][j].key => i = j
      <4>1. a = Qc \/ a = Qn \/ a = Cn \/ a = Rs
        BY <1>5
      <4>2. CASE a = Qc
        BY <2>1, <4>2
      <4>3. CASE a = Qn
        BY <2>2, <4>3
      <4>4. CASE a = Cn
        BY <1>15, <4>4
      <4>5. CASE a = Rs
        BY <1>14, <4>5
      <4> QED
        BY <4>1, <4>2, <4>3, <4>4, <4>5
    <3> QED
      BY <3>1, <3>2 DEF NewEntries
  <2> QED
    BY <1>4, <1>5, <1>8, <1>9, <1>11, <1>12, <1>14, <1>17, <2>1, <2>2, <2>3
       DEF new, paid, gained, kept, Qc, Qn, Rs
<1> QED
  BY <1>16, <1>17

-----------------------------------------------------------------------------
\* The spendable accounts of some users.
Accounts(users) == {Ledgers!Quota(u) : u \in users}

\* The accounts that hold money: the users' and the reserve.
LEMMA MoneyIs ==
  /\ Ledgers!Money = Accounts(User) \cup {Ledgers!Reserve}
  /\ Ledgers!Reserve \notin Accounts(User)
  /\ Ledgers!Money \subseteq Ledgers!Account
<1>1. \A u \in User : /\ Ledgers!Quota(u) \in Ledgers!Account /\ Ledgers!Contribution(u)[1] = "contribution"
                       /\ Ledgers!Quota(u)[1] = "quota" /\ Ledgers!Quota(u) # Ledgers!Reserve
  BY Names
<1>2. Ledgers!Reserve \in Ledgers!Account /\ Ledgers!Reserve[1] = "reserve"
  BY Names
<1>3. Ledgers!Account = Accounts(User) \cup {Ledgers!Contribution(u) : u \in User} \cup {Ledgers!Reserve}
  BY DEF Ledgers!Account, Accounts
<1> QED
  BY <1>1, <1>2, <1>3 DEF Ledgers!Money, Accounts

\* The money of some users that own the same.
LEMMA EqualMoney ==
  ASSUME NEW f, NEW amount \in Nat, NEW users \in SUBSET User, \A u \in users : f[Ledgers!Quota(u)] = amount
  PROVE  /\ IsFiniteSet(Accounts(users)) /\ Cardinality(users) \in Nat
         /\ SumOf(f, Accounts(users)) = amount * Cardinality(users)
<1> DEFINE Fine(T) == /\ IsFiniteSet(Accounts(T)) /\ Cardinality(T) \in Nat
                      /\ SumOf(f, Accounts(T)) = amount * Cardinality(T)
           Bad == {T \in SUBSET users : ~ Fine(T)}
<1>0. IsFiniteSet(users)
  BY LedgerAssumption, FS_Subset
<1> SUFFICES ASSUME Bad # {} PROVE FALSE
  OBVIOUS
<1>1. PICK T \in Bad : IsFiniteSet(T) /\ \A x \in T : T \ {x} \notin Bad
  <2>1. Bad \in SUBSET SUBSET users
    OBVIOUS
  <2> HIDE DEF Bad
  <2> QED
    BY <1>0, <2>1, LeastSubset
<1>2. T \in SUBSET users /\ ~ Fine(T)
  BY <1>1
<1>3. CASE T = {}
  <2>1. Accounts(T) = {}
    BY <1>3 DEF Accounts
  <2>2. SumOf(f, {}) = 0 /\ IsFiniteSet({})
    BY SumPicks, FS_EmptySet
  <2>3. Cardinality(T) = 0 /\ amount * 0 = 0
    BY <1>3, FS_EmptySet
  <2> QED
    BY <1>2, <2>1, <2>2, <2>3
<1>4. CASE T # {}
  <2>1. PICK u \in T : TRUE
    BY <1>4
  <2> DEFINE rest == T \ {u}
             new == Ledgers!Quota(u)
  <2>2. Fine(rest)
    BY <1>1, <2>1
  <2>3. Accounts(T) = Accounts(rest) \cup {new} /\ new \notin Accounts(rest)
    BY <2>1, Names DEF Accounts
  <2>4. \A a \in Accounts(rest) \cup {new} : f[a] = amount
    BY <1>2, <2>1 DEF Accounts
  <2>5. Cardinality(rest) = Cardinality(T) - 1 /\ Cardinality(T) \in Nat
    BY <1>1, <2>1, FS_RemoveElement, FS_CardinalityType
  <2>6. IsFiniteSet(Accounts(rest) \cup {new})
    BY <2>2, FS_AddElement
  <2>7. SumOf(f, Accounts(rest) \cup {new}) = f[new] + SumOf(f, Accounts(rest))
    <3>1. \A a \in Accounts(rest) \cup {new} : f[a] \in Int
      BY <2>4
    <3> HIDE DEF rest, new
    <3> QED
      BY <2>2, <2>3, <3>1, SumAdd
  <2>8. f[new] = amount
    BY <2>4
  <2> DEFINE n == Cardinality(T)
             m == Cardinality(rest)
             part == SumOf(f, Accounts(rest))
             whole == SumOf(f, Accounts(T))
  <2>9. whole = amount + part /\ part = amount * m /\ m = n - 1 /\ n \in Nat
    BY <2>2, <2>3, <2>5, <2>7, <2>8
  <2> HIDE DEF n, m, part, whole
  <2>10. whole = amount * n
    <3>1. amount + amount * (n - 1) = amount * n
      BY <2>9
    <3> QED
      BY <2>9, <3>1
  <2> QED
    BY <1>2, <2>3, <2>5, <2>6, <2>10 DEF n, whole
<1> QED
  BY <1>3, <1>4

\* They are finitely many.
LEMMA MoneyFinite == IsFiniteSet(Ledgers!Money)
<1>1. \A u \in User : [a \in Accounts(User) |-> 0][Ledgers!Quota(u)] = 0
  BY DEF Accounts
<1>2. IsFiniteSet(Accounts(User))
  BY <1>1, EqualMoney
<1> QED
  BY <1>2, MoneyIs, FS_AddElement

\* What they hold.
Balances == [a \in Ledgers!Money |-> account[a].balance]
\* What they hold together is what was granted less what was released.
MoneyKept ==
  SumOf(Balances, Ledgers!Money)
    = InitialQuota * Cardinality(User) + Ledgers!Amounts("grant") - Ledgers!Amounts("release")

\* Balances are numbers.
LEMMA BalancesType ==
  ASSUME account \in [Ledgers!Account -> LedgerRow]
  PROVE  /\ \A a \in Ledgers!Money : Balances[a] = account[a].balance /\ Balances[a] \in Int
         /\ SumOf(Balances, Ledgers!Money) \in Int
<1>1. \A a \in Ledgers!Money : Balances[a] = account[a].balance /\ Balances[a] \in Int
  BY MoneyIs DEF Balances, LedgerRow
<1> QED
  BY <1>1, MoneyFinite, SumType

\* What one account pays to a second one and to a third.
Settled(f, g, x, y, z, paid, gained) ==
  /\ \A a \in Ledgers!Money : f[a] \in Int /\ g[a] \in Int
  /\ x \in Ledgers!Money /\ y \in Ledgers!Money /\ z \in Ledgers!Money /\ z # x /\ z # y
  /\ \A a \in Ledgers!Money : a # x /\ a # y /\ a # z => g[a] = f[a]
  /\ paid \in Int /\ gained \in Int /\ g[z] = f[z] + paid - gained
  /\ x = y => g[x] = f[x] - paid + gained
  /\ x # y => g[x] = f[x] - paid /\ g[y] = f[y] + gained

\* The balances after the entries of a settlement.
LEMMA SettlementKeepsMoney ==
  ASSUME NEW f, NEW g, NEW x, NEW y, NEW z, NEW paid, NEW gained,
         Settled(f, g, x, y, z, paid, gained)
  PROVE  SumOf(g, Ledgers!Money) = SumOf(f, Ledgers!Money)
<1> USE DEF Settled
<1> DEFINE M == Ledgers!Money
           f1 == [a \in M |-> IF a = z THEN g[z] ELSE f[a]]
           f2 == [a \in M |-> IF a = z \/ a = x THEN g[a] ELSE f[a]]
<1>0. IsFiniteSet(M)
  BY MoneyFinite
<1>1. SumOf(f1, M) = SumOf(f, M) + f1[z] - f[z]
  BY <1>0, SumChange
<1>2. SumOf(f2, M) = SumOf(f1, M) + f2[x] - f1[x]
  BY <1>0, SumChange
<1>3. SumOf(g, M) = SumOf(f2, M) + g[y] - f2[y]
  BY <1>0, SumChange
<1>4. f1[z] = g[z] /\ f2[x] = g[x] /\ f1[x] = f[x] /\ f2[y] = IF y = x THEN g[y] ELSE f[y]
  OBVIOUS
<1>5. SumOf(f, M) \in Int
  BY <1>0, SumType
<1> DEFINE s == SumOf(f, M)
           s1 == SumOf(f1, M)
           s2 == SumOf(f2, M)
           s3 == SumOf(g, M)
<1>6. s1 = s + g[z] - f[z] /\ s2 = s1 + g[x] - f[x]
      /\ s3 = s2 + g[y] - (IF y = x THEN g[y] ELSE f[y]) /\ s \in Int
  BY <1>1, <1>2, <1>3, <1>4, <1>5
<1>7. f[x] \in Int /\ f[y] \in Int /\ f[z] \in Int /\ g[x] \in Int /\ g[y] \in Int /\ g[z] \in Int
  OBVIOUS
<1> HIDE DEF s, s1, s2, s3
<1>8. x = y => s3 = s
  BY <1>6, <1>7
<1>9. x # y => s3 = s
  BY <1>6, <1>7
<1> QED
  BY <1>8, <1>9 DEF s, s3

-----------------------------------------------------------------------------
\* The grants and the releases are those of the commands that were recorded.
LEMMA AmountsGrow ==
  ASSUME recorded \subseteq Command, IsFiniteSet(recorded), NEW kind \in {"grant", "release"},
         NEW c \in Command, c \notin recorded, recorded' = recorded \cup {c}
  PROVE  /\ Ledgers!Amounts(kind) \in Int
         /\ Ledgers!Amounts(kind)' = IF c.kind = kind THEN Ledgers!Amounts(kind) + c.amount
                                     ELSE Ledgers!Amounts(kind)
<1> DEFINE D == Ledgers!Done(kind)
           f == [d \in D |-> d.amount]
           g == [d \in D \cup {c} |-> d.amount]
<1>1. D \subseteq recorded /\ IsFiniteSet(D) /\ c \notin D
  BY FS_Subset DEF Ledgers!Done
<1>2. \A d \in D : f[d] \in Int /\ g[d] \in Int /\ f[d] = g[d]
  <2>1. \A d \in D : d \in Command /\ d.kind = kind
    BY DEF Ledgers!Done
  <2> HIDE DEF D
  <2> QED
    BY <2>1, LedgerAssumption
<1>3. Ledgers!Amounts(kind) = SumOf(f, D)
  BY SumIs DEF Ledgers!Amounts
<1>4. SumOf(f, D) \in Int
  BY <1>1, <1>2, SumType
<1>5. CASE c.kind = kind
  <2>1. Ledgers!Done(kind)' = D \cup {c}
    BY <1>5 DEF Ledgers!Done
  <2>2. Ledgers!Amounts(kind)' = SumOf(g, D \cup {c})
    BY <2>1, SumIs DEF Ledgers!Amounts
  <2>3. g[c] = c.amount /\ c.amount \in Int
    BY <1>5, LedgerAssumption
  <2>4. SumOf(g, D \cup {c}) = g[c] + SumOf(g, D)
    <3>1. \A d \in D \cup {c} : g[d] \in Int
      BY <1>2, <2>3
    <3> HIDE DEF g, D
    <3> QED
      BY <1>1, <3>1, SumAdd
  <2>5. SumOf(g, D) = SumOf(f, D)
    BY <1>1, <1>2, SumSame
  <2> HIDE DEF f, g, D
  <2> QED
    BY <1>3, <1>4, <1>5, <2>2, <2>3, <2>4, <2>5
<1>6. CASE c.kind # kind
  <2>1. Ledgers!Done(kind)' = D
    BY <1>6 DEF Ledgers!Done
  <2>2. Ledgers!Amounts(kind)' = Ledgers!Amounts(kind)
    BY <2>1 DEF Ledgers!Amounts
  <2> QED
    BY <1>3, <1>4, <1>6, <2>2
<1> QED
  BY <1>5, <1>6

\* The total of a sequence and of the sequence with one more.
LEMMA TotalGrows ==
  ASSUME NEW n \in Nat, NEW f, NEW g, DOMAIN f = 1 .. n, DOMAIN g = 1 .. n + 1,
         \A i \in 1 .. n : f[i] \in Int /\ g[i] = f[i], g[n + 1] \in Int
  PROVE  Ledgers!Total(g) = Ledgers!Total(f) + g[n + 1] /\ Ledgers!Total(f) \in Int
<1>1. Ledgers!Total(f) = SumOf(f, 1 .. n) /\ Ledgers!Total(g) = SumOf(g, 1 .. n + 1)
  BY SumIs DEF Ledgers!Total
<1>2. SumOf(g, 1 .. n + 1) = SumOf(f, 1 .. n) + g[n + 1] /\ SumOf(f, 1 .. n) \in Int
  BY SumAppend
<1> QED
  BY <1>1, <1>2

\* A total of numbers is a number.
LEMMA TotalType ==
  ASSUME NEW n \in Nat, NEW f, DOMAIN f = 1 .. n, \A i \in 1 .. n : f[i] \in Int
  PROVE  Ledgers!Total(f) \in Int
<1>1. Ledgers!Total(f) = SumOf(f, 1 .. n) /\ IsFiniteSet(1 .. n)
  BY SumIs, FS_Interval DEF Ledgers!Total
<1> QED
  BY <1>1, SumType

\* One more entry moves the totals by its amount.
LEMMA FlowsGrow ==
  ASSUME NEW l \in Seq(EntryRecord), NEW m \in Seq(EntryRecord), Len(m) = 1
  PROVE  LET d == m[1].delta
         IN /\ d \in Int
            /\ Ledgers!Total(Ledgers!Inflow(l)) \in Int /\ Ledgers!Total(Ledgers!Outflow(l)) \in Int
            /\ Ledgers!Total(Ledgers!Inflow(l \o m)) =
                  Ledgers!Total(Ledgers!Inflow(l)) + (IF d > 0 THEN d ELSE 0)
            /\ Ledgers!Total(Ledgers!Outflow(l \o m)) =
                  Ledgers!Total(Ledgers!Outflow(l)) + (IF d < 0 THEN -d ELSE 0)
<1> DEFINE n == Len(l)
           all == l \o m
           d == m[1].delta
<1>1. n \in Nat /\ DOMAIN l = 1 .. n /\ all \in Seq(EntryRecord) /\ Len(all) = n + 1
  <2>1. n \in Nat /\ DOMAIN l = 1 .. n
    BY LenProperties
  <2>2. all \in Seq(EntryRecord) /\ Len(all) = n + Len(m)
    BY ConcatProperties
  <2> QED
    BY <2>1, <2>2
<1>2. DOMAIN all = 1 .. n + 1
  BY <1>1, LenProperties
<1>3. all[n + 1] = m[1] /\ \A i \in 1 .. n : all[i] = l[i]
  <2>1. \A i \in 1 .. n + 1 : all[i] = IF i <= n THEN l[i] ELSE m[i - n]
    <3>1. \A i \in 1 .. Len(l) + Len(m) :
            (l \o m)[i] = IF i <= Len(l) THEN l[i] ELSE m[i - Len(l)]
      BY ConcatProperties
    <3>2. n + 1 = Len(l) + Len(m)
      OBVIOUS
    <3> QED
      BY <3>1, <3>2
  <2>2. n + 1 \in 1 .. n + 1 /\ (n + 1) - n = 1 /\ ~ (n + 1 <= n)
        /\ \A i \in 1 .. n : i \in 1 .. n + 1 /\ i <= n
    BY <1>1
  <2> HIDE DEF all, n
  <2> QED
    BY <2>1, <2>2
<1>4. d \in Int /\ \A i \in 1 .. n : l[i].delta \in Int
  <2>1. m[1] \in EntryRecord
    BY ElementOfSeq
  <2>2. \A i \in 1 .. n : l[i] \in EntryRecord
    BY ElementOfSeq
  <2> QED
    BY <2>1, <2>2 DEF EntryRecord
<1>5. DOMAIN Ledgers!Inflow(l) = 1 .. n /\ DOMAIN Ledgers!Inflow(all) = 1 .. n + 1
      /\ DOMAIN Ledgers!Outflow(l) = 1 .. n /\ DOMAIN Ledgers!Outflow(all) = 1 .. n + 1
  BY <1>1, <1>2 DEF Ledgers!Inflow, Ledgers!Outflow
<1> HIDE DEF all, n, d
<1>6. \A i \in 1 .. n : /\ Ledgers!Inflow(l)[i] \in Int /\ Ledgers!Outflow(l)[i] \in Int
                       /\ i \in 1 .. n + 1
  BY <1>1, <1>4 DEF Ledgers!Inflow, Ledgers!Outflow
<1>7. \A i \in 1 .. n : /\ Ledgers!Inflow(all)[i] = Ledgers!Inflow(l)[i]
                       /\ Ledgers!Outflow(all)[i] = Ledgers!Outflow(l)[i]
  BY <1>1, <1>2, <1>3, <1>6 DEF Ledgers!Inflow, Ledgers!Outflow
<1>8. /\ Ledgers!Inflow(all)[n + 1] = IF d > 0 THEN d ELSE 0
      /\ Ledgers!Outflow(all)[n + 1] = IF d < 0 THEN -d ELSE 0
      /\ Ledgers!Inflow(all)[n + 1] \in Int /\ Ledgers!Outflow(all)[n + 1] \in Int
  <2>1. n + 1 \in DOMAIN all
    BY <1>1, <1>2
  <2> QED
    BY <1>3, <1>4, <2>1 DEF Ledgers!Inflow, Ledgers!Outflow, d
<1>a. /\ \A i \in 1 .. n : Ledgers!Inflow(l)[i] \in Int /\ Ledgers!Inflow(all)[i] = Ledgers!Inflow(l)[i]
      /\ \A i \in 1 .. n : Ledgers!Outflow(l)[i] \in Int /\ Ledgers!Outflow(all)[i] = Ledgers!Outflow(l)[i]
      /\ Ledgers!Inflow(all)[n + 1] \in Int /\ Ledgers!Outflow(all)[n + 1] \in Int
  BY <1>6, <1>7, <1>8
<1>9. Ledgers!Total(Ledgers!Inflow(all)) = Ledgers!Total(Ledgers!Inflow(l)) + Ledgers!Inflow(all)[n + 1]
      /\ Ledgers!Total(Ledgers!Inflow(l)) \in Int
  BY <1>1, <1>5, <1>a, TotalGrows
<1>10. Ledgers!Total(Ledgers!Outflow(all)) = Ledgers!Total(Ledgers!Outflow(l)) + Ledgers!Outflow(all)[n + 1]
       /\ Ledgers!Total(Ledgers!Outflow(l)) \in Int
  BY <1>1, <1>5, <1>a, TotalGrows
<1> QED
  BY <1>4, <1>8, <1>9, <1>10 DEF d, all

\* What nodes earned and the reserve kept are numbers.
LEMMA PaidType ==
  ASSUME NEW paid \in Seq(Receipt)
  PROVE  Ledgers!Total(Ledgers!Kept(paid)) \in Int /\ Ledgers!Total(Ledgers!Earned(paid)) \in Int
<1>1. Len(paid) \in Nat /\ DOMAIN paid = 1 .. Len(paid)
  BY LenProperties
<1>2. \A i \in 1 .. Len(paid) : paid[i] \in Receipt
  BY ElementOfSeq
<1>3. /\ DOMAIN Ledgers!Kept(paid) = 1 .. Len(paid) /\ DOMAIN Ledgers!Earned(paid) = 1 .. Len(paid)
      /\ \A i \in 1 .. Len(paid) : Ledgers!Kept(paid)[i] \in Int /\ Ledgers!Earned(paid)[i] \in Int
  BY <1>1, <1>2 DEF Ledgers!Kept, Ledgers!Earned, Receipt
<1> QED
  BY <1>1, <1>3, TotalType

\* One more receipt adds its share to what the reserve kept.
LEMMA KeptGrows ==
  ASSUME NEW paid \in Seq(Receipt), NEW r \in Receipt
  PROVE  Ledgers!Total(Ledgers!Kept(Append(paid, r))) = Ledgers!Total(Ledgers!Kept(paid)) + r.kept
<1> DEFINE n == Len(paid)
           all == Append(paid, r)
<1>1. n \in Nat /\ DOMAIN paid = 1 .. n
  BY LenProperties
<1>2. DOMAIN all = 1 .. n + 1 /\ all[n + 1] = r /\ \A i \in 1 .. n : all[i] = paid[i] /\ i \in 1 .. n + 1
  BY <1>1
<1>3. \A i \in 1 .. n : paid[i] \in Receipt
  BY ElementOfSeq
<1> HIDE DEF n, all
<1>4. n + 1 \in 1 .. n + 1
  BY <1>1
<1>5. /\ DOMAIN Ledgers!Kept(paid) = 1 .. n /\ DOMAIN Ledgers!Kept(all) = 1 .. n + 1
      /\ \A i \in 1 .. n : Ledgers!Kept(paid)[i] \in Int /\ Ledgers!Kept(all)[i] = Ledgers!Kept(paid)[i]
      /\ Ledgers!Kept(all)[n + 1] = r.kept /\ r.kept \in Int
  BY <1>1, <1>2, <1>3, <1>4 DEF Ledgers!Kept, Receipt
<1>6. Ledgers!Kept(all)[n + 1] \in Int
  BY <1>5
<1>7. Ledgers!Total(Ledgers!Kept(all)) = Ledgers!Total(Ledgers!Kept(paid)) + Ledgers!Kept(all)[n + 1]
  BY <1>1, <1>5, <1>6, TotalGrows
<1> QED
  BY <1>5, <1>7 DEF all

-----------------------------------------------------------------------------
\* The reserve's ledger is what the settlements kept and what was released.
ReserveHistory ==
  /\ Ledgers!Total(Ledgers!Inflow(ledger[Ledgers!Reserve])) = Ledgers!Total(Ledgers!Kept(receipts))
  /\ account[Ledgers!Reserve].balance =
       Ledgers!Total(Ledgers!Inflow(ledger[Ledgers!Reserve]))
         - Ledgers!Total(Ledgers!Outflow(ledger[Ledgers!Reserve]))

\* A transparency report.
ReportRecord ==
  [at : {"begun", "sent"}, rewards : Int, reserve : [balance : Int, inflow : Int, outflow : Int]]
\* Its parts are those of the same settlements.
OfOneMoment ==
  /\ report.reserve.balance = report.reserve.inflow - report.reserve.outflow
  /\ \E n \in 0 .. Len(receipts) :
       /\ report.rewards = Ledgers!Total(Ledgers!Earned(SubSeq(receipts, 1, n)))
       /\ report.reserve.inflow = Ledgers!Total(Ledgers!Kept(SubSeq(receipts, 1, n)))
\* A report that was begun is of one moment already.
ReportInv == report = [at |-> "none"] \/ (report \in ReportRecord /\ OfOneMoment)

\* What a receipt says of its weight is about the receipts before it.
Among(s, k, c, n) == {j \in 1 .. k : s[j].consumer = c /\ s[j].node = n}
\* The weight of one receipt, as LoopsWeighed has it.
WeighedAt(s, i) ==
  LET r == s[i]
      before(c, n) == Cardinality(Among(s, i - 1, c, n))
      loop == before(r.consumer, r.node) >= ReciprocalBlock
                /\ before(r.node, r.consumer) >= ReciprocalBlock
  IN r.weight = IF r.consumer = r.node THEN 0
                ELSE IF loop THEN Ledgers!Less(r.precreate, 1) ELSE r.precreate

\* Cardinality is one operator, by whichever name it is reached.
LEMMA SameLedgerCardinality == \A S : Ledgers!Cardinality(S) = Cardinality(S)
  BY DEF Ledgers!Cardinality, Cardinality

\* LoopsWeighed, receipt by receipt.
LEMMA LoopsWeighedIs == Ledgers!LoopsWeighed <=> \A i \in DOMAIN receipts : WeighedAt(receipts, i)
  BY SameLedgerCardinality DEF Ledgers!LoopsWeighed, WeighedAt, Among

\* A settlement weighed by all the receipts there are.
LEMMA ReceiptWeighed ==
  ASSUME receipts \in Seq(Receipt), Ledgers!LoopsWeighed, NEW r \in Receipt,
         r.weight = Ledgers!Less(r.precreate, Ledgers!SettlementContributionWeight(r.consumer, r.node)),
         receipts' = Append(receipts, r)
  PROVE  Ledgers!LoopsWeighed'
<1> DEFINE n == Len(receipts)
           all == Append(receipts, r)
<1>1. n \in Nat /\ DOMAIN receipts = 1 .. n
  BY LenProperties
<1>2. DOMAIN all = 1 .. n + 1 /\ all[n + 1] = r /\ \A i \in 1 .. n : all[i] = receipts[i]
  BY <1>1
<1>3. \A k \in 0 .. n : \A c, m : Among(all, k, c, m) = Among(receipts, k, c, m)
  <2> TAKE k \in 0 .. n
  <2>1. \A j \in 1 .. k : all[j] = receipts[j]
    BY <1>1, <1>2
  <2> HIDE DEF all
  <2> QED
    BY <2>1 DEF Among
<1>4. ASSUME NEW i \in 1 .. n PROVE WeighedAt(all, i)
  <2>1. WeighedAt(receipts, i)
    BY <1>1, LoopsWeighedIs
  <2>2. i - 1 \in 0 .. n
    BY <1>1
  <2>3. all[i] = receipts[i] /\ \A c, m : Among(all, i - 1, c, m) = Among(receipts, i - 1, c, m)
    BY <1>2, <1>3, <2>2
  <2> HIDE DEF all
  <2> QED
    BY <2>1, <2>3 DEF WeighedAt
<1>5. WeighedAt(all, n + 1)
  <2>1. (n + 1) - 1 = n /\ n \in 0 .. n
    BY <1>1
  <2>2. \A c, m : Among(all, (n + 1) - 1, c, m) = Among(receipts, n, c, m)
    BY <1>3, <2>1
  <2>3. \A c, m : Ledgers!Edges(c, m) = Cardinality(Among(receipts, n, c, m))
    BY <1>1, SameLedgerCardinality DEF Ledgers!Edges, Among
  <2>4. r.precreate \in 0 .. 10
    BY DEF Receipt
  <2>5. /\ Ledgers!Less(r.precreate, 10) = r.precreate /\ Ledgers!Less(r.precreate, 0) = 0
    BY <2>4 DEF Ledgers!Less
  <2> DEFINE loop == /\ Cardinality(Among(receipts, n, r.consumer, r.node)) >= ReciprocalBlock
                     /\ Cardinality(Among(receipts, n, r.node, r.consumer)) >= ReciprocalBlock
  <2>6. r.weight = IF r.consumer = r.node THEN 0
                   ELSE IF loop THEN Ledgers!Less(r.precreate, 1) ELSE r.precreate
    BY <2>3, <2>5 DEF Ledgers!SettlementContributionWeight
  <2> HIDE DEF all
  <2> QED
    BY <1>2, <2>2, <2>6 DEF WeighedAt
<1>6. \A i \in DOMAIN all : WeighedAt(all, i)
  BY <1>1, <1>2, <1>4, <1>5
<1>7. \A i \in DOMAIN receipts' : WeighedAt(receipts', i)
  BY <1>6
<1> QED
  BY <1>7, SameLedgerCardinality DEF WeighedAt, Ledgers!LoopsWeighed, Among

-----------------------------------------------------------------------------
\* The chains, the locks and the transactions.
LedgerCore == LedgersType /\ KeysRecorded /\ Chains /\ OnceEach /\ TxsSound /\ LocksHeld
\* The whole invariant.
LedgerInv == LedgerCore /\ MoneyKept /\ ReserveHistory /\ Ledgers!LoopsWeighed /\ ReportInv

\* A transaction that may commit holds every row of its command and has seen
\* the accounts as they are.
LEMMA ReadyHolds ==
  ASSUME LedgerCore, NEW t \in LedgerTx, Ledgers!Ready(t)
  PROVE  LET c == ltx[t].command
         IN /\ c \in Command /\ Ledgers!Running(t) /\ Ledgers!Requested(c) = {}
            /\ (c.kind # "settle" => c.amount >= 1)
            /\ ltx[t].weight \in {0, 1, 10}
            /\ \A i \in 1 .. Len(Ledgers!LockOrder(c)) : row_lock[Ledgers!LockOrder(c)[i]] = t
            /\ \A i \in 1 .. Len(Ledgers!LockOrder(c)) : \A a \in Ledgers!Account :
                 Ledgers!RowOf(a) = Ledgers!LockOrder(c)[i] => ltx[t].saw[a] = account[a]
            /\ c.kind = "settle" =>
                 ltx[t].weight = Ledgers!SettlementContributionWeight(c.consumer, c.node)
<1>1. Ledgers!Running(t) /\ ltx[t].locked = Len(Ledgers!LockOrder(ltx[t].command))
      /\ Ledgers!Requested(ltx[t].command) = {}
  BY DEF Ledgers!Ready, Ledgers!AllLocked
<1>2. ltx[t] \in LedgerTxRecord /\ InOrder(t) /\ HoldsRows(t) /\ SeesRows(t) /\ KnowsWeight(t)
  BY <1>1, LedgerTxStates DEF LedgerCore, TxsSound
<1>3. ltx[t].command \in Command /\ ltx[t].weight \in {0, 1, 10}
  BY <1>2 DEF LedgerTxRecord
<1>4. ltx[t].command.kind = "settle" => ltx[t].locked >= 3
  BY <1>1, <1>3, Order
<1> QED
  BY <1>1, <1>2, <1>3, <1>4 DEF InOrder, HoldsRows, SeesRows, KnowsWeight, Ordered

\* A commit that writes keeps the core.
LEMMA CommitCore ==
  ASSUME LedgerCore, NEW t \in LedgerTx, Ledgers!Running(t),
         NEW c \in Command, c = ltx[t].command, Ledgers!Requested(c) = {},
         NEW new, NewEntries(c, new), \A a \in DOMAIN new : row_lock[Ledgers!RowOf(a)] = t,
         Ledgers!Writes(t, new), Ledgers!EndsTx(t), receipts' \in Seq(Receipt),
         \A u \in LedgerTx : u # t /\ Ledgers!Running(u) => KnowsWeight(u)'
  PROVE  LedgerCore' /\ (Inserted(c, new) \/ UNCHANGED <<ledger, account, recorded>>)
<1>1. /\ ledger' \in [Ledgers!Account -> Seq(EntryRecord)]
      /\ account' \in [Ledgers!Account -> LedgerRow]
      /\ recorded' \subseteq Command /\ IsFiniteSet(recorded')
      /\ refused' = FALSE
      /\ KeysRecorded' /\ Chains' /\ OnceEach'
      /\ Inserted(c, new) \/ UNCHANGED <<ledger, account, recorded>>
  BY Written DEF LedgerCore
<1>2. \A a \in Ledgers!Account : row_lock[Ledgers!RowOf(a)] # t => account'[a] = account[a]
  BY <1>1 DEF Inserted
<1>3. /\ ltx' \in [LedgerTx -> LedgerTxRecord \cup {Ledgers!LedgerIdle}]
      /\ row_lock' \in [Ledgers!Row -> LedgerTx \cup {None}]
      /\ TxsSound' /\ LocksHeld'
  BY <1>2, LedgerEnds DEF LedgerCore
<1>4. LedgersType'
  BY <1>1, <1>3 DEF LedgersType
<1> QED
  BY <1>1, <1>3, <1>4 DEF LedgerCore

\* Nobody's weight changes when the receipts do not.
LEMMA WeightsStay ==
  ASSUME LedgerCore, receipts' = receipts, NEW t \in LedgerTx, Ledgers!EndsTx(t)
  PROVE  /\ \A u \in LedgerTx : u # t /\ Ledgers!Running(u) => KnowsWeight(u)'
         /\ receipts' \in Seq(Receipt)
<1>1. receipts' \in Seq(Receipt)
  BY DEF LedgerCore, LedgersType
<1>2. ASSUME NEW u \in LedgerTx, u # t, Ledgers!Running(u) PROVE KnowsWeight(u)'
  <2>1. ltx'[u] = ltx[u] /\ KnowsWeight(u)
    BY <1>2 DEF Ledgers!EndsTx, LedgerCore, LedgersType, TxsSound
  <2>2. \A x, y : Ledgers!SettlementContributionWeight(x, y)'
                   = Ledgers!SettlementContributionWeight(x, y)
    BY DEF Ledgers!SettlementContributionWeight, Ledgers!Edges
  <2> QED
    BY <2>1, <2>2 DEF KnowsWeight
<1> QED
  BY <1>1, <1>2

\* A report stays true of the receipts it was made of.
LEMMA ReportKept ==
  ASSUME ReportInv, receipts \in Seq(Receipt), UNCHANGED report,
         receipts' = receipts \/ \E r \in Receipt : receipts' = Append(receipts, r)
  PROVE  ReportInv'
<1>1. CASE receipts' = receipts
  BY <1>1 DEF ReportInv, OfOneMoment
<1>2. ASSUME NEW r \in Receipt, receipts' = Append(receipts, r) PROVE ReportInv'
  <2>1. \A n \in 0 .. Len(receipts) :
          n \in 0 .. Len(receipts') /\ SubSeq(receipts', 1, n) = SubSeq(receipts, 1, n)
    <3> TAKE n \in 0 .. Len(receipts)
    <3>1. Len(receipts') = Len(receipts) + 1 /\ Len(receipts) \in Nat
      BY <1>2
    <3>2. \A i \in 1 .. n : receipts'[i] = receipts[i]
      BY <1>2, <3>1
    <3>3. SubSeq(receipts, 1, n) = [i \in 1 .. n |-> receipts[i]]
          /\ SubSeq(receipts', 1, n) = [i \in 1 .. n |-> receipts'[i]]
      BY <3>1
    <3> QED
      BY <3>1, <3>2, <3>3
  <2>2. CASE report = [at |-> "none"]
    BY <2>2 DEF ReportInv
  <2>3. CASE report \in ReportRecord /\ OfOneMoment
    <3>1. PICK n \in 0 .. Len(receipts) :
            /\ report.rewards = Ledgers!Total(Ledgers!Earned(SubSeq(receipts, 1, n)))
            /\ report.reserve.inflow = Ledgers!Total(Ledgers!Kept(SubSeq(receipts, 1, n)))
      BY <2>3 DEF OfOneMoment
    <3>2. n \in 0 .. Len(receipts')
          /\ report'.rewards = Ledgers!Total(Ledgers!Earned(SubSeq(receipts', 1, n)))
          /\ report'.reserve.inflow = Ledgers!Total(Ledgers!Kept(SubSeq(receipts', 1, n)))
      BY <2>1, <3>1
    <3>3. report'.reserve.balance = report'.reserve.inflow - report'.reserve.outflow
      BY <2>3 DEF OfOneMoment
    <3>4. OfOneMoment'
      BY <3>2, <3>3 DEF OfOneMoment, Ledgers!Total, Ledgers!Earned, Ledgers!Kept, Ledgers!SumOf,
         Ledgers!MapThenSumSet, Ledgers!MapThenFoldSet
    <3> QED
      BY <2>3, <3>4 DEF ReportInv
  <2> QED
    BY <2>2, <2>3 DEF ReportInv
<1> QED
  BY <1>1, <1>2

\* A part that only the money, the reserve and the report speak of.
LEMMA HistoryStays ==
  ASSUME LedgerInv, UNCHANGED <<ledger, account, recorded, receipts, report>>
  PROVE  MoneyKept' /\ ReserveHistory' /\ Ledgers!LoopsWeighed' /\ ReportInv'
<1>1. MoneyKept'
  BY DEF LedgerInv, MoneyKept, Balances, Ledgers!Amounts, Ledgers!Done, Ledgers!Money
<1>2. ReserveHistory'
  BY DEF LedgerInv, ReserveHistory
<1>3. Ledgers!LoopsWeighed'
  BY DEF LedgerInv, Ledgers!LoopsWeighed
<1>4. ReportInv'
  BY ReportKept DEF LedgerInv, LedgerCore, LedgersType
<1> QED
  BY <1>1, <1>2, <1>3, <1>4

\* A grant or a release: one entry on one account.
LEMMA OneEntryCommits ==
  ASSUME LedgerInv, NEW t \in LedgerTx, NEW c \in Command, c = ltx[t].command, Ledgers!Ready(t),
         NEW a \in Ledgers!Money, \E i \in 1 .. Len(Ledgers!LockOrder(c)) : Ledgers!LockOrder(c)[i] = Ledgers!RowOf(a),
         NEW label \in Label, NEW delta \in Int, NEW new,
         new = [b \in {a} |-> <<Ledgers!LedgerEntry(<<c.key, label>>, delta, ltx[t].saw[b])>>],
         Ledgers!Writes(t, new), Ledgers!EndsTx(t), UNCHANGED <<receipts, report>>,
         \/ c.kind = "grant" /\ delta = c.amount /\ a # Ledgers!Reserve
         \/ c.kind = "release" /\ delta = -c.amount /\ a = Ledgers!Reserve
  PROVE  LedgerInv'
<1>1. /\ Ledgers!Running(t) /\ Ledgers!Requested(c) = {} /\ c.amount >= 1 /\ c.amount \in Int
      /\ row_lock[Ledgers!RowOf(a)] = t /\ ltx[t].saw[a] = account[a] /\ a \in Ledgers!Account
  <2>1. a \in Ledgers!Account
    BY MoneyIs
  <2>2. c.amount \in Int
    BY Order
  <2>3. /\ Ledgers!Running(t) /\ Ledgers!Requested(c) = {} /\ (c.kind # "settle" => c.amount >= 1)
        /\ \A i \in 1 .. Len(Ledgers!LockOrder(c)) : row_lock[Ledgers!LockOrder(c)[i]] = t
        /\ \A i \in 1 .. Len(Ledgers!LockOrder(c)) : \A b \in Ledgers!Account :
             Ledgers!RowOf(b) = Ledgers!LockOrder(c)[i] => ltx[t].saw[b] = account[b]
    BY ReadyHolds DEF LedgerInv
  <2>4. PICK i \in 1 .. Len(Ledgers!LockOrder(c)) : Ledgers!LockOrder(c)[i] = Ledgers!RowOf(a)
    OBVIOUS
  <2>5. row_lock[Ledgers!RowOf(a)] = t /\ ltx[t].saw[a] = account[a]
    BY <2>1, <2>3, <2>4
  <2> QED
    BY <2>1, <2>2, <2>3, <2>5
<1> DEFINE e == Ledgers!LedgerEntry(<<c.key, label>>, delta, account[a])
<1>2. DOMAIN new = {a} /\ new[a] = <<e>>
  BY <1>1
<1>3. account[a].balance \in Int /\ account[a].head \in LedgerKey
  <2>1. account[a] \in LedgerRow
    BY <1>1 DEF LedgerInv, LedgerCore, LedgersType
  <2> QED
    BY <2>1 DEF LedgerRow
<1>4. /\ e \in RawEntry(c) /\ Ledgers!Extends(account[a], e)
      /\ e.after = account[a].balance + delta /\ e.delta = delta
  BY <1>3, EntryOf
<1> HIDE DEF e
<1>5. /\ <<e>> \in Seq(RawEntry(c)) /\ <<e>> # <<>> /\ Ledgers!AllExtend(account[a], <<e>>)
      /\ \A i, j \in DOMAIN <<e>> : <<e>>[i].key = <<e>>[j].key => i = j
      /\ Len(<<e>>) = 1 /\ <<e>>[1] = e
  BY <1>4, OneEntry
<1>6. NewEntries(c, new)
  BY <1>1, <1>2, <1>5 DEF NewEntries
<1>7. LedgerCore' /\ (Inserted(c, new) \/ UNCHANGED <<ledger, account, recorded>>)
  <2>1. \A b \in DOMAIN new : row_lock[Ledgers!RowOf(b)] = t
    BY <1>1, <1>2
  <2>2. /\ \A u \in LedgerTx : u # t /\ Ledgers!Running(u) => KnowsWeight(u)'
        /\ receipts' \in Seq(Receipt)
    BY WeightsStay DEF LedgerInv
  <2> QED
    BY <1>1, <1>6, <2>1, <2>2, CommitCore DEF LedgerInv
<1>8. CASE UNCHANGED <<ledger, account, recorded>>
  BY <1>7, <1>8, HistoryStays DEF LedgerInv
<1>9. CASE Inserted(c, new)
  <2>1. /\ recorded' = recorded \cup {c} /\ c \notin recorded
        /\ \A b \in Ledgers!Account \ {a} : ledger'[b] = ledger[b] /\ account'[b] = account[b]
        /\ new[a] \in Seq(EntryRecord) /\ ledger'[a] = ledger[a] \o new[a]
        /\ account'[a].balance = account[a].balance + delta
    BY <1>2, <1>4, <1>5, <1>9 DEF Inserted
  <2>2. recorded \subseteq Command /\ IsFiniteSet(recorded)
        /\ account \in [Ledgers!Account -> LedgerRow] /\ account' \in [Ledgers!Account -> LedgerRow]
        /\ ledger \in [Ledgers!Account -> Seq(EntryRecord)]
    BY <1>7 DEF LedgerInv, LedgerCore, LedgersType
  <2>3. MoneyKept'
    <3> DEFINE g == [b \in Ledgers!Money |-> account'[b].balance]
    <3>1. /\ \A b \in Ledgers!Money : Balances[b] = account[b].balance /\ Balances[b] \in Int
          /\ SumOf(Balances, Ledgers!Money) \in Int
      BY <2>2, BalancesType
    <3>2. \A b \in Ledgers!Money : g[b] = account'[b].balance /\ g[b] \in Int
      BY <2>2, MoneyIs DEF LedgerRow
    <3>3. \A b \in Ledgers!Money \ {a} : g[b] = Balances[b]
      BY <2>1, <3>1, <3>2, MoneyIs
    <3>4. g[a] = Balances[a] + delta
      BY <2>1, <3>1, <3>2
    <3>5. SumOf(g, Ledgers!Money) = SumOf(Balances, Ledgers!Money) + g[a] - Balances[a]
      <4> HIDE DEF g
      <4> QED
        BY <3>1, <3>2, <3>3, MoneyFinite, SumChange
    <3>6. Balances' = g /\ Ledgers!Money' = Ledgers!Money
      BY DEF Balances, Ledgers!Money
    <3>7. /\ Ledgers!Amounts("grant") \in Int /\ Ledgers!Amounts("release") \in Int
          /\ Ledgers!Amounts("grant")' = IF c.kind = "grant" THEN Ledgers!Amounts("grant") + c.amount
                                         ELSE Ledgers!Amounts("grant")
          /\ Ledgers!Amounts("release")' = IF c.kind = "release" THEN Ledgers!Amounts("release") + c.amount
                                           ELSE Ledgers!Amounts("release")
      BY <2>1, <2>2, AmountsGrow
    <3> DEFINE old == SumOf(Balances, Ledgers!Money)
               sum == SumOf(g, Ledgers!Money)
               first == InitialQuota * Cardinality(User)
    <3>8. old = first + Ledgers!Amounts("grant") - Ledgers!Amounts("release")
      BY DEF LedgerInv, MoneyKept
    <3>9. sum = old + delta /\ old \in Int
      BY <3>1, <3>4, <3>5
    <3>10. first \in Int
      <4>1. Cardinality(User) \in Nat /\ InitialQuota \in Nat
        BY LedgerAssumption, FS_CardinalityType
      <4> QED
        BY <4>1
    <3> DEFINE granted == Ledgers!Amounts("grant")
               released == Ledgers!Amounts("release")
               granted2 == Ledgers!Amounts("grant")'
               released2 == Ledgers!Amounts("release")'
               amount == c.amount
    <3>11. /\ granted \in Int /\ released \in Int /\ amount \in Int
           /\ old = first + granted - released
           /\ \/ delta = amount /\ granted2 = granted + amount /\ released2 = released
              \/ delta = -amount /\ granted2 = granted /\ released2 = released + amount
      BY <1>1, <3>7, <3>8
    <3> HIDE DEF old, sum, first, g, granted, released, granted2, released2, amount
    <3>12. sum = first + granted2 - released2
      <4>1. CASE delta = amount /\ granted2 = granted + amount /\ released2 = released
        BY <3>9, <3>10, <3>11, <4>1
      <4>2. CASE delta = -amount /\ granted2 = granted /\ released2 = released + amount
        BY <3>9, <3>10, <3>11, <4>2
      <4> QED
        BY <3>11, <4>1, <4>2
    <3> QED
      BY <3>6, <3>12 DEF MoneyKept, sum, first, granted2, released2
  <2>4. ReserveHistory'
    <3>1. Ledgers!Reserve \in Ledgers!Account
      BY Names
    <3>2. CASE a # Ledgers!Reserve
      <4>1. ledger'[Ledgers!Reserve] = ledger[Ledgers!Reserve]
            /\ account'[Ledgers!Reserve] = account[Ledgers!Reserve]
        BY <2>1, <3>1, <3>2
      <4> QED
        BY <4>1 DEF LedgerInv, ReserveHistory, Ledgers!Reserve
    <3>3. CASE c.kind = "release" /\ delta = -c.amount /\ a = Ledgers!Reserve
      <4> DEFINE l == ledger[Ledgers!Reserve]
                 m == new[Ledgers!Reserve]
      <4>1. l \in Seq(EntryRecord) /\ m \in Seq(EntryRecord) /\ Len(m) = 1 /\ m[1].delta = delta
            /\ ledger'[Ledgers!Reserve] = l \o m
        BY <1>2, <1>4, <1>5, <2>1, <2>2, <3>1, <3>3
      <4>2. delta < 0 /\ ~ (delta > 0) /\ -delta = c.amount
        BY <1>1, <3>3
      <4> HIDE DEF l, m
      <4>3. /\ Ledgers!Total(Ledgers!Inflow(l)) \in Int /\ Ledgers!Total(Ledgers!Outflow(l)) \in Int
            /\ Ledgers!Total(Ledgers!Inflow(l \o m)) = Ledgers!Total(Ledgers!Inflow(l)) + 0
            /\ Ledgers!Total(Ledgers!Outflow(l \o m)) = Ledgers!Total(Ledgers!Outflow(l)) + c.amount
        BY <4>1, <4>2, FlowsGrow
      <4>4. /\ Ledgers!Total(Ledgers!Inflow(l)) = Ledgers!Total(Ledgers!Kept(receipts))
            /\ account[Ledgers!Reserve].balance =
                 Ledgers!Total(Ledgers!Inflow(l)) - Ledgers!Total(Ledgers!Outflow(l))
        BY DEF LedgerInv, ReserveHistory, l
      <4>5. account'[Ledgers!Reserve].balance = account[Ledgers!Reserve].balance - c.amount
        BY <1>1, <1>3, <2>1, <3>3
      <4>6. Ledgers!Total(Ledgers!Inflow(l \o m)) = Ledgers!Total(Ledgers!Kept(receipts))
        BY <4>3, <4>4
      <4>7. account'[Ledgers!Reserve].balance =
              Ledgers!Total(Ledgers!Inflow(l \o m)) - Ledgers!Total(Ledgers!Outflow(l \o m))
        BY <1>1, <4>3, <4>4, <4>5
      <4>8. ledger'[Ledgers!Reserve] = l \o m /\ receipts' = receipts
        BY <4>1
      <4> QED
        BY <4>6, <4>7, <4>8 DEF ReserveHistory, Ledgers!Reserve
    <3> QED
      BY <3>2, <3>3
  <2>5. Ledgers!LoopsWeighed'
    BY DEF LedgerInv, Ledgers!LoopsWeighed
  <2>6. ReportInv'
    BY ReportKept DEF LedgerInv, LedgerCore, LedgersType
  <2> QED
    BY <1>7, <2>3, <2>4, <2>5, <2>6 DEF LedgerInv
<1> QED
  BY <1>7, <1>8, <1>9

\* grant_operator_quota commits.
LEMMA GrantNext ==
  ASSUME LedgerInv, NEW t \in LedgerTx, Ledgers!GrantOperatorQuota(t) PROVE LedgerInv'
<1> DEFINE c == ltx[t].command
           a == Ledgers!Quota(c.user)
<1>1. /\ Ledgers!Ready(t) /\ c.kind = "grant" /\ Ledgers!EndsTx(t) /\ UNCHANGED <<receipts, report>>
      /\ Ledgers!Writes(t, [b \in {a} |->
            <<Ledgers!LedgerEntry(<<c.key, "grant">>, c.amount, ltx[t].saw[b])>>])
  BY DEF Ledgers!GrantOperatorQuota
<1>2. c \in Command
  BY <1>1, ReadyHolds DEF LedgerInv
<1>3. c.user \in User /\ c.amount \in Int /\ Len(Ledgers!LockOrder(c)) = 2
      /\ Ledgers!LockOrder(c)[2] = <<"account", c.user>>
  BY <1>1, <1>2, Order
<1>4. a \in Ledgers!Money /\ a # Ledgers!Reserve /\ Ledgers!RowOf(a) = <<"account", c.user>>
  BY <1>3, MoneyIs, Names DEF Accounts
<1>5. "grant" \in Label
  BY DEF Label
<1>6. \E i \in 1 .. Len(Ledgers!LockOrder(c)) : Ledgers!LockOrder(c)[i] = Ledgers!RowOf(a)
  BY <1>3, <1>4
<1> HIDE DEF c, a
<1> QED
  BY <1>1, <1>2, <1>3, <1>4, <1>5, <1>6, OneEntryCommits DEF c

\* release_reserve commits.
LEMMA ReleaseNext ==
  ASSUME LedgerInv, NEW t \in LedgerTx, Ledgers!ReleaseReserve(t) PROVE LedgerInv'
<1> DEFINE c == ltx[t].command
           a == Ledgers!Reserve
<1>1. /\ Ledgers!Ready(t) /\ c.kind = "release" /\ Ledgers!EndsTx(t) /\ UNCHANGED <<receipts, report>>
      /\ Ledgers!Writes(t, [b \in {a} |->
            <<Ledgers!LedgerEntry(<<c.key, "release">>, -c.amount, ltx[t].saw[b])>>])
  BY DEF Ledgers!ReleaseReserve
<1>2. c \in Command
  BY <1>1, ReadyHolds DEF LedgerInv
<1>3. c.amount \in Int /\ Len(Ledgers!LockOrder(c)) = 1 /\ Ledgers!LockOrder(c)[1] = a
  BY <1>1, <1>2, Order
<1>4. a \in Ledgers!Money /\ Ledgers!RowOf(a) = a
  BY MoneyIs, Names
<1>5. "release" \in Label /\ -c.amount \in Int
  BY <1>3 DEF Label
<1>6. \E i \in 1 .. Len(Ledgers!LockOrder(c)) : Ledgers!LockOrder(c)[i] = Ledgers!RowOf(a)
  BY <1>3, <1>4
<1> HIDE DEF c
<1> QED
  BY <1>1, <1>2, <1>3, <1>4, <1>5, <1>6, OneEntryCommits DEF c

\* complete_job commits.
LEMMA SettlementNext ==
  ASSUME LedgerInv, NEW t \in LedgerTx, Ledgers!CommitSettlement(t) PROVE LedgerInv'
<1> DEFINE c == ltx[t].command
           saw == ltx[t].saw
           weight == ltx[t].weight
           new == Ledgers!SettlementEntries(c, saw, weight)
           paid == Ledgers!UserDeduction(c.base, c.tier)
           gained == Ledgers!NodeSpendableQuota(c.base, c.tier, c.trust)
           kept == Ledgers!ReserveInflow(c.base, c.tier, c.trust)
           receipt == [consumer |-> c.consumer, node |-> c.node,
                       weight |-> Ledgers!Less(c.precreate, ltx[t].weight),
                       precreate |-> c.precreate, earned |-> gained, kept |-> kept]
           Qc == Ledgers!Quota(c.consumer)
           Qn == Ledgers!Quota(c.node)
           Rs == Ledgers!Reserve
<1>1. /\ Ledgers!Ready(t) /\ c.kind = "settle" /\ Ledgers!EndsTx(t) /\ UNCHANGED report
      /\ Ledgers!Writes(t, new)
      /\ receipts' = IF recorded' = recorded THEN receipts ELSE Append(receipts, receipt)
  BY DEF Ledgers!CommitSettlement
<1>2. /\ c \in Command /\ Ledgers!Running(t) /\ Ledgers!Requested(c) = {}
      /\ ltx[t].weight \in {0, 1, 10}
      /\ \A i \in 1 .. Len(Ledgers!LockOrder(c)) : row_lock[Ledgers!LockOrder(c)[i]] = t
      /\ \A i \in 1 .. Len(Ledgers!LockOrder(c)) : \A a \in Ledgers!Account :
           Ledgers!RowOf(a) = Ledgers!LockOrder(c)[i] => ltx[t].saw[a] = account[a]
      /\ ltx[t].weight = Ledgers!SettlementContributionWeight(c.consumer, c.node)
  BY <1>1, ReadyHolds DEF LedgerInv
<1>3. /\ paid \in Nat /\ gained \in Nat /\ kept \in Nat /\ paid = gained + kept
      /\ c.consumer \in User /\ c.node \in User /\ c.precreate \in 0 .. 10
  BY <1>1, <1>2, Pays
<1>4. /\ row_lock[<<"account", c.consumer>>] = t /\ row_lock[<<"account", c.node>>] = t
      /\ \A a \in SettleRows(c) : /\ a \in Ledgers!Account /\ ltx[t].saw[a] = account[a]
                                  /\ row_lock[Ledgers!RowOf(a)] = t
  <2>1. PICK low \in User, high \in User :
          /\ Len(Ledgers!LockOrder(c)) = 4 /\ Ledgers!LockOrder(c)[4] = Rs
          /\ Ledgers!LockOrder(c)[2] = <<"account", low>> /\ Ledgers!LockOrder(c)[3] = <<"account", high>>
          /\ {low, high} = {c.consumer, c.node}
    <3>1. c \in Command /\ c.kind = "settle"
      BY <1>1, <1>2
    <3> HIDE DEF c
    <3> QED
      BY <3>1, Order
  <2>2. 2 \in 1 .. 4 /\ 3 \in 1 .. 4 /\ 4 \in 1 .. 4
    OBVIOUS
  <2>3. \A r \in {<<"account", low>>, <<"account", high>>, Rs} :
          row_lock[r] = t /\ \A a \in Ledgers!Account : Ledgers!RowOf(a) = r => ltx[t].saw[a] = account[a]
    BY <1>2, <2>1, <2>2
  <2>4. \A a \in SettleRows(c) :
          /\ a \in Ledgers!Account
          /\ Ledgers!RowOf(a) \in {<<"account", c.consumer>>, <<"account", c.node>>, Rs}
    BY <1>3, Names DEF SettleRows
  <2>5. {<<"account", c.consumer>>, <<"account", c.node>>, Rs} = {<<"account", low>>, <<"account", high>>, Rs}
    BY <2>1
  <2> HIDE DEF c, Rs
  <2> QED
    BY <2>3, <2>4, <2>5
<1>5. receipt \in Receipt
  <2>1. Ledgers!Less(c.precreate, ltx[t].weight) \in 0 .. 10
    BY <1>2, <1>3 DEF Ledgers!Less
  <2> HIDE DEF c, gained, kept
  <2> QED
    BY <1>3, <2>1 DEF Receipt
<1>6. receipt.consumer = c.consumer /\ receipt.node = c.node /\ receipt.kept = kept
      /\ receipt.weight = Ledgers!Less(receipt.precreate,
                             Ledgers!SettlementContributionWeight(receipt.consumer, receipt.node))
  BY <1>2
<1>7. /\ NewEntries(c, new) /\ DOMAIN new = SettleRows(c)
      /\ Len(new[Rs]) = 1 /\ new[Rs][1].delta = kept
      /\ new[Rs][1].after = account[Rs].balance + kept
      /\ c.node = c.consumer =>
           /\ Len(new[Qc]) = 2 /\ new[Qc][2].after = account[Qc].balance - paid + gained
      /\ c.node # c.consumer =>
           /\ Len(new[Qc]) = 1 /\ new[Qc][1].after = account[Qc].balance - paid
           /\ Len(new[Qn]) = 1 /\ new[Qn][1].after = account[Qn].balance + gained
  <2>1. /\ LedgersType /\ c \in Command /\ c.kind = "settle" /\ weight \in {0, 1, 10}
        /\ \A a \in SettleRows(c) : saw[a] = account[a]
    BY <1>1, <1>2, <1>4 DEF LedgerInv, LedgerCore
  <2> HIDE DEF c, saw, weight
  <2> QED
    BY <2>1, SettlementIsNew
<1> HIDE DEF new, receipt
<1>8. receipts \in Seq(Receipt) /\ receipts' \in Seq(Receipt)
      /\ (receipts' = receipts \/ receipts' = Append(receipts, receipt))
  <2>1. receipts \in Seq(Receipt)
    BY DEF LedgerInv, LedgerCore, LedgersType
  <2> QED
    BY <1>1, <1>5, <2>1
<1>9. ASSUME NEW u \in LedgerTx, u # t, Ledgers!Running(u) PROVE KnowsWeight(u)'
  <2>1. ltx'[u] = ltx[u] /\ KnowsWeight(u) /\ HoldsRows(u) /\ ltx[u] \in LedgerTxRecord
    BY <1>1, <1>9, LedgerTxStates DEF Ledgers!EndsTx, LedgerInv, LedgerCore, LedgersType, TxsSound
  <2> DEFINE d == ltx[u].command
  <2> SUFFICES ASSUME d.kind = "settle", ltx[u].locked >= 3
               PROVE  KnowsWeight(u)'
    BY <2>1 DEF KnowsWeight
  <2>a. PICK x, y : x = d.consumer /\ y = d.node
    OBVIOUS
  <2>2. d \in Command /\ ltx[u].locked \in 0 .. 4
    BY <2>1 DEF LedgerTxRecord
  <2>3. row_lock[<<"account", d.consumer>>] = u /\ row_lock[<<"account", d.node>>] = u
    <3>1. PICK low \in User, high \in User :
            /\ Ledgers!LockOrder(d)[2] = <<"account", low>> /\ Ledgers!LockOrder(d)[3] = <<"account", high>>
            /\ {low, high} = {d.consumer, d.node}
      <4>1. d \in Command /\ d.kind = "settle"
        BY <2>2
      <4> HIDE DEF d
      <4> QED
        BY <4>1, Order
    <3>2. 2 \in 1 .. ltx[u].locked /\ 3 \in 1 .. ltx[u].locked
      BY <2>2
    <3>3. row_lock[<<"account", low>>] = u /\ row_lock[<<"account", high>>] = u
      BY <2>1, <3>1, <3>2 DEF HoldsRows, Ordered
    <3> HIDE DEF d
    <3> QED
      BY <3>1, <3>3
  <2>4. ~ (receipt.consumer = d.consumer /\ receipt.node = d.node)
        /\ ~ (receipt.consumer = d.node /\ receipt.node = d.consumer)
    BY <1>4, <1>6, <1>9, <2>3
  <2>5. \/ receipts' = receipts
        \/ \E r \in Receipt : /\ receipts' = Append(receipts, r)
                              /\ ~ (r.consumer = x /\ r.node = y)
                              /\ ~ (r.consumer = y /\ r.node = x)
    BY <1>5, <1>8, <2>a, <2>4
  <2>6. Ledgers!SettlementContributionWeight(x, y)' = Ledgers!SettlementContributionWeight(x, y)
    BY <1>8, <2>5, WeightKept
  <2> QED
    BY <2>1, <2>a, <2>6 DEF KnowsWeight
<1>10. LedgerCore' /\ (Inserted(c, new) \/ UNCHANGED <<ledger, account, recorded>>)
  <2>1. \A a \in DOMAIN new : row_lock[Ledgers!RowOf(a)] = t
    BY <1>4, <1>7
  <2> QED
    BY <1>1, <1>2, <1>7, <1>8, <1>9, <2>1, CommitCore DEF LedgerInv
<1>11. CASE UNCHANGED <<ledger, account, recorded>>
  <2>1. UNCHANGED <<ledger, account, recorded, receipts, report>>
    BY <1>1, <1>11
  <2> QED
    BY <1>10, <2>1, HistoryStays DEF LedgerInv
<1>12. CASE Inserted(c, new)
  <2>1. /\ recorded' = recorded \cup {c} /\ c \notin recorded
        /\ \A b \in Ledgers!Account \ SettleRows(c) : account'[b] = account[b]
        /\ \A b \in SettleRows(c) :
             /\ new[b] \in Seq(EntryRecord) /\ ledger'[b] = ledger[b] \o new[b]
             /\ account'[b].balance = new[b][Len(new[b])].after
             /\ \A i \in DOMAIN new[b] : Ledgers!ValidFields(b, new[b][i])
    BY <1>7, <1>12 DEF Inserted
  <2>2. receipts' = Append(receipts, receipt)
    BY <1>1, <2>1
  <2>3. recorded \subseteq Command /\ IsFiniteSet(recorded)
        /\ account \in [Ledgers!Account -> LedgerRow] /\ account' \in [Ledgers!Account -> LedgerRow]
        /\ ledger \in [Ledgers!Account -> Seq(EntryRecord)]
    BY <1>10 DEF LedgerInv, LedgerCore, LedgersType
  <2>4. /\ Qc \in SettleRows(c) /\ Qn \in SettleRows(c) /\ Rs \in SettleRows(c)
        /\ Qc \in Ledgers!Money /\ Qn \in Ledgers!Money /\ Rs \in Ledgers!Money
        /\ Rs # Qc /\ Rs # Qn /\ (Qc = Qn <=> c.node = c.consumer)
        /\ \A b \in Ledgers!Money \ {Qc, Qn, Rs} : b \in Ledgers!Account \ SettleRows(c)
    <3>1. /\ Qc \in SettleRows(c) /\ Qn \in SettleRows(c) /\ Rs \in SettleRows(c)
          /\ SettleRows(c) = {Qc, Qn, Ledgers!Contribution(c.node), Rs}
      BY DEF SettleRows
    <3>2. /\ Qc \in Ledgers!Money /\ Qn \in Ledgers!Money /\ Rs \in Ledgers!Money
      BY <1>3, MoneyIs DEF Accounts
    <3>3. Rs # Qc /\ Rs # Qn /\ (Qc = Qn <=> c.node = c.consumer)
      BY Names
    <3>4. Ledgers!Contribution(c.node) \notin Ledgers!Money
      BY <1>3, Names DEF Ledgers!Money
    <3> HIDE DEF Qc, Qn, Rs
    <3> QED
      BY <3>1, <3>2, <3>3, <3>4, MoneyIs
  <2>5. /\ account'[Rs].balance = account[Rs].balance + kept
        /\ c.node = c.consumer => account'[Qc].balance = account[Qc].balance - paid + gained
        /\ c.node # c.consumer => /\ account'[Qc].balance = account[Qc].balance - paid
                                  /\ account'[Qn].balance = account[Qn].balance + gained
    <3> HIDE DEF Qc, Qn, Rs, c, paid, gained, kept
    <3> QED
      BY <1>7, <2>1, <2>4
  <2>6. MoneyKept'
    <3> DEFINE g == [b \in Ledgers!Money |-> account'[b].balance]
    <3>1. \A b \in Ledgers!Money : Balances[b] = account[b].balance /\ Balances[b] \in Int
      BY <2>3, BalancesType
    <3>2. \A b \in Ledgers!Money : g[b] = account'[b].balance /\ g[b] \in Int
      BY <2>3, MoneyIs DEF LedgerRow
    <3>3. \A b \in Ledgers!Money : b # Qc /\ b # Qn /\ b # Rs => g[b] = Balances[b]
      BY <2>1, <2>4, <3>1, <3>2
    <3>4. /\ g[Rs] = Balances[Rs] + paid - gained
          /\ Qc = Qn => g[Qc] = Balances[Qc] - paid + gained
          /\ Qc # Qn => g[Qc] = Balances[Qc] - paid /\ g[Qn] = Balances[Qn] + gained
      <4>1. kept = paid - gained
        BY <1>3
      <4>2. /\ g[Rs] = account'[Rs].balance /\ g[Qc] = account'[Qc].balance /\ g[Qn] = account'[Qn].balance
            /\ Balances[Rs] = account[Rs].balance /\ Balances[Qc] = account[Qc].balance
            /\ Balances[Qn] = account[Qn].balance /\ Balances[Rs] \in Int
        BY <2>4, <3>1, <3>2
      <4>3. account[Rs].balance + kept = account[Rs].balance + paid - gained
        <5> HIDE DEF paid, gained, kept, Rs
        <5> QED
          BY <1>3, <4>1, <4>2
      <4> HIDE DEF g, Qc, Qn, Rs, paid, gained, kept, c
      <4> QED
        BY <2>4, <2>5, <4>2, <4>3
    <3>5. SumOf(g, Ledgers!Money) = SumOf(Balances, Ledgers!Money)
      <4>1. paid \in Int /\ gained \in Int
        BY <1>3
      <4>2. \A b \in Ledgers!Money : Balances[b] \in Int /\ g[b] \in Int
        BY <3>1, <3>2
      <4>3. /\ Qc \in Ledgers!Money /\ Qn \in Ledgers!Money /\ Rs \in Ledgers!Money
            /\ Rs # Qc /\ Rs # Qn
        BY <2>4
      <4> HIDE DEF g, Qc, Qn, Rs, paid, gained
      <4>4. Settled(Balances, g, Qc, Qn, Rs, paid, gained)
        BY <3>3, <3>4, <4>1, <4>2, <4>3 DEF Settled
      <4> QED
        BY <4>4, SettlementKeepsMoney
    <3>6. Balances' = g /\ Ledgers!Money' = Ledgers!Money
      BY DEF Balances, Ledgers!Money
    <3>7. Ledgers!Amounts("grant")' = Ledgers!Amounts("grant")
          /\ Ledgers!Amounts("release")' = Ledgers!Amounts("release")
      BY <1>1, <1>2, <2>1, <2>3, AmountsGrow
    <3> HIDE DEF g
    <3> QED
      BY <3>5, <3>6, <3>7 DEF MoneyKept, LedgerInv
  <2>7. ReserveHistory'
    <3> DEFINE l == ledger[Rs]
               m == new[Rs]
    <3>1. l \in Seq(EntryRecord) /\ m \in Seq(EntryRecord) /\ Len(m) = 1 /\ m[1].delta = kept
          /\ ledger'[Rs] = l \o m
      BY <1>7, <2>1, <2>3, <2>4, MoneyIs
    <3>2. kept > 0
      <4>1. 1 \in DOMAIN m
        BY <3>1
      <4>2. Ledgers!ValidFields(Rs, m[1])
        BY <2>1, <2>4, <4>1
      <4>3. Rs[1] # "contribution"
        BY Names
      <4> HIDE DEF m, Rs, kept
      <4> QED
        BY <1>3, <3>1, <4>2, <4>3 DEF Ledgers!ValidFields
    <3>3. ~ (kept < 0)
      BY <1>3
    <3> HIDE DEF l, m, kept
    <3>4. /\ Ledgers!Total(Ledgers!Inflow(l)) \in Int /\ Ledgers!Total(Ledgers!Outflow(l)) \in Int
          /\ Ledgers!Total(Ledgers!Inflow(l \o m)) = Ledgers!Total(Ledgers!Inflow(l)) + kept
          /\ Ledgers!Total(Ledgers!Outflow(l \o m)) = Ledgers!Total(Ledgers!Outflow(l)) + 0
      BY <3>1, <3>2, <3>3, FlowsGrow
    <3>5. /\ Ledgers!Total(Ledgers!Inflow(l)) = Ledgers!Total(Ledgers!Kept(receipts))
          /\ account[Rs].balance =
               Ledgers!Total(Ledgers!Inflow(l)) - Ledgers!Total(Ledgers!Outflow(l))
      BY DEF LedgerInv, ReserveHistory, l
    <3>6. Ledgers!Total(Ledgers!Kept(Append(receipts, receipt)))
            = Ledgers!Total(Ledgers!Kept(receipts)) + receipt.kept
      BY <1>5, <1>8, KeptGrows
    <3>7. Ledgers!Total(Ledgers!Inflow(l \o m)) = Ledgers!Total(Ledgers!Kept(Append(receipts, receipt)))
      BY <1>6, <3>4, <3>5, <3>6 DEF kept
    <3>8. account'[Rs].balance =
            Ledgers!Total(Ledgers!Inflow(l \o m)) - Ledgers!Total(Ledgers!Outflow(l \o m))
      <4>1. kept \in Int /\ account'[Rs].balance = account[Rs].balance + kept
        BY <1>3, <2>5 DEF kept
      <4> HIDE DEF Rs
      <4> QED
        BY <3>4, <3>5, <4>1
    <3> QED
      BY <2>2, <3>1, <3>7, <3>8 DEF ReserveHistory, Ledgers!Reserve
  <2>8. Ledgers!LoopsWeighed'
    BY <1>5, <1>6, <1>8, <2>2, ReceiptWeighed DEF LedgerInv
  <2>9. ReportInv'
    BY <1>1, <1>5, <1>8, ReportKept DEF LedgerInv
  <2> QED
    BY <1>10, <2>6, <2>7, <2>8, <2>9 DEF LedgerInv
<1> QED
  BY <1>10, <1>11, <1>12

-----------------------------------------------------------------------------
\* A transaction that ends without writing leaves the tables as they are.
LEMMA LedgerStops ==
  ASSUME LedgerInv, NEW t \in LedgerTx, Ledgers!Running(t), Ledgers!EndsTx(t),
         UNCHANGED <<ledger, account, recorded, receipts, refused, report>>
  PROVE  LedgerInv'
<1>1. \A u \in LedgerTx : u # t /\ Ledgers!Running(u) => KnowsWeight(u)'
  BY WeightsStay DEF LedgerInv
<1>2. /\ ltx' \in [LedgerTx -> LedgerTxRecord \cup {Ledgers!LedgerIdle}]
      /\ row_lock' \in [Ledgers!Row -> LedgerTx \cup {None}]
      /\ TxsSound' /\ LocksHeld'
  BY <1>1, LedgerEnds DEF LedgerInv, LedgerCore
<1>3. LedgersType' /\ KeysRecorded' /\ Chains' /\ OnceEach'
  BY <1>2 DEF LedgerInv, LedgerCore, LedgersType, KeysRecorded, Chains, OnceEach
<1> QED
  BY <1>2, <1>3, HistoryStays DEF LedgerInv, LedgerCore

\* What a step that changes no table and no lock leaves as it is.
LEMMA TxsStay ==
  ASSUME TxsSound, UNCHANGED <<account, receipts, ltx, row_lock>>
  PROVE  TxsSound'
<1> SUFFICES ASSUME NEW u \in LedgerTx, Ledgers!Running(u)'
             PROVE  (InOrder(u) /\ HoldsRows(u) /\ SeesRows(u) /\ KnowsWeight(u))'
  BY DEF TxsSound
<1>1. ltx'[u] = ltx[u] /\ Ledgers!Running(u)
  BY DEF Ledgers!Running
<1>2. InOrder(u) /\ HoldsRows(u) /\ SeesRows(u) /\ KnowsWeight(u)
  BY <1>1 DEF TxsSound
<1>3. Ordered(u)' = Ordered(u)
  BY <1>1 DEF Ordered, Ledgers!LockOrder
<1>4. HoldsRows(u)' /\ InOrder(u)'
  BY <1>1, <1>2, <1>3 DEF InOrder, HoldsRows
<1>5. SeesRows(u)'
  BY <1>1, <1>2, <1>3 DEF SeesRows, Ledgers!RowOf, Ledgers!Account, Ledgers!Reserve
<1>6. KnowsWeight(u)'
  <2>1. \A x, y : Ledgers!SettlementContributionWeight(x, y)'
                   = Ledgers!SettlementContributionWeight(x, y)
    BY DEF Ledgers!SettlementContributionWeight, Ledgers!Edges
  <2> QED
    BY <1>1, <1>2, <2>1 DEF KnowsWeight
<1> QED
  BY <1>4, <1>5, <1>6

\* A report fixes what it says when it begins.
LEMMA LedgerReports ==
  ASSUME LedgerInv, Ledgers!BeginReport \/ Ledgers!FinishReport
  PROVE  LedgerInv'
<1>1. UNCHANGED <<ledger, account, recorded, receipts, ltx, row_lock, refused>>
  BY DEF Ledgers!BeginReport, Ledgers!FinishReport, Ledgers!tables
<1>2. LedgerCore'
  <2>1. LedgersType' /\ KeysRecorded' /\ Chains' /\ OnceEach'
    BY <1>1 DEF LedgerInv, LedgerCore, LedgersType, KeysRecorded, Chains, OnceEach
  <2>2. TxsSound'
    BY <1>1, TxsStay DEF LedgerInv, LedgerCore
  <2>3. LocksHeld'
    BY <1>1 DEF LedgerInv, LedgerCore, LocksHeld, Ledgers!Running, Ordered
  <2> QED
    BY <2>1, <2>2, <2>3 DEF LedgerCore
<1>3. MoneyKept'
  BY <1>1 DEF LedgerInv, MoneyKept, Balances, Ledgers!Amounts, Ledgers!Done, Ledgers!Money
<1>4. ReserveHistory'
  BY <1>1 DEF LedgerInv, ReserveHistory
<1>5. Ledgers!LoopsWeighed'
  BY <1>1 DEF LedgerInv, Ledgers!LoopsWeighed
<1>6. ReportInv'
  <2>1. receipts \in Seq(Receipt) /\ ledger[Ledgers!Reserve] \in Seq(EntryRecord)
        /\ account[Ledgers!Reserve] \in LedgerRow
    BY Names DEF LedgerInv, LedgerCore, LedgersType
  <2> DEFINE inflow == Ledgers!Total(Ledgers!Inflow(ledger[Ledgers!Reserve]))
             outflow == Ledgers!Total(Ledgers!Outflow(ledger[Ledgers!Reserve]))
             rewards == Ledgers!Total(Ledgers!Earned(receipts))
             balance == account[Ledgers!Reserve].balance
  <2>2. CASE Ledgers!BeginReport
    <3>1. report' = [at |-> "begun", rewards |-> rewards,
                     reserve |-> [balance |-> balance, inflow |-> inflow, outflow |-> outflow]]
      BY <2>2 DEF Ledgers!BeginReport, Ledgers!ReserveView
    <3>2. inflow = Ledgers!Total(Ledgers!Kept(receipts)) /\ balance = inflow - outflow
      BY DEF LedgerInv, ReserveHistory
    <3>3. rewards \in Int /\ inflow \in Int /\ balance \in Int /\ outflow \in Int
      <4>1. rewards \in Int /\ inflow \in Int
        BY <2>1, <3>2, PaidType
      <4>2. outflow \in Int
        <5> DEFINE l == ledger[Ledgers!Reserve]
        <5>1. Len(l) \in Nat /\ DOMAIN l = 1 .. Len(l)
          BY <2>1, LenProperties
        <5>2. \A i \in 1 .. Len(l) : l[i] \in EntryRecord
          BY <2>1, ElementOfSeq
        <5> HIDE DEF l
        <5>3. DOMAIN Ledgers!Outflow(l) = 1 .. Len(l)
              /\ \A i \in 1 .. Len(l) : Ledgers!Outflow(l)[i] \in Int
          BY <5>1, <5>2 DEF Ledgers!Outflow, EntryRecord
        <5>4. Ledgers!Total(Ledgers!Outflow(l)) \in Int
          BY <5>1, <5>3, TotalType
        <5> QED
          BY <5>4 DEF l
      <4> QED
        BY <2>1, <4>1, <4>2 DEF LedgerRow
    <3>4. Len(receipts) \in 0 .. Len(receipts) /\ SubSeq(receipts, 1, Len(receipts)) = receipts
      BY <2>1
    <3> HIDE DEF inflow, outflow, rewards, balance
    <3>5. report' \in ReportRecord
      BY <3>1, <3>3 DEF ReportRecord
    <3>6. /\ report'.reserve.balance = report'.reserve.inflow - report'.reserve.outflow
          /\ report'.rewards = Ledgers!Total(Ledgers!Earned(SubSeq(receipts, 1, Len(receipts))))
          /\ report'.reserve.inflow = Ledgers!Total(Ledgers!Kept(SubSeq(receipts, 1, Len(receipts))))
      BY <3>1, <3>2, <3>4 DEF rewards
    <3>7. OfOneMoment'
      BY <1>1, <3>4, <3>6 DEF OfOneMoment
    <3> QED
      BY <3>5, <3>7 DEF ReportInv
  <2>3. CASE Ledgers!FinishReport
    <3>1. report.at = "begun" /\ report' = [report EXCEPT !.at = "sent"]
      BY <2>3 DEF Ledgers!FinishReport
    <3>2. report \in ReportRecord /\ OfOneMoment
      BY <3>1 DEF LedgerInv, ReportInv
    <3>3. report' \in ReportRecord /\ report'.reserve = report.reserve /\ report'.rewards = report.rewards
      BY <3>1, <3>2 DEF ReportRecord
    <3>4. OfOneMoment'
      BY <1>1, <3>2, <3>3 DEF OfOneMoment
    <3> QED
      BY <3>3, <3>4 DEF ReportInv
  <2> QED
    BY <2>2, <2>3
<1> QED
  BY <1>2, <1>3, <1>4, <1>5, <1>6 DEF LedgerInv

\* Every step of the ledgers keeps the invariant.
LEMMA LedgersNext ==
  ASSUME LedgerInv, [Ledgers!Next]_ledgers
  PROVE  LedgerInv'
<1>1. CASE UNCHANGED ledgers
  <2>1. UNCHANGED <<ledger, account, recorded, receipts, ltx, row_lock, refused, report>>
    BY <1>1 DEF ledgers
  <2>2. LedgersType' /\ KeysRecorded' /\ Chains' /\ OnceEach'
    BY <2>1 DEF LedgerInv, LedgerCore, LedgersType, KeysRecorded, Chains, OnceEach
  <2>3. TxsSound'
    BY <2>1, TxsStay DEF LedgerInv, LedgerCore
  <2>4. LocksHeld'
    BY <2>1 DEF LedgerInv, LedgerCore, LocksHeld, Ledgers!Running, Ordered
  <2>5. MoneyKept' /\ ReserveHistory' /\ Ledgers!LoopsWeighed' /\ ReportInv'
    BY <2>1, HistoryStays
  <2> QED
    BY <2>2, <2>3, <2>4, <2>5 DEF LedgerInv, LedgerCore
<1>2. ASSUME NEW t \in LedgerTx, (\E c \in Command : Ledgers!Begin(t, c)) \/ Ledgers!Lock(t)
      PROVE  LedgerInv'
  <2>1. LedgersType' /\ TxsSound' /\ LocksHeld'
    BY <1>2, LedgerBegins, LedgerLocks DEF LedgerInv, LedgerCore
  <2>2. UNCHANGED <<ledger, account, recorded, receipts, report>>
    BY <1>2 DEF Ledgers!Begin, Ledgers!Lock, Ledgers!tables
  <2>3. KeysRecorded' /\ Chains' /\ OnceEach'
    BY <2>2 DEF LedgerInv, LedgerCore, KeysRecorded, Chains, OnceEach
  <2> QED
    BY <2>1, <2>2, <2>3, HistoryStays DEF LedgerInv, LedgerCore
<1>3. ASSUME NEW t \in LedgerTx, Ledgers!AnswerFromRecord(t) \/ Ledgers!TxFails(t)
      PROVE  LedgerInv'
  BY <1>3, LedgerStops DEF Ledgers!AnswerFromRecord, Ledgers!TxFails, Ledgers!tables
<1> QED
  BY <1>1, <1>2, <1>3, LedgerReports, SettlementNext, ReleaseNext, GrantNext DEF Ledgers!Next

\* The first grants are a chain of one entry each.
LEMMA LedgersInit == Ledgers!Init => LedgerInv
<1> SUFFICES ASSUME Ledgers!Init PROVE LedgerInv
  OBVIOUS
<1>1. /\ recorded = {} /\ receipts = <<>> /\ refused = FALSE /\ report = [at |-> "none"]
      /\ ltx = [t \in LedgerTx |-> Ledgers!LedgerIdle] /\ row_lock = [r \in Ledgers!Row |-> None]
      /\ \A a \in Ledgers!Account :
           /\ ledger[a] = IF a[1] = "quota" THEN <<Ledgers!Opening(a[2])>> ELSE <<>>
           /\ account[a] = IF a[1] = "quota"
                           THEN [balance |-> InitialQuota, head |-> Ledgers!Opened, count |-> 1]
                           ELSE [balance |-> 0, head |-> Ledgers!Genesis, count |-> 0]
      /\ ledger = [a \in Ledgers!Account |-> ledger[a]] /\ account = [a \in Ledgers!Account |-> account[a]]
  BY DEF Ledgers!Init
<1>2. Ledgers!Opened \in LedgerKey /\ Ledgers!Genesis \in LedgerKey /\ InitialQuota \in Nat
  BY LedgerAssumption DEF LedgerKey
<1>3. \A u : Ledgers!Opening(u) \in EntryRecord
  BY <1>2 DEF Ledgers!Opening, EntryRecord
<1>4. \A a \in Ledgers!Account : ledger[a] \in Seq(EntryRecord) /\ account[a] \in LedgerRow
  <2> TAKE a \in Ledgers!Account
  <2>1. CASE a[1] = "quota"
    <3> DEFINE e == Ledgers!Opening(a[2])
    <3>1. ledger[a] = <<e>> /\ account[a] = [balance |-> InitialQuota, head |-> Ledgers!Opened, count |-> 1]
      BY <1>1, <2>1
    <3>2. e \in EntryRecord
      BY <1>3
    <3> HIDE DEF e
    <3>3. <<e>> \in Seq(EntryRecord)
      BY <3>2
    <3>4. account[a] \in LedgerRow
      BY <1>2, <3>1 DEF LedgerRow
    <3> QED
      BY <3>1, <3>3, <3>4
  <2>2. CASE a[1] # "quota"
    <3>1. ledger[a] = <<>> /\ account[a] = [balance |-> 0, head |-> Ledgers!Genesis, count |-> 0]
      BY <1>1, <2>2
    <3>2. <<>> \in Seq(EntryRecord)
      OBVIOUS
    <3>3. account[a] \in LedgerRow
      BY <1>2, <3>1 DEF LedgerRow
    <3> QED
      BY <3>1, <3>2, <3>3
  <2> QED
    BY <2>1, <2>2
<1>5. LedgersType
  <2>1. IsFiniteSet({})
    BY FS_EmptySet
  <2>2. receipts \in Seq(Receipt)
    BY <1>1
  <2>3. ledger \in [Ledgers!Account -> Seq(EntryRecord)] /\ account \in [Ledgers!Account -> LedgerRow]
    BY <1>1, <1>4
  <2> QED
    BY <1>1, <2>1, <2>2, <2>3 DEF LedgersType
<1>6. Chains /\ KeysRecorded
  <2> SUFFICES ASSUME NEW a \in Ledgers!Account
               PROVE  /\ ChainOf(ledger[a], account[a])
                      /\ \A i \in DOMAIN ledger[a] : ledger[a][i].key = Ledgers!Opened
    BY DEF Chains, KeysRecorded
  <2>1. CASE a[1] = "quota"
    <3> DEFINE e == Ledgers!Opening(a[2])
    <3>1. ledger[a] = <<e>> /\ account[a] = [balance |-> InitialQuota, head |-> Ledgers!Opened, count |-> 1]
      BY <1>1, <2>1
    <3>2. DOMAIN <<e>> = {1} /\ <<e>>[1] = e /\ Len(<<e>>) = 1
      OBVIOUS
    <3>3. e.key = Ledgers!Opened /\ e.after = InitialQuota /\ e.delta = InitialQuota /\ e.before = 0
          /\ e.prev = Ledgers!Genesis /\ 0 + InitialQuota = InitialQuota
      BY <1>2 DEF Ledgers!Opening
    <3> HIDE DEF e
    <3>4. Ledgers!Extends(RowAt(<<e>>, 0), e) /\ RowAt(<<e>>, 1) = account[a]
      BY <3>1, <3>2, <3>3 DEF RowAt, Ledgers!Extends
    <3> QED
      BY <3>1, <3>2, <3>3, <3>4 DEF ChainOf
  <2>2. CASE a[1] # "quota"
    <3>1. ledger[a] = <<>> /\ account[a] = [balance |-> 0, head |-> Ledgers!Genesis, count |-> 0]
      BY <1>1, <2>2
    <3> QED
      BY <3>1 DEF ChainOf, RowAt
  <2> QED
    BY <2>1, <2>2
<1>7. OnceEach /\ TxsSound /\ LocksHeld
  BY <1>1 DEF OnceEach, TxsSound, LocksHeld, Ledgers!Running, Ledgers!LedgerIdle
<1>8. MoneyKept
  <2>1. \A u \in User : Balances[Ledgers!Quota(u)] = InitialQuota
    BY <1>1, Names, MoneyIs DEF Balances, Accounts
  <2>2. Balances[Ledgers!Reserve] = 0
    BY <1>1, Names, MoneyIs DEF Balances
  <2>3. IsFiniteSet(Accounts(User)) /\ Cardinality(User) \in Nat
        /\ SumOf(Balances, Accounts(User)) = InitialQuota * Cardinality(User)
    BY <1>2, <2>1, EqualMoney
  <2>4. \A a \in Accounts(User) \cup {Ledgers!Reserve} : Balances[a] \in Int
    BY <1>2, <2>1, <2>2 DEF Accounts
  <2>5. SumOf(Balances, Ledgers!Money) = Balances[Ledgers!Reserve] + SumOf(Balances, Accounts(User))
    BY <2>3, <2>4, MoneyIs, SumAdd
  <2>6. Ledgers!Amounts("grant") = 0 /\ Ledgers!Amounts("release") = 0
    <3>1. \A kind : Ledgers!Done(kind) = {}
      BY <1>1 DEF Ledgers!Done
    <3>2. \A f : SumOf(f, {}) = 0
      BY SumPicks, FS_EmptySet
    <3> QED
      BY <3>1, <3>2, SumIs DEF Ledgers!Amounts
  <2> DEFINE first == InitialQuota * Cardinality(User)
  <2>7. first \in Int
    BY <1>2, <2>3
  <2>8. SumOf(Balances, Ledgers!Money) = 0 + first
    BY <2>2, <2>3, <2>5
  <2> HIDE DEF first
  <2>9. SumOf(Balances, Ledgers!Money) = first + 0 - 0
    BY <2>7, <2>8
  <2> QED
    BY <2>6, <2>9 DEF MoneyKept, first
<1>9. ReserveHistory
  <2>1. ledger[Ledgers!Reserve] = <<>> /\ account[Ledgers!Reserve].balance = 0
    BY <1>1, Names
  <2>2. \A f : DOMAIN f = {} => Ledgers!Total(f) = 0
    <3>1. \A f : SumOf(f, {}) = 0
      BY SumPicks, FS_EmptySet
    <3> QED
      BY <3>1, SumIs DEF Ledgers!Total
  <2>3. DOMAIN Ledgers!Inflow(<<>>) = {} /\ DOMAIN Ledgers!Outflow(<<>>) = {} /\ DOMAIN Ledgers!Kept(<<>>) = {}
    BY DEF Ledgers!Inflow, Ledgers!Outflow, Ledgers!Kept
  <2> QED
    BY <1>1, <2>1, <2>2, <2>3 DEF ReserveHistory
<1>10. Ledgers!LoopsWeighed /\ ReportInv
  BY <1>1 DEF Ledgers!LoopsWeighed, ReportInv
<1> QED
  BY <1>5, <1>6, <1>7, <1>8, <1>9, <1>10 DEF LedgerInv, LedgerCore

-----------------------------------------------------------------------------
\* No circle of transactions: the rows are locked in one order, so of those that
\* wait, the one for the last row waits for nobody that waits.
LEMMA NoCircle ==
  ASSUME LedgerCore, NEW stuck \in SUBSET LedgerTx, stuck # {},
         \A t \in stuck : Ledgers!Waits(t) /\ row_lock[Ledgers!Wants(t)] \in stuck \ {t}
  PROVE  FALSE
<1>1. ASSUME NEW t \in stuck
      PROVE  LET c == ltx[t].command
                 n == ltx[t].locked
             IN /\ c \in Command /\ n \in 0 .. 4 /\ n < Len(Ledgers!LockOrder(c))
                /\ Ledgers!Wants(t) = Ledgers!LockOrder(c)[n + 1] /\ Ledgers!Wants(t) \in Ledgers!Row
                /\ \A i \in 1 .. n : row_lock[Ledgers!LockOrder(c)[i]] = t
  <2>1. Ledgers!Running(t) /\ ltx[t].locked # Len(Ledgers!LockOrder(ltx[t].command))
    BY <1>1 DEF Ledgers!Waits, Ledgers!AllLocked
  <2>2. ltx[t] \in LedgerTxRecord /\ InOrder(t) /\ HoldsRows(t)
    BY <1>1, <2>1, LedgerTxStates DEF LedgerCore, TxsSound
  <2>3. ltx[t].command \in Command /\ ltx[t].locked \in 0 .. 4
    BY <2>2 DEF LedgerTxRecord
  <2>4. Len(Ledgers!LockOrder(ltx[t].command)) \in 1 .. 4
        /\ Ledgers!LockOrder(ltx[t].command) \in Seq(Ledgers!Row)
    BY <2>3, Order
  <2>5. ltx[t].locked < Len(Ledgers!LockOrder(ltx[t].command))
    BY <2>1, <2>2, <2>3, <2>4 DEF InOrder, Ordered
  <2>6. Ledgers!Wants(t) \in Ledgers!Row
    <3>1. ltx[t].locked + 1 \in 1 .. Len(Ledgers!LockOrder(ltx[t].command))
      BY <2>3, <2>4, <2>5
    <3> QED
      BY <2>4, <3>1, ElementOfSeq DEF Ledgers!Wants
  <2> QED
    BY <2>2, <2>3, <2>5, <2>6 DEF HoldsRows, Ordered, Ledgers!Wants
\* What a waiting transaction holds and wants.
<1>2. ASSUME NEW t \in stuck
      PROVE  \/ \E k : Ledgers!Wants(t) = <<"key", k>> /\ ltx[t].locked = 0
             \/ \E u \in User : Ledgers!Wants(t) = <<"account", u>> /\ ltx[t].locked \in {1, 2}
             \/ Ledgers!Wants(t) = Ledgers!Reserve
  <2> DEFINE c == ltx[t].command
             n == ltx[t].locked
  <2>1. c \in Command /\ n \in 0 .. 4 /\ n < Len(Ledgers!LockOrder(c))
        /\ Ledgers!Wants(t) = Ledgers!LockOrder(c)[n + 1]
    BY <1>1, <1>2
  <2> HIDE DEF c, n
  <2>2. CASE c.kind = "settle"
    <3>1. Len(Ledgers!LockOrder(c)) = 4 /\ Ledgers!LockOrder(c)[1] = <<"key", c.key>>
          /\ Ledgers!LockOrder(c)[4] = Ledgers!Reserve
          /\ \E low, high \in User : /\ Ledgers!LockOrder(c)[2] = <<"account", low>>
                                    /\ Ledgers!LockOrder(c)[3] = <<"account", high>>
      BY <2>1, <2>2, Order
    <3>2. n = 0 \/ n = 1 \/ n = 2 \/ n = 3
      BY <2>1, <3>1
    <3> QED
      BY <2>1, <3>1, <3>2 DEF n
  <2>3. CASE c.kind = "grant"
    <3>1. Len(Ledgers!LockOrder(c)) = 2 /\ Ledgers!LockOrder(c)[1] = <<"key", c.key>>
          /\ Ledgers!LockOrder(c)[2] = <<"account", c.user>> /\ c.user \in User
      BY <2>1, <2>3, Order
    <3>2. n = 0 \/ n = 1
      BY <2>1, <3>1
    <3> QED
      BY <2>1, <3>1, <3>2 DEF n
  <2>4. CASE c.kind = "release"
    <3>1. Len(Ledgers!LockOrder(c)) = 1 /\ Ledgers!LockOrder(c)[1] = Ledgers!Reserve
      BY <2>1, <2>4, Order
    <3>2. n = 0
      BY <2>1, <3>1
    <3> QED
      BY <2>1, <3>1, <3>2
  <2> QED
    BY <2>1, <2>2, <2>3, <2>4, Order
<1>3. ASSUME NEW t \in stuck
      PROVE  LET h == row_lock[Ledgers!Wants(t)]
             IN /\ h \in stuck /\ h # t
                /\ \E i \in 1 .. ltx[h].locked :
                     Ledgers!LockOrder(ltx[h].command)[i] = Ledgers!Wants(t)
  <2>1. row_lock[Ledgers!Wants(t)] # None /\ Ledgers!Wants(t) \in Ledgers!Row
    BY <1>1, <1>3, LedgerAssumption
  <2> QED
    BY <1>3, <2>1 DEF LedgerCore, LocksHeld, Ordered
\* Who waits holds no row of the reserve.
<1>4. ASSUME NEW h \in stuck, NEW i \in 1 .. ltx[h].locked
      PROVE  Ledgers!LockOrder(ltx[h].command)[i] # Ledgers!Reserve
  <2> DEFINE c == ltx[h].command
             n == ltx[h].locked
  <2>1. c \in Command /\ n \in 0 .. 4 /\ n < Len(Ledgers!LockOrder(c)) /\ i \in 1 .. n
    BY <1>1, <1>4
  <2> HIDE DEF c, n
  <2>2. CASE c.kind = "settle"
    <3>1. Len(Ledgers!LockOrder(c)) = 4 /\ Ledgers!LockOrder(c)[1] = <<"key", c.key>>
          /\ \E low, high \in User : /\ Ledgers!LockOrder(c)[2] = <<"account", low>>
                                    /\ Ledgers!LockOrder(c)[3] = <<"account", high>>
      BY <2>1, <2>2, Order
    <3>2. i = 1 \/ i = 2 \/ i = 3
      BY <2>1, <3>1
    <3> QED
      BY <3>1, <3>2, Names DEF c
  <2>3. CASE c.kind = "grant"
    <3>1. Len(Ledgers!LockOrder(c)) = 2 /\ Ledgers!LockOrder(c)[1] = <<"key", c.key>>
      BY <2>1, <2>3, Order
    <3>2. i = 1
      BY <2>1, <3>1
    <3> QED
      BY <3>1, <3>2, Names DEF c
  <2>4. CASE c.kind = "release"
    <3>1. Len(Ledgers!LockOrder(c)) = 1
      BY <2>1, <2>4, Order
    <3> QED
      BY <2>1, <3>1
  <2> QED
    BY <2>1, <2>2, <2>3, <2>4, Order
<1>5. \A t \in stuck : Ledgers!Wants(t) # Ledgers!Reserve
  BY <1>3, <1>4
\* A holder of an account's row that waits, waits for a later account.
<1>6. ASSUME NEW h \in stuck, NEW i \in 1 .. ltx[h].locked, NEW u \in User,
             Ledgers!LockOrder(ltx[h].command)[i] = <<"account", u>>
      PROVE  \E v \in User : Ledgers!Wants(h) = <<"account", v>> /\ v > u
  <2> DEFINE c == ltx[h].command
             n == ltx[h].locked
  <2>1. c \in Command /\ n \in 0 .. 4 /\ n < Len(Ledgers!LockOrder(c)) /\ i \in 1 .. n
        /\ Ledgers!Wants(h) = Ledgers!LockOrder(c)[n + 1] /\ Ledgers!LockOrder(c)[i] = <<"account", u>>
        /\ row_lock[<<"account", u>>] = h
    BY <1>1, <1>6
  <2> HIDE DEF c, n
  <2>2. CASE c.kind = "settle"
    <3>1. Len(Ledgers!LockOrder(c)) = 4 /\ Ledgers!LockOrder(c)[1] = <<"key", c.key>>
          /\ Ledgers!LockOrder(c)[4] = Ledgers!Reserve
      BY <2>1, <2>2, Order
    <3>2. PICK low \in User, high \in User :
            /\ Ledgers!LockOrder(c)[2] = <<"account", low>>
            /\ Ledgers!LockOrder(c)[3] = <<"account", high>> /\ low <= high
      BY <2>1, <2>2, Order
    <3>3. i # 1
      BY <2>1, <3>1, Names
    <3>4. n # 3
      BY <1>5, <1>6, <2>1, <3>1
    <3>5. n = 2 /\ i = 2
      BY <2>1, <3>1, <3>3, <3>4
    <3>6. u = low /\ Ledgers!Wants(h) = <<"account", high>>
      BY <2>1, <3>2, <3>5, Names
    <3>7. low # high
      BY <1>3, <1>6, <2>1, <3>6
    <3>8. high > u
      BY <3>2, <3>6, <3>7, LedgerAssumption
    <3> QED
      BY <3>6, <3>8
  <2>3. CASE c.kind = "grant"
    <3>1. Len(Ledgers!LockOrder(c)) = 2 /\ Ledgers!LockOrder(c)[1] = <<"key", c.key>>
      BY <2>1, <2>3, Order
    <3>2. i = 1
      BY <2>1, <3>1
    <3> QED
      BY <2>1, <3>1, <3>2, Names
  <2>4. CASE c.kind = "release"
    <3>1. Len(Ledgers!LockOrder(c)) = 1
      BY <2>1, <2>4, Order
    <3> QED
      BY <2>1, <3>1
  <2> QED
    BY <2>1, <2>2, <2>3, <2>4, Order
<1> DEFINE wanted == {u \in User : \E t \in stuck : Ledgers!Wants(t) = <<"account", u>>}
<1>7. wanted = {}
  <2> SUFFICES ASSUME wanted # {} PROVE FALSE
    OBVIOUS
  <2>1. wanted \in SUBSET Nat /\ IsFiniteSet(wanted)
    BY LedgerAssumption, FS_Subset
  <2>2. PICK u \in wanted : \A v \in wanted : v <= u
    <3> HIDE DEF wanted
    <3> QED
      BY <2>1, GreatestNumber
  <2>3. PICK t \in stuck : Ledgers!Wants(t) = <<"account", u>>
    BY <2>2
  <2>4. PICK v \in User : \E h \in stuck : Ledgers!Wants(h) = <<"account", v>> /\ v > u
    BY <1>3, <1>6, <2>3
  <2>5. v \in wanted
    BY <2>4
  <2>6. v <= u /\ v > u /\ v \in Nat /\ u \in Nat
    BY <2>1, <2>2, <2>4, <2>5
  <2> QED
    BY <2>6
<1>8. \A t \in stuck : ltx[t].locked = 0
  BY <1>2, <1>5, <1>7
<1> QED
  BY <1>3, <1>8

(***************************************************************************)
(* LedgerSound: however settlements, grants and releases of any commands   *)
(* are interleaved, fail, are retried and repeated, every hash-chained     *)
(* ledger stays a chain of its account, each key once; the users and the   *)
(* reserve together hold what was granted less what was released; no       *)
(* insert is refused by its trigger and no number of transactions wait     *)
(* for each other in a circle; every reciprocal loop is weighed; and a     *)
(* transparency report is of one moment.                                   *)
(***************************************************************************)
THEOREM LedgerAlwaysSound == Spec => []LedgerSound
<1>1. Init => LedgerInv
  BY LedgersInit DEF Init
<1>2. LedgerInv /\ [Next]_vars => LedgerInv'
  <2>1. [Next]_vars => [Ledgers!Next]_ledgers
    BY DEF Next, vars
  <2> QED
    BY <2>1, LedgersNext
<1>3. LedgerInv => LedgerSound
  <2> SUFFICES ASSUME LedgerInv
               PROVE  /\ Ledgers!LedgersBalance /\ Ledgers!LocksSuffice
                      /\ Ledgers!LoopsWeighed /\ Ledgers!ReportConsistent
    BY DEF LedgerSound
  <2>1. Ledgers!LedgersBalance
    <3>1. \A a \in Ledgers!Account : Ledgers!Chained(a)
      BY ChainedIs DEF LedgerInv, LedgerCore, LedgersType, Chains
    <3>2. \A S : Ledgers!Cardinality(S) = Cardinality(S)
      BY SameLedgerCardinality
    <3>3. Ledgers!SumOf([a \in Ledgers!Money |-> account[a].balance], Ledgers!Money)
            = InitialQuota * Ledgers!Cardinality(User) + Ledgers!Amounts("grant") - Ledgers!Amounts("release")
      BY <3>2, SumIs DEF LedgerInv, MoneyKept, Balances
    <3> QED
      BY <3>1, <3>3 DEF Ledgers!LedgersBalance, LedgerInv, LedgerCore, OnceEach
  <2>2. Ledgers!LocksSuffice
    <3>1. refused = FALSE
      BY DEF LedgerInv, LedgerCore, LedgersType
    <3>2. \A stuck \in (SUBSET LedgerTx) \ {{}} :
            \E t \in stuck : Ledgers!Waits(t) => row_lock[Ledgers!Wants(t)] \notin stuck \ {t}
      <4> SUFFICES ASSUME NEW stuck \in (SUBSET LedgerTx) \ {{}},
                          ~ \E t \in stuck : Ledgers!Waits(t) =>
                              row_lock[Ledgers!Wants(t)] \notin stuck \ {t}
                   PROVE  FALSE
        OBVIOUS
      <4>1. stuck \in SUBSET LedgerTx /\ stuck # {}
        OBVIOUS
      <4>2. \A t \in stuck : Ledgers!Waits(t) /\ row_lock[Ledgers!Wants(t)] \in stuck \ {t}
        OBVIOUS
      <4>3. LedgerCore
        BY DEF LedgerInv
      <4> QED
        BY <4>1, <4>2, <4>3, NoCircle
    <3> QED
      BY <3>1, <3>2 DEF Ledgers!LocksSuffice
  <2>3. Ledgers!ReportConsistent
    BY DEF LedgerInv, ReportInv, OfOneMoment, Ledgers!ReportConsistent
  <2> QED
    BY <2>1, <2>2, <2>3 DEF LedgerInv
<1> QED
  BY <1>1, <1>2, <1>3, PTL DEF Spec

-----------------------------------------------------------------------------
(***************************************************************************)
(* Hidden evaluations.  A node that claims has no challenge under way, so  *)
(* the one it is issued is its only one.  A claim that has counted the     *)
(* free entries holds the reserve lock, and only such a claim issues a     *)
(* private entry: what it counted is still so when it issues.              *)
(***************************************************************************)
ChallengeRecord ==
  [node : Evaluated, entry : Entry \cup {0}, status : {"leased", "succeeded", "failed"},
   over : BOOLEAN, age : {"cooling", "hour", "old"}, signals : Nat,
   verdict : {"none", "pending", "corroborated", "disputed"}]

HiddenType ==
  /\ challenges \in Seq(ChallengeRecord)
  /\ claiming \in [Evaluated -> {"idle", "drawn", "counted"}]
  /\ free_entries \in [Evaluated -> SUBSET Entry]
  /\ reserve_lock \subseteq Evaluated
  /\ canary \in [Evaluated -> [failures : Nat, passes : Nat, quarantined : BOOLEAN]]
  /\ latest \in [Evaluated -> {"none", "passed", "failed"}]

\* What a claim relies on.
ClaimsSound ==
  \A n \in Evaluated :
    /\ claiming[n] # "idle" =>
         \A c \in Hidden!Challenge : challenges[c].node = n => ~Hidden!Leased(c)
    /\ claiming[n] = "counted" => reserve_lock = {n} /\ free_entries[n] = Hidden!Unissued

HiddenInv ==
  HiddenType /\ ClaimsSound /\ Hidden!OneOutcome /\ Hidden!BudgetKept

\* Cardinality is one operator, by whichever name it is reached.
LEMMA SameCardinality == \A S : Hidden!Cardinality(S) = Cardinality(S)
  BY DEF Hidden!Cardinality, Cardinality

\* The private challenges of the last hour in a scope.
Issued(scope) ==
  {c \in Hidden!Challenge :
     Hidden!Private(c) /\ challenges[c].age # "old" /\ challenges[c].node \in scope}

\* They are finitely many.
LEMMA IssuedFinite ==
  ASSUME HiddenType, NEW scope
  PROVE  /\ IsFiniteSet(Issued(scope)) /\ Cardinality(Issued(scope)) \in Nat
         /\ Hidden!IssuedIn(scope) = Cardinality(Issued(scope))
<1>1. IsFiniteSet(1 .. Len(challenges))
  BY FS_Interval DEF HiddenType
<1>2. Hidden!Challenge = 1 .. Len(challenges)
  BY DEF HiddenType, Hidden!Challenge
<1>3. Issued(scope) \subseteq 1 .. Len(challenges)
  BY <1>2 DEF Issued
<1>4. IsFiniteSet(Issued(scope)) /\ Cardinality(Issued(scope)) \in Nat
  BY <1>1, <1>3, FS_Subset, FS_CardinalityType
<1> QED
  BY <1>4, SameCardinality DEF Hidden!IssuedIn, Issued

LEMMA HiddenInit == Hidden!Init => HiddenInv
<1> SUFFICES ASSUME Hidden!Init PROVE HiddenInv
  OBVIOUS
<1>1. challenges = <<>> /\ Hidden!Challenge = {}
  BY DEF Hidden!Init, Hidden!Challenge
<1>2. HiddenType
  BY <1>1 DEF Hidden!Init, HiddenType
<1>3. ClaimsSound /\ Hidden!OneOutcome
  BY <1>1 DEF Hidden!Init, ClaimsSound, Hidden!OneOutcome
<1>4. ASSUME NEW scope PROVE Hidden!IssuedIn(scope) = 0
  BY <1>1, <1>2, IssuedFinite, FS_EmptySet DEF Issued
<1>5. Hidden!BudgetKept
  BY <1>4, EvaluationAssumption DEF Hidden!BudgetKept
<1> QED
  BY <1>2, <1>3, <1>5 DEF HiddenInv

\* When no challenge is issued and none gets younger, no count grows.
LEMMA CountsFall ==
  ASSUME HiddenType, HiddenType', Hidden!BudgetKept,
         Len(challenges') = Len(challenges),
         \A c \in Hidden!Challenge :
           /\ challenges'[c].node = challenges[c].node /\ challenges'[c].entry = challenges[c].entry
           /\ challenges[c].age = "old" => challenges'[c].age = "old"
  PROVE  Hidden!BudgetKept'
<1>1. DOMAIN challenges = 1 .. Len(challenges) /\ DOMAIN challenges' = 1 .. Len(challenges)
  BY DEF HiddenType
<1>2. ASSUME NEW scope PROVE Hidden!IssuedIn(scope)' <= Hidden!IssuedIn(scope)
  <2>1. Issued(scope)' \subseteq Issued(scope)
    BY <1>1 DEF Issued, Hidden!Challenge, Hidden!Private, Hidden!Canary
  <2>2. Cardinality(Issued(scope)') <= Cardinality(Issued(scope))
    BY <2>1, IssuedFinite, FS_Subset
  <2>3. Hidden!IssuedIn(scope) = Cardinality(Issued(scope))
    BY IssuedFinite
  <2>4. Hidden!IssuedIn(scope)' = Cardinality(Issued(scope)')
    BY SameCardinality DEF Hidden!IssuedIn, Issued
  <2> QED
    BY <2>2, <2>3, <2>4
<1>3. ASSUME NEW scope PROVE Hidden!IssuedIn(scope)' \in Nat /\ Hidden!IssuedIn(scope) \in Nat
  <2>1. Issued(scope)' \subseteq Issued(scope)
    BY <1>1 DEF Issued, Hidden!Challenge, Hidden!Private, Hidden!Canary
  <2>2. IsFiniteSet(Issued(scope)') /\ Cardinality(Issued(scope)') \in Nat
    BY <2>1, IssuedFinite, FS_Subset, FS_CardinalityType
  <2>3. Hidden!IssuedIn(scope)' = Cardinality(Issued(scope)')
    BY SameCardinality DEF Hidden!IssuedIn, Issued
  <2> QED
    BY <2>2, <2>3, IssuedFinite
<1> QED
  <2>1. Hidden!IssuedIn(Evaluated)' <= CatalogHourly
    BY <1>2, <1>3, EvaluationAssumption DEF Hidden!BudgetKept
  <2>2. ASSUME NEW n \in Evaluated
        PROVE  /\ Hidden!IssuedIn(Hidden!AccountNodes(n))' <= AccountHourly
               /\ Hidden!IssuedIn({n})' <= NodeHourly
    <3>1. ASSUME NEW scope, NEW bound \in Nat, Hidden!IssuedIn(scope) <= bound
          PROVE  Hidden!IssuedIn(scope)' <= bound
      BY <1>2, <1>3, <3>1
    <3>2. Hidden!IssuedIn(Hidden!AccountNodes(n)) <= AccountHourly
          /\ Hidden!IssuedIn({n}) <= NodeHourly
      BY <2>2 DEF Hidden!BudgetKept
    <3> QED
      BY <3>1, <3>2, EvaluationAssumption
  <2> QED
    BY <2>1, <2>2 DEF Hidden!BudgetKept

\* The state of canaries after an outcome.
LEMMA CanaryType ==
  ASSUME HiddenType, NEW n \in Evaluated, NEW passed \in BOOLEAN
  PROVE  Hidden!CanarySignal(n, passed) \in [failures : Nat, passes : Nat, quarantined : BOOLEAN]
<1> DEFINE old == canary[n]
           passes == IF passed /\ old.quarantined THEN old.passes + 1 ELSE 0
           failures == IF passed THEN 0 ELSE old.failures + 1
           quarantined == IF passed THEN old.quarantined /\ passes < RecoveryThreshold
                                    ELSE old.quarantined \/ failures >= FailureThreshold
           kept == IF quarantined THEN passes ELSE 0
<1>1. old.failures \in Nat /\ old.passes \in Nat
  BY DEF HiddenType
<1>2. failures \in Nat /\ passes \in Nat
  BY <1>1
<1>3. quarantined \in BOOLEAN
  OBVIOUS
<1>4. kept \in Nat
  BY <1>2
<1>5. Hidden!CanarySignal(n, passed)
        = [failures |-> failures, passes |-> kept, quarantined |-> quarantined]
  BY DEF Hidden!CanarySignal
<1> HIDE DEF failures, kept, quarantined
<1> QED
  BY <1>2, <1>3, <1>4, <1>5

\* What the end of a challenge does to its row.
LEMMA CompletedRow ==
  ASSUME HiddenType, NEW c \in Hidden!Challenge, NEW how \in {"succeeded", "failed"},
         NEW passed \in BOOLEAN, Hidden!Completes(c, how, passed)
  PROVE  /\ Len(challenges') = Len(challenges) /\ DOMAIN challenges' = DOMAIN challenges
         /\ challenges'[c].status = how /\ challenges'[c].signals = challenges[c].signals + 1
         /\ challenges' \in Seq(ChallengeRecord)
         /\ canary' \in [Evaluated -> [failures : Nat, passes : Nat, quarantined : BOOLEAN]]
         /\ latest' \in [Evaluated -> {"none", "passed", "failed"}]
         /\ \A d \in Hidden!Challenge :
              /\ challenges'[d].node = challenges[d].node
              /\ challenges'[d].entry = challenges[d].entry
              /\ challenges'[d].age = challenges[d].age
              /\ d # c => challenges'[d] = challenges[d]
<1> DEFINE n == challenges[c].node
           verdict == IF Hidden!Private(c) THEN Hidden!Arbitration(n, passed) ELSE "none"
           old == challenges[c]
           row == [old EXCEPT !.status = how, !.signals = @ + 1, !.verdict = verdict]
<1>1. DOMAIN challenges = 1 .. Len(challenges) /\ c \in 1 .. Len(challenges)
      /\ challenges[c] \in ChallengeRecord
  BY DEF HiddenType, Hidden!Challenge
<1>2. verdict \in {"none", "pending", "corroborated", "disputed"}
  BY DEF Hidden!Arbitration
<1>3. challenges' = [challenges EXCEPT ![c] = row]
  BY DEF Hidden!Completes
<1>4. /\ row \in ChallengeRecord /\ row.status = how /\ row.signals = challenges[c].signals + 1
      /\ row.node = challenges[c].node /\ row.entry = challenges[c].entry
      /\ row.age = challenges[c].age
  <2>1. old \in ChallengeRecord
    BY <1>1
  <2> HIDE DEF verdict, old
  <2>2. old.signals + 1 \in Nat
    BY <2>1 DEF ChallengeRecord
  <2>3. row \in ChallengeRecord
    BY <1>2, <2>1, <2>2 DEF ChallengeRecord
  <2>4. /\ row.status = how /\ row.signals = old.signals + 1
        /\ row.node = old.node /\ row.entry = old.entry /\ row.age = old.age
    BY <2>1 DEF ChallengeRecord
  <2> QED
    BY <2>3, <2>4 DEF old
<1> HIDE DEF row, verdict
<1>5. challenges' \in Seq(ChallengeRecord) /\ Len(challenges') = Len(challenges)
  BY <1>1, <1>3, <1>4 DEF HiddenType
<1>6. canary' \in [Evaluated -> [failures : Nat, passes : Nat, quarantined : BOOLEAN]]
  <2>1. n \in Evaluated /\ canary[n] \in [failures : Nat, passes : Nat, quarantined : BOOLEAN]
    BY <1>1 DEF HiddenType, ChallengeRecord
  <2>2. Hidden!CanarySignal(n, passed) \in [failures : Nat, passes : Nat, quarantined : BOOLEAN]
    BY <2>1, CanaryType
  <2> QED
    BY <2>1, <2>2 DEF HiddenType, Hidden!Completes
<1>7. latest' \in [Evaluated -> {"none", "passed", "failed"}]
  BY DEF HiddenType, Hidden!Completes
<1> QED
  BY <1>1, <1>3, <1>4, <1>5, <1>6, <1>7 DEF Hidden!Challenge

\* The end of a challenge.
LEMMA CompletedNext ==
  ASSUME HiddenInv, NEW c \in Hidden!Challenge, Hidden!Leased(c),
         NEW how \in {"succeeded", "failed"}, NEW passed \in BOOLEAN,
         Hidden!Completes(c, how, passed), UNCHANGED <<claiming, free_entries, reserve_lock>>
  PROVE  HiddenInv'
<1> HiddenType /\ ClaimsSound /\ Hidden!OneOutcome /\ Hidden!BudgetKept
  BY DEF HiddenInv
<1>1. HiddenType'
  BY CompletedRow DEF HiddenType
<1>2. Hidden!BudgetKept'
  BY <1>1, CompletedRow, CountsFall
<1>3. Hidden!Challenge' = Hidden!Challenge
  BY CompletedRow DEF Hidden!Challenge
<1>4. Hidden!Unissued' = Hidden!Unissued
  BY <1>3, CompletedRow DEF Hidden!Unissued
<1>5. \A d \in Hidden!Challenge : Hidden!Leased(d)' <=> d # c /\ Hidden!Leased(d)
  BY CompletedRow DEF Hidden!Leased
<1>6. ClaimsSound'
  BY <1>3, <1>4, <1>5, CompletedRow DEF ClaimsSound
<1>7. Hidden!OneOutcome'
  <2>1. \A d \in Hidden!Challenge :
          /\ challenges'[d].signals = IF Hidden!Leased(d)' THEN 0 ELSE 1
          /\ Hidden!Private(d)' <=> Hidden!Private(d)
    BY <1>5, CompletedRow DEF Hidden!OneOutcome, Hidden!Private, Hidden!Canary
  <2> QED
    BY <1>3, <1>5, <2>1, CompletedRow DEF Hidden!OneOutcome
<1> QED
  BY <1>1, <1>2, <1>6, <1>7 DEF HiddenInv

\* What is appended when a challenge is issued.
LEMMA IssuedRow ==
  ASSUME HiddenType, NEW n \in Evaluated, NEW entry \in Entry \cup {0}, Hidden!Issues(n, entry)
  PROVE  LET last == Len(challenges) + 1 IN
         /\ challenges' \in Seq(ChallengeRecord) /\ Len(challenges') = last
         /\ Hidden!Challenge = 1 .. Len(challenges) /\ Hidden!Challenge' = 1 .. last
         /\ last \notin Hidden!Challenge /\ Hidden!Challenge' = Hidden!Challenge \cup {last}
         /\ \A c \in Hidden!Challenge : challenges'[c] = challenges[c]
         /\ challenges'[last].node = n /\ challenges'[last].entry = entry
         /\ challenges'[last].status = "leased" /\ challenges'[last].signals = 0
<1> DEFINE row == [node |-> n, entry |-> entry, status |-> "leased", over |-> FALSE,
                   age |-> "cooling", signals |-> 0, verdict |-> "none"]
<1>1. row \in ChallengeRecord
  BY DEF ChallengeRecord
<1>2. challenges' = Append(challenges, row)
  BY DEF Hidden!Issues
<1>3. challenges \in Seq(ChallengeRecord)
  BY DEF HiddenType
<1>4. row.node = n /\ row.entry = entry /\ row.status = "leased" /\ row.signals = 0
  OBVIOUS
<1> HIDE DEF row
<1>5. /\ challenges' \in Seq(ChallengeRecord) /\ Len(challenges') = Len(challenges) + 1
      /\ Len(challenges) \in Nat /\ challenges'[Len(challenges) + 1] = row
      /\ \A c \in 1 .. Len(challenges) : challenges'[c] = challenges[c]
  BY <1>1, <1>2, <1>3
<1>6. DOMAIN challenges = 1 .. Len(challenges) /\ DOMAIN challenges' = 1 .. Len(challenges) + 1
  BY <1>3, <1>5
<1>7. 1 .. Len(challenges) + 1 = (1 .. Len(challenges)) \cup {Len(challenges) + 1}
      /\ Len(challenges) + 1 \notin 1 .. Len(challenges)
  BY <1>5
<1> QED
  BY <1>4, <1>5, <1>6, <1>7 DEF Hidden!Challenge

\* The counts after a challenge was issued.
LEMMA IssuedCounts ==
  ASSUME HiddenType, NEW n \in Evaluated, NEW entry \in Entry \cup {0}, Hidden!Issues(n, entry),
         NEW scope
  PROVE  /\ Hidden!IssuedIn(scope) \in Nat /\ Hidden!IssuedIn(scope)' \in Nat
         /\ Hidden!IssuedIn(scope)' <= Hidden!IssuedIn(scope) + 1
         /\ entry = 0 \/ n \notin scope => Hidden!IssuedIn(scope)' <= Hidden!IssuedIn(scope)
<1> DEFINE last == Len(challenges) + 1
<1>1. /\ Hidden!Challenge' = Hidden!Challenge \cup {last}
      /\ \A c \in Hidden!Challenge : challenges'[c] = challenges[c]
      /\ challenges'[last].node = n /\ challenges'[last].entry = entry
  BY IssuedRow
<1> HIDE DEF last
<1>2. Issued(scope)' \subseteq Issued(scope) \cup {last}
  BY <1>1 DEF Issued, Hidden!Private
<1>3. entry = 0 \/ n \notin scope => Issued(scope)' \subseteq Issued(scope)
  BY <1>1 DEF Issued, Hidden!Private, Hidden!Canary
<1>4. /\ IsFiniteSet(Issued(scope)) /\ Cardinality(Issued(scope)) \in Nat
      /\ Hidden!IssuedIn(scope) = Cardinality(Issued(scope))
  BY IssuedFinite
<1>5. /\ IsFiniteSet(Issued(scope) \cup {last})
      /\ Cardinality(Issued(scope) \cup {last}) <= Cardinality(Issued(scope)) + 1
      /\ Cardinality(Issued(scope) \cup {last}) \in Nat
  <2>1. IsFiniteSet(Issued(scope) \cup {last})
    BY <1>4, FS_AddElement
  <2>2. Cardinality(Issued(scope) \cup {last}) \in Nat
    BY <2>1, FS_CardinalityType
  <2>3. CASE last \in Issued(scope)
    <3>1. Issued(scope) \cup {last} = Issued(scope)
      BY <2>3
    <3>2. Cardinality(Issued(scope) \cup {last}) = Cardinality(Issued(scope))
      BY <3>1
    <3> QED
      BY <1>4, <2>1, <2>2, <3>2
  <2>4. CASE last \notin Issued(scope)
    <3>1. Cardinality(Issued(scope) \cup {last}) = Cardinality(Issued(scope)) + 1
      BY <1>4, <2>4, FS_AddElement
    <3> QED
      BY <1>4, <2>1, <2>2, <3>1
  <2> QED
    BY <2>3, <2>4
<1>6. /\ Cardinality(Issued(scope)') \in Nat
      /\ Cardinality(Issued(scope)') <= Cardinality(Issued(scope) \cup {last})
  BY <1>2, <1>5, FS_Subset, FS_CardinalityType
<1>7. entry = 0 \/ n \notin scope => Cardinality(Issued(scope)') <= Cardinality(Issued(scope))
  BY <1>3, <1>4, FS_Subset
<1>8. Hidden!IssuedIn(scope)' = Cardinality(Issued(scope)')
  BY SameCardinality DEF Hidden!IssuedIn, Issued
<1> QED
  BY <1>4, <1>5, <1>6, <1>7, <1>8

\* A challenge is issued: a canary, or an entry that nobody has had and that all
\* limits allow.
LEMMA IssueNext ==
  ASSUME HiddenInv, NEW n \in Evaluated, NEW entry \in Entry \cup {0}, Hidden!Issues(n, entry),
         claiming[n] # "idle",
         entry # 0 => /\ entry \in Hidden!Unissued /\ claiming[n] = "counted"
                      /\ Hidden!PrivateBudgetAllows(n)
  PROVE  HiddenInv'
<1> HiddenType /\ ClaimsSound /\ Hidden!OneOutcome /\ Hidden!BudgetKept
  BY DEF HiddenInv
<1> DEFINE last == Len(challenges) + 1
<1>1. /\ challenges' \in Seq(ChallengeRecord) /\ last \notin Hidden!Challenge
      /\ Hidden!Challenge' = Hidden!Challenge \cup {last}
      /\ \A c \in Hidden!Challenge : challenges'[c] = challenges[c]
      /\ challenges'[last].node = n /\ challenges'[last].entry = entry
      /\ challenges'[last].status = "leased" /\ challenges'[last].signals = 0
  BY IssuedRow
<1> HIDE DEF last
<1>2. /\ claiming' = [claiming EXCEPT ![n] = "idle"]
      /\ free_entries' = [free_entries EXCEPT ![n] = {}]
      /\ reserve_lock' = reserve_lock \ {n} /\ canary' = canary /\ latest' = latest
  BY DEF Hidden!Issues, Hidden!outcomes
<1>3. HiddenType'
  BY <1>1, <1>2 DEF HiddenType
<1>4. entry = 0 => Hidden!Unissued' = Hidden!Unissued
  BY <1>1, EvaluationAssumption DEF Hidden!Unissued
<1>5. ClaimsSound'
  <2> SUFFICES ASSUME NEW m \in Evaluated, claiming'[m] # "idle"
               PROVE  /\ \A c \in Hidden!Challenge' :
                           challenges'[c].node = m => challenges'[c].status # "leased"
                      /\ claiming'[m] = "counted" =>
                           reserve_lock' = {m} /\ free_entries'[m] = Hidden!Unissued'
    BY DEF ClaimsSound, Hidden!Leased
  <2>1. m # n /\ claiming[m] = claiming'[m] /\ free_entries'[m] = free_entries[m]
    BY <1>2 DEF HiddenType
  <2>2. \A c \in Hidden!Challenge : challenges[c].node = m => challenges[c].status # "leased"
    BY <2>1 DEF ClaimsSound, Hidden!Leased
  <2>3. claiming[m] = "counted" => reserve_lock = {m} /\ free_entries[m] = Hidden!Unissued
    BY <2>1 DEF ClaimsSound
  <2>4. claiming[m] = "counted" => entry = 0
    BY <2>1, <2>3 DEF ClaimsSound
  <2> QED
    BY <1>1, <1>2, <1>4, <2>1, <2>2, <2>3, <2>4
<1>6. Hidden!OneOutcome'
  <2>1. \A c \in Hidden!Challenge : challenges[c].node = n => ~Hidden!Leased(c)
    BY DEF ClaimsSound
  <2>2. entry # 0 => \A c \in Hidden!Challenge : challenges[c].entry # entry
    BY DEF Hidden!Unissued
  <2>3. SUFFICES ASSUME NEW c \in Hidden!Challenge', NEW d \in Hidden!Challenge'
                 PROVE  /\ challenges'[c].signals = IF challenges'[c].status = "leased" THEN 0 ELSE 1
                        /\ c # d /\ challenges'[c].entry # 0
                             => challenges'[c].entry # challenges'[d].entry
                        /\ c # d /\ challenges'[c].status = "leased" /\ challenges'[d].status = "leased"
                             => challenges'[c].node # challenges'[d].node
    BY DEF Hidden!OneOutcome, Hidden!Leased, Hidden!Private, Hidden!Canary
  <2>4. \A e, f \in Hidden!Challenge :
          /\ challenges[e].signals = IF challenges[e].status = "leased" THEN 0 ELSE 1
          /\ e # f /\ challenges[e].entry # 0 => challenges[e].entry # challenges[f].entry
          /\ e # f /\ challenges[e].status = "leased" /\ challenges[f].status = "leased"
               => challenges[e].node # challenges[f].node
    BY DEF Hidden!OneOutcome, Hidden!Leased, Hidden!Private, Hidden!Canary
  <2>5. \A e \in Hidden!Challenge : challenges[e].node = n => challenges[e].status # "leased"
    BY <2>1 DEF Hidden!Leased
  <2>6. CASE c \in Hidden!Challenge /\ d \in Hidden!Challenge
    BY <1>1, <2>4, <2>6
  <2>7. CASE c = last \/ d = last
    BY <1>1, <2>2, <2>3, <2>4, <2>5, <2>7
  <2> QED
    BY <1>1, <2>3, <2>6, <2>7
<1>7. Hidden!BudgetKept'
  <2>1. CASE entry = 0
    <3>1. \A scope : /\ Hidden!IssuedIn(scope)' <= Hidden!IssuedIn(scope)
                     /\ Hidden!IssuedIn(scope)' \in Nat /\ Hidden!IssuedIn(scope) \in Nat
      BY <2>1, IssuedCounts
    <3>2. Hidden!IssuedIn(Evaluated)' <= CatalogHourly
      BY <3>1, EvaluationAssumption DEF Hidden!BudgetKept
    <3>3. ASSUME NEW m \in Evaluated
          PROVE  /\ Hidden!IssuedIn(Hidden!AccountNodes(m))' <= AccountHourly
                 /\ Hidden!IssuedIn({m})' <= NodeHourly
      BY <3>1, EvaluationAssumption DEF Hidden!BudgetKept
    <3> QED
      BY <3>2, <3>3 DEF Hidden!BudgetKept
  <2>2. CASE entry # 0
    <3>1. /\ Hidden!IssuedIn(Evaluated) < CatalogHourly
          /\ Hidden!IssuedIn(Hidden!AccountNodes(n)) < AccountHourly
          /\ Hidden!IssuedIn({n}) < NodeHourly
      BY <2>2 DEF Hidden!PrivateBudgetAllows
    <3>2. ASSUME NEW scope, NEW limit \in Nat, Hidden!IssuedIn(scope) < limit
          PROVE  Hidden!IssuedIn(scope)' <= limit
      BY <3>2, IssuedCounts
    <3>3. ASSUME NEW scope, NEW limit \in Nat, Hidden!IssuedIn(scope) <= limit, n \notin scope
          PROVE  Hidden!IssuedIn(scope)' <= limit
      BY <3>3, IssuedCounts
    <3>4. Hidden!IssuedIn(Evaluated)' <= CatalogHourly
      BY <3>1, <3>2, EvaluationAssumption
    <3>5. ASSUME NEW m \in Evaluated
          PROVE  /\ Hidden!IssuedIn(Hidden!AccountNodes(m))' <= AccountHourly
                 /\ Hidden!IssuedIn({m})' <= NodeHourly
      <4>1. Hidden!IssuedIn(Hidden!AccountNodes(m))' <= AccountHourly
        <5>1. CASE n \in Hidden!AccountNodes(m)
          <6>1. Hidden!AccountNodes(m) = Hidden!AccountNodes(n)
            BY <5>1 DEF Hidden!AccountNodes
          <6> QED
            BY <3>1, <3>2, <6>1, EvaluationAssumption
        <5>2. CASE n \notin Hidden!AccountNodes(m)
          BY <3>3, <3>5, <5>2, EvaluationAssumption DEF Hidden!BudgetKept
        <5> QED
          BY <5>1, <5>2
      <4>2. Hidden!IssuedIn({m})' <= NodeHourly
        <5>1. CASE n = m
          BY <3>1, <3>2, <5>1, EvaluationAssumption
        <5>2. CASE n # m
          BY <3>3, <3>5, <5>2, EvaluationAssumption DEF Hidden!BudgetKept
        <5> QED
          BY <5>1, <5>2
      <4> QED
        BY <4>1, <4>2
    <3> QED
      BY <3>4, <3>5 DEF Hidden!BudgetKept
  <2> QED
    BY <2>1, <2>2
<1> QED
  BY <1>3, <1>5, <1>6, <1>7 DEF HiddenInv

\* A step of the evaluation.
LEMMA HiddenNext ==
  ASSUME HiddenInv, [Hidden!Next]_hidden
  PROVE  HiddenInv'
<1> HiddenType /\ ClaimsSound /\ Hidden!OneOutcome /\ Hidden!BudgetKept
  BY DEF HiddenInv
\* A step that leaves the challenges alone.
<1>1. ASSUME challenges' = challenges, HiddenType', ClaimsSound'
      PROVE  HiddenInv'
  <2>1. Hidden!OneOutcome'
    BY <1>1 DEF Hidden!OneOutcome, Hidden!Challenge, Hidden!Leased, Hidden!Private
  <2>2. Hidden!BudgetKept'
    BY <1>1, CountsFall
  <2> QED
    BY <1>1, <2>1, <2>2 DEF HiddenInv
<1>2. ASSUME NEW n \in Evaluated, Hidden!BeginClaim(n) PROVE HiddenInv'
  <2>1. /\ challenges' = challenges /\ free_entries' = free_entries /\ reserve_lock' = reserve_lock
        /\ canary' = canary /\ latest' = latest /\ claiming' = [claiming EXCEPT ![n] = "drawn"]
        /\ Hidden!Candidate(n)
    BY <1>2 DEF Hidden!BeginClaim, Hidden!outcomes
  <2>2. HiddenType'
    BY <2>1 DEF HiddenType
  <2>3. ClaimsSound'
    BY <2>1 DEF HiddenType, ClaimsSound, Hidden!Candidate, Hidden!Challenge, Hidden!Leased,
                Hidden!Unissued
  <2> QED
    BY <1>1, <2>1, <2>2, <2>3
<1>3. ASSUME NEW n \in Evaluated, Hidden!LockPrivateGlobalReserve(n) PROVE HiddenInv'
  <2>1. /\ challenges' = challenges /\ reserve_lock = {} /\ reserve_lock' = {n}
        /\ canary' = canary /\ latest' = latest /\ claiming[n] = "drawn"
        /\ claiming' = [claiming EXCEPT ![n] = "counted"]
        /\ free_entries' = [free_entries EXCEPT ![n] = Hidden!Unissued]
    BY <1>3 DEF Hidden!LockPrivateGlobalReserve, Hidden!outcomes
  <2>2. HiddenType'
    BY <2>1 DEF HiddenType, Hidden!Unissued
  <2>3. ClaimsSound'
    BY <2>1 DEF HiddenType, ClaimsSound, Hidden!Challenge, Hidden!Leased, Hidden!Unissued
  <2> QED
    BY <1>1, <2>1, <2>2, <2>3
<1>4. ASSUME NEW n \in Evaluated, Hidden!IssuePrivate(n) PROVE HiddenInv'
  <2>1. PICK entry \in free_entries[n] \cap Hidden!Unissued : Hidden!Issues(n, entry)
    BY <1>4 DEF Hidden!IssuePrivate
  <2>2. claiming[n] = "counted" /\ Hidden!PrivateBudgetAllows(n)
    BY <1>4 DEF Hidden!IssuePrivate
  <2>3. entry \in Entry \cup {0} /\ entry \in Hidden!Unissued
    BY <2>1 DEF Hidden!Unissued
  <2> QED
    BY <2>1, <2>2, <2>3, IssueNext
<1>5. ASSUME NEW n \in Evaluated, Hidden!IssueCanary(n) PROVE HiddenInv'
  <2>1. Hidden!Issues(n, 0) /\ claiming[n] # "idle"
    BY <1>5 DEF Hidden!IssueCanary, Hidden!Canary
  <2> QED
    BY <2>1, IssueNext
<1>6. ASSUME NEW n \in Evaluated, Hidden!ClaimFails(n) PROVE HiddenInv'
  <2>1. /\ challenges' = challenges /\ canary' = canary /\ latest' = latest
        /\ claiming' = [claiming EXCEPT ![n] = "idle"]
        /\ free_entries' = [free_entries EXCEPT ![n] = {}] /\ reserve_lock' = reserve_lock \ {n}
    BY <1>6 DEF Hidden!ClaimFails, Hidden!outcomes
  <2>2. HiddenType'
    BY <2>1 DEF HiddenType
  <2>3. ClaimsSound'
    BY <2>1 DEF HiddenType, ClaimsSound, Hidden!Challenge, Hidden!Leased, Hidden!Unissued
  <2> QED
    BY <1>1, <2>1, <2>2, <2>3
<1>7. ASSUME NEW c \in Hidden!Challenge, NEW a \in Hidden!Answer, Hidden!SubmitHiddenJobResult(c, a)
      PROVE  HiddenInv'
  <2>1. PICK passed \in BOOLEAN :
          Hidden!Completes(c, IF passed THEN "succeeded" ELSE "failed", passed)
    BY <1>7 DEF Hidden!SubmitHiddenJobResult, Hidden!SubmittedAnswerMatches, Hidden!Answer
  <2>2. Hidden!Leased(c) /\ UNCHANGED <<claiming, free_entries, reserve_lock>>
    BY <1>7 DEF Hidden!SubmitHiddenJobResult, Hidden!claims
  <2>3. (IF passed THEN "succeeded" ELSE "failed") \in {"succeeded", "failed"}
    OBVIOUS
  <2> QED
    BY <1>7, <2>1, <2>2, <2>3, CompletedNext
<1>8. ASSUME NEW c \in Hidden!Challenge,
             Hidden!SubmitHiddenJobFailure(c) \/ Hidden!ExpireHiddenJob(c)
      PROVE  HiddenInv'
  <2>1. /\ Hidden!Leased(c) /\ Hidden!Completes(c, "failed", FALSE)
        /\ UNCHANGED <<claiming, free_entries, reserve_lock>>
    BY <1>8 DEF Hidden!SubmitHiddenJobFailure, Hidden!ExpireHiddenJob,
                Hidden!CompleteExpiredFailure, Hidden!claims
  <2> QED
    BY <1>8, <2>1, CompletedNext
\* A step that touches the time of a challenge only.
<1>9. ASSUME NEW c \in Hidden!Challenge, Hidden!LeaseOver(c) \/ Hidden!Ages(c)
      PROVE  HiddenInv'
  <2>1. UNCHANGED <<claiming, free_entries, reserve_lock, canary, latest>>
    BY <1>9 DEF Hidden!LeaseOver, Hidden!Ages, Hidden!claims, Hidden!outcomes
  <2>2. DOMAIN challenges = 1 .. Len(challenges) /\ c \in 1 .. Len(challenges)
        /\ challenges[c] \in ChallengeRecord
    BY <1>9 DEF HiddenType, Hidden!Challenge
  <2> DEFINE old == challenges[c]
  <2>3. PICK row \in ChallengeRecord :
          /\ challenges' = [challenges EXCEPT ![c] = row]
          /\ row.node = old.node /\ row.entry = old.entry /\ row.status = old.status
          /\ row.signals = old.signals /\ (old.age = "old" => row.age = "old")
    <3>1. CASE Hidden!LeaseOver(c)
      <4> DEFINE row == [old EXCEPT !.over = TRUE]
      <4>1. row \in ChallengeRecord
        BY <2>2 DEF ChallengeRecord
      <4>2. challenges' = [challenges EXCEPT ![c] = row]
        BY <3>1 DEF Hidden!LeaseOver
      <4>3. /\ row.node = old.node /\ row.entry = old.entry /\ row.status = old.status
            /\ row.signals = old.signals /\ row.age = old.age
        BY <2>2 DEF ChallengeRecord
      <4> HIDE DEF row
      <4> QED
        BY <4>1, <4>2, <4>3
    <3>2. CASE Hidden!Ages(c)
      <4> DEFINE age == IF old.age = "cooling" THEN "hour" ELSE "old"
                 row == [old EXCEPT !.age = age]
      <4>1. row \in ChallengeRecord
        BY <2>2 DEF ChallengeRecord
      <4>2. challenges' = [challenges EXCEPT ![c] = row]
        BY <3>2 DEF Hidden!Ages
      <4>3. /\ row.node = old.node /\ row.entry = old.entry /\ row.status = old.status
            /\ row.signals = old.signals /\ (old.age = "old" => row.age = "old")
        BY <2>2 DEF ChallengeRecord
      <4> HIDE DEF row
      <4> QED
        BY <4>1, <4>2, <4>3
    <3> QED
      BY <1>9, <3>1, <3>2
  <2>4. /\ challenges' \in Seq(ChallengeRecord) /\ Len(challenges') = Len(challenges)
        /\ Hidden!Challenge' = Hidden!Challenge
        /\ \A d \in Hidden!Challenge :
             /\ challenges'[d].node = challenges[d].node
             /\ challenges'[d].entry = challenges[d].entry
             /\ challenges'[d].status = challenges[d].status
             /\ challenges'[d].signals = challenges[d].signals
             /\ challenges[d].age = "old" => challenges'[d].age = "old"
    BY <2>2, <2>3 DEF HiddenType, Hidden!Challenge
  <2>5. HiddenType'
    BY <2>1, <2>4 DEF HiddenType
  <2>6. Hidden!BudgetKept'
    BY <2>4, <2>5, CountsFall
  <2>7. Hidden!OneOutcome'
    BY <2>4 DEF Hidden!OneOutcome, Hidden!Leased, Hidden!Private
  <2>8. Hidden!Unissued' = Hidden!Unissued
    BY <2>4 DEF Hidden!Unissued
  <2>9. ClaimsSound'
    BY <2>1, <2>4, <2>8 DEF ClaimsSound, Hidden!Leased
  <2> QED
    BY <2>5, <2>6, <2>7, <2>9 DEF HiddenInv
<1>10. ASSUME UNCHANGED <<challenges, claiming, free_entries, reserve_lock, canary, latest>>
       PROVE  HiddenInv'
  <2>1. HiddenType'
    BY <1>10 DEF HiddenType
  <2>2. ClaimsSound'
    BY <1>10 DEF ClaimsSound, Hidden!Challenge, Hidden!Leased, Hidden!Unissued
  <2> QED
    BY <1>1, <1>10, <2>1, <2>2
<1>11. ASSUME NEW c \in Hidden!Challenge, Hidden!RenewHiddenJob(c) PROVE HiddenInv'
  BY <1>10, <1>11 DEF Hidden!RenewHiddenJob, Hidden!vars
<1>12. CASE Hidden!CatalogChanges
  BY <1>10, <1>12 DEF Hidden!CatalogChanges, Hidden!claims, Hidden!outcomes
<1>13. CASE UNCHANGED hidden
  BY <1>10, <1>13 DEF hidden
<1> QED
  BY <1>2, <1>3, <1>4, <1>5, <1>6, <1>7, <1>8, <1>9, <1>11, <1>12, <1>13 DEF Hidden!Next

-----------------------------------------------------------------------------
\* The invariant holds in every state.
LEMMA HiddenHolds == Spec => []HiddenInv
<1>1. Init => HiddenInv
  BY HiddenInit DEF Init
<1>2. HiddenInv /\ [Next]_vars => HiddenInv'
  BY PartSteps, HiddenNext
<1> QED
  BY <1>1, <1>2, PTL DEF Spec

\* A private challenge is issued from a catalog that keeps its reserve, or to an
\* account that has seen none of it, at the moment it is issued and not when its
\* claim counted (lock_private_global_reserve, private_budget_snapshot_allows).
LEMMA ReserveHolds == Spec => Hidden!ReserveForNewcomers
<1> DEFINE Fair == \A n \in Evaluated :
             (Len(challenges') > Len(challenges) /\ challenges'[Len(challenges')].node = n
              /\ challenges'[Len(challenges')].entry # Hidden!Canary)
               => (Hidden!Cardinality(Hidden!Unissued) > KeptEntries \/ ~ Hidden!Seen(n))
<1>1. HiddenInv /\ [Next]_vars => [Fair]_(Hidden!vars)
  <2> SUFFICES ASSUME HiddenInv, [Next]_vars, ~ UNCHANGED Hidden!vars,
                      NEW n \in Evaluated, Len(challenges') > Len(challenges),
                      challenges'[Len(challenges')].node = n, challenges'[Len(challenges')].entry # 0
               PROVE  Hidden!Cardinality(Hidden!Unissued) > KeptEntries \/ ~ Hidden!Seen(n)
    BY DEF Hidden!Canary
  <2> HiddenType /\ ClaimsSound
    BY DEF HiddenInv
  <2>1. Hidden!Next
    BY PartSteps DEF hidden, Hidden!vars
  <2>2. ASSUME Len(challenges') = Len(challenges) PROVE FALSE
    BY <2>2 DEF HiddenType
  <2>3. ASSUME challenges' = challenges PROVE FALSE
    BY <2>2, <2>3
  <2>4. ASSUME NEW c, NEW row, challenges' = [challenges EXCEPT ![c] = row] PROVE FALSE
    <3>1. Len(challenges') = Len(challenges)
      BY <2>4 DEF HiddenType
    <3> QED
      BY <2>2, <3>1
  <2>5. ASSUME NEW c \in Hidden!Challenge, NEW how \in {"succeeded", "failed"},
               NEW passed \in BOOLEAN, Hidden!Completes(c, how, passed)
        PROVE FALSE
    <3>1. Len(challenges') = Len(challenges)
      BY <2>5, CompletedRow
    <3> QED
      BY <2>2, <3>1
  <2>6. ASSUME NEW m \in Evaluated, NEW entry \in Entry \cup {0}, Hidden!Issues(m, entry)
        PROVE  m = n /\ entry # 0
    <3>1. /\ challenges'[Len(challenges')].node = m /\ challenges'[Len(challenges')].entry = entry
      BY <2>6, IssuedRow
    <3> QED
      BY <3>1
  <2>7. ASSUME NEW m \in Evaluated, Hidden!IssueCanary(m) PROVE FALSE
    <3>1. Hidden!Issues(m, 0)
      BY <2>7 DEF Hidden!IssueCanary, Hidden!Canary
    <3> QED
      BY <2>6, <3>1
  <2>8. ASSUME NEW m \in Evaluated, Hidden!IssuePrivate(m)
        PROVE  Hidden!Cardinality(Hidden!Unissued) > KeptEntries \/ ~ Hidden!Seen(n)
    <3>1. PICK entry \in free_entries[m] \cap Hidden!Unissued : Hidden!Issues(m, entry)
      BY <2>8 DEF Hidden!IssuePrivate
    <3>2. m = n
      BY <2>6, <3>1 DEF Hidden!Unissued
    <3>3. free_entries[n] = Hidden!Unissued
      BY <2>8, <3>2 DEF ClaimsSound, Hidden!IssuePrivate
    <3>4. KeptEntries = 0 \/ Hidden!Cardinality(free_entries[n]) > KeptEntries \/ ~ Hidden!Seen(n)
      BY <2>8, <3>2 DEF Hidden!IssuePrivate, Hidden!PrivateBudgetAllows
    <3>5. Hidden!Cardinality(Hidden!Unissued) > 0
      <4>1. IsFiniteSet(Hidden!Unissued)
        BY EvaluationAssumption, FS_Subset DEF Hidden!Unissued
      <4>2. Cardinality(Hidden!Unissued) \in Nat /\ Cardinality(Hidden!Unissued) # 0
        BY <3>1, <4>1, FS_EmptySet, FS_CardinalityType
      <4> QED
        BY <4>2, SameCardinality
    <3> QED
      BY <3>3, <3>4, <3>5
  <2> QED
    <3>1. ASSUME NEW m \in Evaluated, Hidden!BeginClaim(m) \/ Hidden!LockPrivateGlobalReserve(m)
                                 \/ Hidden!ClaimFails(m)
          PROVE FALSE
      BY <2>3, <3>1 DEF Hidden!BeginClaim, Hidden!LockPrivateGlobalReserve, Hidden!ClaimFails
    <3>2. ASSUME NEW c \in Hidden!Challenge, NEW a \in Hidden!Answer,
                 Hidden!SubmitHiddenJobResult(c, a)
          PROVE FALSE
      <4>1. a.right \in BOOLEAN
        BY <3>2 DEF Hidden!Answer
      <4>2. CASE a.right
        BY <2>5, <3>2, <4>2 DEF Hidden!SubmitHiddenJobResult, Hidden!SubmittedAnswerMatches
      <4>3. CASE ~ a.right
        <5>1. a.right = FALSE
          BY <4>1, <4>3
        <5> QED
          BY <2>5, <3>2, <5>1 DEF Hidden!SubmitHiddenJobResult, Hidden!SubmittedAnswerMatches
      <4> QED
        BY <4>2, <4>3
    <3>3. ASSUME NEW c \in Hidden!Challenge,
                 Hidden!SubmitHiddenJobFailure(c) \/ Hidden!ExpireHiddenJob(c)
          PROVE FALSE
      BY <2>5, <3>3 DEF Hidden!SubmitHiddenJobFailure, Hidden!ExpireHiddenJob,
                        Hidden!CompleteExpiredFailure
    <3>4. ASSUME NEW c \in Hidden!Challenge, Hidden!RenewHiddenJob(c) PROVE FALSE
      BY <3>4 DEF Hidden!RenewHiddenJob
    <3>5. ASSUME NEW c \in Hidden!Challenge, Hidden!LeaseOver(c) \/ Hidden!Ages(c) PROVE FALSE
      BY <2>4, <3>5 DEF Hidden!LeaseOver, Hidden!Ages
    <3>6. CASE Hidden!CatalogChanges
      BY <2>3, <3>6 DEF Hidden!CatalogChanges
    <3> QED
      BY <2>1, <2>7, <2>8, <3>1, <3>2, <3>3, <3>4, <3>5, <3>6 DEF Hidden!Next
<1>2. Spec => [][Fair]_(Hidden!vars)
  BY <1>1, HiddenHolds, PTL DEF Spec
<1> QED
  BY <1>2, PTL DEF Hidden!ReserveForNewcomers

\* A hidden challenge ends once and counts once, an instance has one at a time,
\* no entry of the private catalog is shown twice, and no hour has more private
\* challenges than the limits of the catalog, the accounts and the nodes allow; the
\* last entries of the catalog go to accounts that have seen none (claim_hidden_job,
\* complete_expired_failure, private_budget_allows_claim).
THEOREM EvaluationAlwaysSound == Spec => EvaluationSound
<1> DEFINE Sound == focus = "hidden" => Hidden!TypeOK /\ Hidden!OneOutcome /\ Hidden!BudgetKept
<1>1. HiddenInv => Sound
  <2> SUFFICES ASSUME HiddenInv PROVE Sound
    OBVIOUS
  <2>1. HiddenType /\ Hidden!OneOutcome /\ Hidden!BudgetKept
    BY DEF HiddenInv
  <2>2. \A c \in Hidden!Challenge : challenges[c] \in ChallengeRecord
    BY <2>1 DEF HiddenType, Hidden!Challenge
  <2>3. Hidden!TypeOK
    BY <2>1, <2>2 DEF HiddenType, ChallengeRecord, Hidden!TypeOK, Hidden!Canary
  <2> QED
    BY <2>1, <2>3
<1> QED
  BY <1>1, HiddenHolds, ReserveHolds, PTL DEF EvaluationSound

-----------------------------------------------------------------------------
(***************************************************************************)
(* Prices.  Every part of a quote is rounded up by itself, so the base     *)
(* cost of a job on an accepted profile is 3 at least: with less, a node   *)
(* of the lowest tier and trust would earn nothing.  Settlement at the     *)
(* highest rates fits, and every other settlement is smaller.              *)
(***************************************************************************)
LEMMA CeilPositive ==
  ASSUME NEW a \in Nat \ {0}, NEW b \in Nat \ {0}, NEW c \in Nat \ {0}
  PROVE  Prices!CeilMulDiv(a, b, c) \in Nat \ {0}
<1>1. PICK m \in Nat \ {0} : m = a * b
  <2>1. a * b \in Nat /\ a * b # 0
    OBVIOUS
  <2> QED
    BY <2>1
<1>2. (m + c - 1) \div c \in Nat \ {0}
  OBVIOUS
<1> QED
  BY <1>1, <1>2 DEF Prices!CeilMulDiv

\* A quote has three parts, each of them 1 at least.
LEMMA QuotePositive ==
  ASSUME NEW p, \A f \in ProfileFields : p[f] \in Int,
         Prices!Positive(p), NEW tokens \in Nat \ {0}
  PROVE  Prices!Quote(p, tokens).base \in Nat /\ Prices!Quote(p, tokens).base >= 3
<1> DEFINE busy == Prices!CeilMulDiv(tokens, p.gpu, TokensPerUnit)
           gpu_time == p.fixed + busy
           integral == gpu_time * p.vram
           token_cost == Prices!CeilMulDiv(tokens, p.token_rate, TokensPerUnit)
           gpu_cost == Prices!CeilMulDiv(gpu_time, p.gpu_rate, MicrosPerSecond)
           vram_cost == Prices!CeilMulDiv(integral, p.vram_rate, MibMicrosPerGibSecond)
<1>1. /\ p.gpu \in Nat \ {0} /\ p.vram \in Nat \ {0} /\ p.token_rate \in Nat \ {0}
      /\ p.gpu_rate \in Nat \ {0} /\ p.vram_rate \in Nat \ {0} /\ p.fixed \in Nat
  BY DEF Prices!Positive, ProfileFields
<1>2. Prices!Quote(p, tokens).base = token_cost + gpu_cost + vram_cost
  BY DEF Prices!Quote
<1>3. /\ TokensPerUnit \in Nat \ {0} /\ MicrosPerSecond \in Nat \ {0}
      /\ MibMicrosPerGibSecond \in Nat \ {0}
  BY BillingAssumption
<1>4. busy \in Nat \ {0} /\ token_cost \in Nat \ {0}
  BY <1>1, <1>3, CeilPositive
<1> HIDE DEF busy, token_cost
<1>5. gpu_time \in Nat \ {0}
  BY <1>1, <1>4
<1> HIDE DEF gpu_time
<1>6. integral \in Nat \ {0}
  BY <1>1, <1>5
<1> HIDE DEF integral
<1>7. gpu_cost \in Nat \ {0} /\ vram_cost \in Nat \ {0}
  BY <1>1, <1>3, <1>5, <1>6, CeilPositive
<1> HIDE DEF gpu_cost, vram_cost
<1> QED
  BY <1>2, <1>4, <1>7

LEMMA Milli ==
  ASSUME NEW tier \in Prices!PerformanceTier, NEW trust \in Prices!TrustClass
  PROVE  /\ Prices!TierMilli(tier) \in {700, 1000, 1500} /\ Prices!TierMilli("high") = 1500
         /\ Prices!TrustMilli(trust) \in {500, 1000, 1100} /\ Prices!TrustMilli("enhanced") = 1100
  BY DEF Prices!PerformanceTier, Prices!TrustClass, Prices!TierMilli, Prices!TrustMilli

\* What is rounded up from a base cost of 3 at least.
LEMMA Deducted ==
  ASSUME NEW base \in Nat, base >= 3, NEW m \in {700, 1000, 1500}
  PROVE  /\ Prices!MulMilliCeil(base, m) \in Nat /\ Prices!MulMilliCeil(base, m) >= 3
         /\ Prices!MulMilliCeil(base, m) <= Prices!MulMilliCeil(base, 1500)
  BY DEF Prices!MulMilliCeil

\* What is given and what is kept of it.
LEMMA Shared ==
  ASSUME NEW d \in Nat, d >= 3, NEW h \in Nat, d <= h, NEW n \in {500, 1000, 1100}
  PROVE  /\ Prices!MulTwoMilliFloor(d, 800, n) \in Nat
         /\ Prices!MulTwoMilliFloor(d, 800, n) > 0
         /\ Prices!MulTwoMilliFloor(d, 800, n) < d
         /\ Prices!MulTwoMilliFloor(d, 1200, n) <= Prices!MulTwoMilliFloor(h, 1200, 1100)
<1>1. CASE n = 500
  BY <1>1 DEF Prices!MulTwoMilliFloor
<1>2. CASE n = 1000
  BY <1>2 DEF Prices!MulTwoMilliFloor
<1>3. CASE n = 1100
  BY <1>3 DEF Prices!MulTwoMilliFloor
<1> QED
  BY <1>1, <1>2, <1>3

LEMMA SmallerSettles ==
  ASSUME NEW base \in Nat, base >= 3, Prices!SettlementFits(base, "high", "enhanced"),
         NEW tier \in Prices!PerformanceTier, NEW trust \in Prices!TrustClass
  PROVE  /\ Prices!SettlementFits(base, tier, trust)
         /\ Prices!UserDeduction(base, tier) <= Prices!UserDeduction(base, "high")
         /\ Prices!NodeSpendableQuota(base, tier, trust) > 0
         /\ Prices!ReserveInflow(base, tier, trust) > 0
<1>1. PICK m \in {700, 1000, 1500} : Prices!TierMilli(tier) = m
  BY Milli
<1>2. PICK n \in {500, 1000, 1100} : Prices!TrustMilli(trust) = n
  BY Milli
<1> DEFINE d == Prices!MulMilliCeil(base, m)
           h == Prices!MulMilliCeil(base, 1500)
           given == Prices!MulTwoMilliFloor(d, 800, n)
           points == Prices!MulTwoMilliFloor(d, 1200, n)
           most == Prices!MulTwoMilliFloor(h, 1200, 1100)
<1>3. d = Prices!UserDeduction(base, tier) /\ h = Prices!UserDeduction(base, "high")
  BY <1>1, Milli DEF Prices!UserDeduction
<1>4. d \in Nat /\ d >= 3 /\ h \in Nat /\ d <= h
  BY Deducted
<1> HIDE DEF d, h
<1>5. /\ given = Prices!NodeSpendableQuota(base, tier, trust)
      /\ points = Prices!NodeContributionPoints(base, tier, trust)
      /\ most = Prices!NodeContributionPoints(base, "high", "enhanced")
  BY <1>2, <1>3, Milli
  DEF Prices!NodeSpendableQuota, Prices!NodeContributionPoints
<1>6. given \in Nat /\ given > 0 /\ given < d /\ points <= most
  BY <1>4, Shared
<1>8. points \in Int /\ most \in Int
  BY <1>4 DEF Prices!MulTwoMilliFloor
<1>7. MaxMicro \in Nat /\ h <= MaxMicro /\ most <= MaxMicro
  BY <1>3, <1>5, BillingAssumption DEF Prices!SettlementFits
<1>9. Prices!ReserveInflow(base, tier, trust) = d - given
  BY <1>3, <1>5 DEF Prices!ReserveInflow
<1> HIDE DEF given, points, most
<1>10. d <= MaxMicro /\ given <= d /\ points <= MaxMicro
  BY <1>4, <1>6, <1>7, <1>8
<1>11. Prices!SettlementFits(base, tier, trust)
  BY <1>3, <1>5, <1>10 DEF Prices!SettlementFits
<1>12. d - given > 0
  BY <1>4, <1>6
<1> QED
  BY <1>3, <1>4, <1>5, <1>6, <1>9, <1>11, <1>12

\* There is a newest of any profiles that are left.
NewestExists ==
  \A S \in SUBSET profiles : S # {} => \E r \in S : \A s \in S : s.version <= r.version

\* A job's frozen quote.
Frozen ==
  bill.at \in {"prepared", "created"} =>
    /\ Prices!FrozenRowAgrees(bill)
    /\ bill.quote.base \in Nat /\ bill.quote.base >= 3
    /\ Prices!SettlementFits(bill.quote.base, "high", "enhanced")
    /\ bill.reserved = Prices!UserDeduction(bill.quote.base, "high")

PricesInv ==
  /\ profiles \subseteq ProfileRequest /\ \A r \in profiles : Prices!Positive(r.profile)
  /\ NewestExists /\ Frozen /\ Prices!BillsSettle

LEMMA PricesRecords ==
  ASSUME PricesInv, NEW r \in ProfileRequest,
         Prices!RecordOperatorBillingProfile(r) \/ Prices!ProfileLapses(r)
  PROVE  PricesInv'
<1>1. bill' = bill
  BY DEF Prices!RecordOperatorBillingProfile, Prices!ProfileLapses
<1>2. Frozen' /\ Prices!BillsSettle'
  BY <1>1 DEF PricesInv, Frozen, Prices!BillsSettle
<1>3. CASE Prices!ProfileLapses(r)
  BY <1>2, <1>3 DEF Prices!ProfileLapses, PricesInv, NewestExists
<1>4. CASE Prices!RecordOperatorBillingProfile(r)
  <2>1. profiles' = profiles \cup {r} /\ Prices!Positive(r.profile)
    BY <1>4 DEF Prices!RecordOperatorBillingProfile, Prices!ValidProfile
  <2>2. \A s \in ProfileRequest : s.version \in Int
    BY BillingAssumption
  <2>3. NewestExists'
    <3> SUFFICES ASSUME NEW S \in SUBSET (profiles \cup {r}), S # {}
        PROVE  \E s \in S : \A q \in S : q.version <= s.version
      BY <2>1 DEF NewestExists
    <3>1. CASE r \notin S
      BY <3>1 DEF PricesInv, NewestExists
    <3>2. CASE S = {r}
      BY <2>2, <3>2
    <3>3. CASE r \in S /\ S # {r}
      <4>1. S \ {r} \in SUBSET profiles /\ S \ {r} # {}
        BY <3>3
      <4>2. PICK s \in S \ {r} : \A q \in S \ {r} : q.version <= s.version
        BY <4>1 DEF PricesInv, NewestExists
      <4>3. s \in ProfileRequest /\ s.version \in Int /\ r.version \in Int
        BY <2>2, <4>1 DEF PricesInv
      <4>4. CASE r.version <= s.version
        BY <4>2, <4>4
      <4>5. CASE s.version <= r.version
        <5>1. \A q \in S : q.version \in Int
          BY <2>2 DEF PricesInv
        <5> QED
          BY <3>3, <4>2, <4>3, <4>5, <5>1
      <4> QED
        BY <4>3, <4>4, <4>5
    <3> QED
      BY <3>1, <3>2, <3>3
  <2> QED
    BY <1>2, <2>1, <2>3 DEF PricesInv
<1> QED
  BY <1>3, <1>4

\* The quote is frozen with the job or its route.
LEMMA PricesLoads ==
  ASSUME PricesInv, NEW a \in Authorization, NEW regulated \in BOOLEAN,
         Prices!LoadBillingSnapshot(a, regulated)
  PROVE  PricesInv'
<1> DEFINE newest ==
      CHOOSE r \in Prices!Current : \A s \in Prices!Current : s.version <= r.version
    p == newest.profile
    quote == Prices!Calculate(p, a)
<1>1. newest \in profiles
  BY DEF Prices!LoadBillingSnapshot, Prices!Current, PricesInv, NewestExists
<1>2. Prices!Positive(p) /\ \A f \in ProfileFields : p[f] \in Int
  BY <1>1, BillingAssumption DEF PricesInv
<1>3. /\ a.input \in 0 .. p.max_in /\ a.output \in 1 .. p.max_out
      /\ Prices!SettlementFits(quote.base, "high", "enhanced")
      /\ bill' = [at |-> IF regulated THEN "prepared" ELSE "created", authorized |-> a,
                  quote |-> quote, quoted |-> newest,
                  reserved |-> Prices!UserDeduction(quote.base, "high")]
      /\ UNCHANGED <<profiles, lapsed>>
  BY DEF Prices!LoadBillingSnapshot
<1> HIDE DEF newest
<1>4. a.input + a.output \in Nat \ {0}
  BY <1>2, <1>3, BillingAssumption DEF ProfileFields
<1>5. quote = Prices!Quote(p, a.input + a.output) /\ quote.base \in Nat /\ quote.base >= 3
  BY <1>2, <1>4, QuotePositive DEF Prices!Calculate
<1> HIDE DEF quote
<1>6. Frozen' /\ Prices!BillsSettle'
  BY <1>3, <1>5 DEF Frozen, Prices!FrozenRowAgrees, Prices!BillsSettle
<1> QED
  BY <1>3, <1>6 DEF PricesInv, NewestExists

LEMMA PricesCreates ==
  ASSUME PricesInv, Prices!CreateFromRoute
  PROVE  PricesInv'
<1>1. Prices!FrozenRowAgrees(bill)
  BY DEF PricesInv, Frozen, Prices!CreateFromRoute
<1>2. bill' = [bill EXCEPT !.at = "created"] /\ UNCHANGED <<profiles, lapsed>> /\ bill.at = "prepared"
  BY <1>1 DEF Prices!CreateFromRoute
<1>3. /\ bill'.quote = bill.quote /\ bill'.reserved = bill.reserved
      /\ bill'.quoted = bill.quoted /\ bill'.authorized = bill.authorized
      /\ bill'.at \in {"created", "prepared"}
  BY <1>2
<1>4. Frozen' /\ Prices!BillsSettle'
  BY <1>2, <1>3 DEF PricesInv, Frozen, Prices!FrozenRowAgrees, Prices!BillsSettle
<1> QED
  BY <1>2, <1>4 DEF PricesInv, NewestExists

\* A settlement at any tier and trust finds the quote as it was frozen.
LEMMA PricesSettles ==
  ASSUME PricesInv, NEW tier \in Prices!PerformanceTier, NEW trust \in Prices!TrustClass,
         NEW used \in Authorization, Prices!SettleBill(tier, trust, used)
  PROVE  PricesInv'
<1> DEFINE base == bill.quote.base
<1>1. /\ Prices!FrozenRowAgrees(bill) /\ base \in Nat /\ base >= 3
      /\ Prices!SettlementFits(base, "high", "enhanced")
      /\ bill.reserved = Prices!UserDeduction(base, "high")
  BY DEF PricesInv, Frozen, Prices!SettleBill
<1>2. /\ bill' = [at |-> "settled", reserved |-> bill.reserved,
                  fits |-> Prices!SettlementFits(base, tier, trust),
                  paid |-> Prices!UserDeduction(base, tier),
                  earned |-> Prices!NodeSpendableQuota(base, tier, trust),
                  kept |-> Prices!ReserveInflow(base, tier, trust)]
      /\ UNCHANGED <<profiles, lapsed>>
  BY <1>1 DEF Prices!SettleBill, Prices!FrozenBase
<1>3. Prices!BillsSettle'
  BY <1>1, <1>2, SmallerSettles DEF Prices!BillsSettle
<1>4. Frozen'
  BY <1>2 DEF Frozen
<1> QED
  BY <1>2, <1>3, <1>4 DEF PricesInv, NewestExists

\* billing.rs, operator_billing.rs, settlement.rs: a job created on an accepted
\* profile can be settled, at every tier and trust and whatever profiles were
\* recorded or lapsed since: no amount overflows, no more is paid than was reserved,
\* and the node and the reserve get something, however small the job.
THEOREM PricesAlwaysHold == Spec => []PricesHold
<1>1. Init => PricesInv
  BY DEF Init, Prices!Init, PricesInv, NewestExists, Frozen, Prices!BillsSettle
<1>2. PricesInv /\ [Next]_vars => PricesInv'
  <2> SUFFICES ASSUME PricesInv, [Prices!Next]_prices PROVE PricesInv'
    BY PartSteps
  <2>1. CASE UNCHANGED prices
    BY <2>1 DEF prices, PricesInv, NewestExists, Frozen, Prices!FrozenRowAgrees,
       Prices!BillsSettle
  <2> QED
    BY <2>1, PricesRecords, PricesLoads, PricesCreates, PricesSettles DEF Prices!Next
<1>3. PricesInv => PricesHold
  BY DEF PricesInv, PricesHold
<1> QED
  BY <1>1, <1>2, <1>3, PTL DEF Spec

-----------------------------------------------------------------------------
(***************************************************************************)
(* The quality of models.  Who has verified a statement holds the lock of  *)
(* its key, and no event has that key; who has read the rows holds them,   *)
(* and they are still as they were read.  A tier that was left while the   *)
(* score stayed the same is out of reach of that score.                    *)
(***************************************************************************)
QualityRow ==
  [bench : Nat, samples : Nat \ {0}, glicko : Nat, evals : Nat, fusion : Nat,
   tier : {"high", "medium", "low"}]
EventRecord ==
  [key : Models!Key, model : Model, kind : {"score", "blind"}, samples : Nat, tx : QualityTx]
RecordTx ==
  [at : {"begun", "locked", "verified", "read"}, statement : Statement,
   rows : [Model -> QualityRow]]

ModelsType ==
  /\ quality \in [Model -> QualityRow]
  /\ events \subseteq EventRecord /\ audits \subseteq Models!Key
  /\ qtx \in [QualityTx -> {Models!Idle} \cup RecordTx]
  /\ event_lock \in [Models!Key -> QualityTx \cup {None}]
  /\ seen_tiers \in [Model -> SUBSET {"high", "medium", "low"}]

HoldsKey(t) ==
  qtx[t].at \in {"locked", "verified", "read"} => event_lock[qtx[t].statement.key] = t
KeyIsNew(t) ==
  qtx[t].at \in {"verified", "read"} => Models!Recorded(qtx[t].statement.key) = {}
RowsAreRead(t) == qtx[t].at = "read" => rows_lock = t /\ qtx[t].rows = quality
QualityTxSound == \A t \in QualityTx : HoldsKey(t) /\ KeyIsNew(t) /\ RowsAreRead(t)

\* Where a model can no longer go with the score it has.
TierKept(q, seen) ==
  /\ q.tier \notin seen
  /\ q.tier # "medium" => q.evals >= MinSamples
  /\ q.tier = "high" /\ seen # {} => q.fusion >= 77
  /\ q.tier = "low" /\ seen # {} => q.fusion <= 38
  /\ q.tier = "medium" /\ "high" \in seen => q.fusion < 72
  /\ q.tier = "medium" /\ "low" \in seen => q.fusion > 42
TiersKept == \A m \in Model : TierKept(quality[m], seen_tiers[m])

\* What was made is finitely much, so that it can be counted.
MadeFinite ==
  \A m \in Model :
    /\ IsFiniteSet(Models!SamplesOf(Models!Made(m, "score")))
    /\ IsFiniteSet(Models!Made(m, "blind"))

ModelsInv ==
  ModelsType /\ QualityTxSound /\ MadeFinite /\ Models!EventsAccounted /\ TiersKept

LEMMA IdleIsIdle == Models!Idle \notin RecordTx /\ Models!Idle.at = "idle"
  BY DEF Models!Idle, RecordTx

LEMMA TxStates ==
  ASSUME ModelsType, NEW t \in QualityTx, qtx[t].at # "idle"
  PROVE  qtx[t] \in RecordTx
  BY IdleIsIdle DEF ModelsType

LEMMA SameModelsCardinality == \A S : Models!Cardinality(S) = Cardinality(S)
  BY DEF Models!Cardinality, Cardinality

-----------------------------------------------------------------------------
(* Scores *)

LEMMA RoundedIsNat ==
  ASSUME NEW a \in Nat, NEW b \in Nat \ {0}
  PROVE  Models!Rounded(a, b) \in Nat
  BY DEF Models!Rounded

\* An event changes its model's row only, and counts once.
LEMMA EventApplies ==
  ASSUME NEW q \in QualityRow, NEW s \in Statement, NEW r \in Models!ApplyEvent(q, s)
  PROVE  /\ r \in QualityRow
         /\ r.samples = q.samples + (IF s.kind = "score" THEN s.samples ELSE 0)
         /\ r.evals = q.evals + (IF s.kind = "score" THEN 0 ELSE 1)
         /\ r.tier = q.tier
<1>1. s.samples \in Nat /\ (s.kind = "score" => s.value \in Nat)
  BY QualityAssumption
<1>2. CASE s.kind = "score"
  <2> DEFINE b == Models!Rounded(q.bench * q.samples + s.value * s.samples, q.samples + s.samples)
             n == q.samples + s.samples
  <2>1. n \in Nat \ {0}
    BY <1>1 DEF QualityRow
  <2>2. b \in Nat
    <3>1. q.bench * q.samples \in Nat /\ s.value * s.samples \in Nat
      BY <1>1, <1>2 DEF QualityRow
    <3>2. q.bench * q.samples + s.value * s.samples \in Nat
      BY <3>1
    <3> QED
      BY <2>1, <3>2, RoundedIsNat
  <2>3. r = [q EXCEPT !.bench = b, !.samples = n]
    BY <1>2 DEF Models!ApplyEvent, Models!Benchmark
  <2> HIDE DEF b, n
  <2>4. r \in QualityRow /\ r.samples = n /\ r.evals = q.evals /\ r.tier = q.tier
    BY <2>1, <2>2, <2>3 DEF QualityRow
  <2> QED
    BY <1>2, <2>4 DEF n, QualityRow
<1>3. CASE s.kind # "score"
  <2> DEFINE n == q.evals + 1
  <2>1. PICK x \in Ratings : r = [q EXCEPT !.glicko = x, !.evals = n]
    BY <1>3 DEF Models!ApplyEvent, Models!Glicko
  <2>2. x \in Nat /\ n \in Nat
    BY QualityAssumption DEF QualityRow
  <2> HIDE DEF n
  <2>3. r \in QualityRow /\ r.samples = q.samples /\ r.evals = n /\ r.tier = q.tier
    BY <2>1, <2>2 DEF QualityRow
  <2> QED
    BY <1>3, <2>3 DEF n, QualityRow
<1> QED
  BY <1>2, <1>3

LEMMA FusedIsNat ==
  ASSUME NEW q \in QualityRow
  PROVE  Models!FusedQuality(q) \in Nat
<1>1. ColdStartK \in Nat \ {0}
  BY QualityAssumption
<1>2. ColdStartK * q.bench \in Nat /\ q.evals * q.glicko \in Nat
  BY <1>1 DEF QualityRow
<1>3. ColdStartK * q.bench + q.evals * q.glicko \in Nat /\ ColdStartK + q.evals \in Nat \ {0}
  BY <1>1, <1>2 DEF QualityRow
<1> QED
  BY <1>3, RoundedIsNat DEF Models!FusedQuality

LEMMA ClassifyIsTier ==
  ASSUME NEW current \in {"high", "medium", "low"}, NEW score, NEW rank, NEW evals
  PROVE  Models!Classify(current, score, rank, evals) \in {"high", "medium", "low"}
  BY DEF Models!Classify

\* The group is computed again: scores and tiers change, counts do not.
LEMMA GroupRow ==
  ASSUME NEW rows \in [Model -> QualityRow], NEW m \in Model
  PROVE  LET new == Models!RecomputeGroup(rows)[m]
         IN /\ new \in QualityRow /\ new.samples = rows[m].samples /\ new.evals = rows[m].evals
            /\ \E rank : new.tier =
                 Models!Classify(rows[m].tier, new.fusion, rank, rows[m].evals)
<1> DEFINE fused == [n \in Model |-> Models!FusedQuality(rows[n])]
           rank == Models!ScorePercentile(m, fused)
           tier == Models!Classify(rows[m].tier, fused[m], rank, rows[m].evals)
           new == Models!RecomputeGroup(rows)[m]
<1>1. new = [rows[m] EXCEPT !.fusion = fused[m], !.tier = tier]
  BY DEF Models!RecomputeGroup
<1>2. fused[m] \in Nat
  BY FusedIsNat
<1>3. tier \in {"high", "medium", "low"}
  BY ClassifyIsTier DEF QualityRow
<1>4. tier = Models!Classify(rows[m].tier, fused[m], rank, rows[m].evals)
  OBVIOUS
<1> HIDE DEF fused, rank, tier, new
<1>5. /\ new \in QualityRow /\ new.samples = rows[m].samples /\ new.evals = rows[m].evals
      /\ new.fusion = fused[m] /\ new.tier = tier
  BY <1>1, <1>2, <1>3 DEF QualityRow
<1> QED
  BY <1>4, <1>5 DEF new

LEMMA GroupIsRows ==
  ASSUME NEW rows \in [Model -> QualityRow]
  PROVE  Models!RecomputeGroup(rows) \in [Model -> QualityRow]
<1>1. \A m \in Model : Models!RecomputeGroup(rows)[m] \in QualityRow
  BY GroupRow
<1> QED
  BY <1>1, Zenon DEF Models!RecomputeGroup

\* Hysteresis.
LEMMA TierStays ==
  ASSUME NEW q \in QualityRow, NEW r \in QualityRow, NEW seen \in SUBSET {"high", "medium", "low"},
         TierKept(q, seen), r.evals >= q.evals,
         NEW rank, r.tier = Models!Classify(q.tier, r.fusion, rank, r.evals)
  PROVE  TierKept(r, IF r.fusion # q.fusion THEN {}
                     ELSE IF r.tier # q.tier THEN seen \cup {q.tier} ELSE seen)
<1>1. MinSamples \in Nat
  BY QualityAssumption
<1>2. q.fusion \in Nat /\ r.fusion \in Nat /\ q.evals \in Nat /\ r.evals \in Nat
      /\ q.tier \in {"high", "medium", "low"} /\ r.tier \in {"high", "medium", "low"}
  BY DEF QualityRow
<1>3. r.tier # "medium" => r.evals >= MinSamples
  BY <1>1, <1>2 DEF Models!Classify
<1>4. CASE r.fusion # q.fusion
  BY <1>3, <1>4 DEF TierKept
<1>5. CASE r.fusion = q.fusion /\ r.tier = q.tier
  BY <1>1, <1>2, <1>3, <1>5 DEF TierKept
<1>6. CASE r.fusion = q.fusion /\ r.tier # q.tier
  <2>1. CASE q.tier = "high"
    BY <1>1, <1>2, <1>6, <2>1 DEF TierKept, Models!Classify
  <2>2. CASE q.tier = "low"
    BY <1>1, <1>2, <1>6, <2>2 DEF TierKept, Models!Classify
  <2>3. CASE q.tier = "medium"
    <3>1. \/ r.tier = "high" /\ r.fusion >= 77
          \/ r.tier = "low" /\ r.fusion <= 38
      BY <1>2, <1>6, <2>3 DEF Models!Classify
    <3> QED
      BY <1>1, <1>2, <1>3, <1>6, <2>3, <3>1 DEF TierKept
  <2> QED
    BY <1>2, <2>1, <2>2, <2>3
<1> QED
  BY <1>4, <1>5, <1>6

-----------------------------------------------------------------------------
(* Events *)

\* The samples of one event are as many as it says.
LEMMA SamplesOfOne ==
  ASSUME NEW key, NEW n \in Nat
  PROVE  LET some == {<<key, i>> : i \in 1 .. n}
         IN IsFiniteSet(some) /\ Cardinality(some) = n
<1> DEFINE some == {<<key, i>> : i \in 1 .. n}
           index == [i \in 1 .. n |-> <<key, i>>]
<1>1. IsFiniteSet(1 .. n) /\ Cardinality(1 .. n) = n
  BY FS_Interval
<1>2. index \in [1 .. n -> some]
  OBVIOUS
<1>3. \A i, j \in 1 .. n : index[i] = index[j] => i = j
  OBVIOUS
<1>4. \A x \in some : \E i \in 1 .. n : index[i] = x
  OBVIOUS
<1>5. index \in Injection(1 .. n, some)
  BY <1>2, <1>3 DEF Injection, IsInjective
<1>6. index \in Surjection(1 .. n, some)
  BY <1>2, <1>4 DEF Surjection
<1>7. ExistsBijection(1 .. n, some)
  BY <1>5, <1>6 DEF ExistsBijection, Bijection
<1> HIDE DEF some
<1>8. IsFiniteSet(some) /\ Cardinality(some) = n
  BY <1>1, <1>7, FS_Bijection
<1> QED
  BY <1>8 DEF some

\* An event with a new key adds its samples.
LEMMA SamplesAdd ==
  ASSUME NEW made, NEW e, e.samples \in Nat, \A d \in made : d.key # e.key,
         IsFiniteSet(Models!SamplesOf(made))
  PROVE  /\ IsFiniteSet(Models!SamplesOf(made \cup {e}))
         /\ Cardinality(Models!SamplesOf(made \cup {e})) =
              Cardinality(Models!SamplesOf(made)) + e.samples
<1> DEFINE some == {<<e.key, i>> : i \in 1 .. e.samples}
           before == Models!SamplesOf(made)
<1>1. IsFiniteSet(some) /\ Cardinality(some) = e.samples
  BY SamplesOfOne
<1>2. Models!SamplesOf(made \cup {e}) = before \cup some
  <2>1. \A x : x \in Models!SamplesOf(made \cup {e}) <=> x \in before \/ x \in some
    BY Zenon DEF Models!SamplesOf
  <2> QED
    BY <2>1, Zenon
<1>3. before \cap some = {}
  BY DEF Models!SamplesOf
<1> HIDE DEF some, before
<1>4. /\ IsFiniteSet(before \cup some)
      /\ Cardinality(before \cup some) = Cardinality(before) + Cardinality(some) - Cardinality({})
  BY <1>1, <1>3, FS_Union DEF before
<1>5. Cardinality(before) \in Nat /\ Cardinality({}) = 0
  BY FS_EmptySet, FS_CardinalityType DEF before
<1>6. Cardinality(before \cup some) = Cardinality(before) + e.samples
  <2>1. Cardinality(before \cup some) = Cardinality(before) + e.samples - 0
    BY <1>1, <1>4, <1>5
  <2> QED
    BY <1>5, <2>1
<1>7. /\ IsFiniteSet(Models!SamplesOf(made \cup {e}))
      /\ Cardinality(Models!SamplesOf(made \cup {e})) = Cardinality(before) + e.samples
  BY <1>2, <1>4, <1>6
<1> QED
  BY <1>7 DEF before

-----------------------------------------------------------------------------
(* Steps *)

\* A transaction that goes on without changing a table.
LEMMA ModelsLocks ==
  ASSUME ModelsInv, NEW t \in QualityTx,
         \/ \E s \in Statement : Models!BeginRecord(t, s)
         \/ Models!LockQualityEvent(t) \/ Models!LockModels(t)
         \/ Models!VerifyEvidence(t) /\ qtx[t].statement \notin expired
  PROVE  ModelsInv'
<1>1. UNCHANGED <<quality, events, audits, seen_tiers>>
  BY DEF Models!BeginRecord, Models!LockQualityEvent, Models!LockModels, Models!VerifyEvidence,
     Models!tables
<1>2. MadeFinite' /\ Models!EventsAccounted' /\ TiersKept'
  BY <1>1 DEF ModelsInv, MadeFinite, Models!EventsAccounted, TiersKept, Models!Made
<1>3. /\ qtx \in [QualityTx -> {Models!Idle} \cup RecordTx]
      /\ quality \in [Model -> QualityRow]
      /\ event_lock \in [Models!Key -> QualityTx \cup {None}]
  BY DEF ModelsInv, ModelsType
<1>4. None \notin QualityTx
  BY QualityAssumption
<1>5. CASE \E s \in Statement : Models!BeginRecord(t, s)
  <2>1. PICK s \in Statement :
          /\ qtx' = [qtx EXCEPT ![t] = [at |-> "begun", statement |-> s, rows |-> quality]]
          /\ UNCHANGED <<event_lock, rows_lock>>
    BY <1>5 DEF Models!BeginRecord, Models!locks
  <2>2. [at |-> "begun", statement |-> s, rows |-> quality] \in RecordTx
    BY <1>3 DEF RecordTx
  <2>3. ModelsType'
    BY <1>1, <1>3, <2>1, <2>2 DEF ModelsInv, ModelsType
  <2>4. QualityTxSound'
    BY <1>1, <1>3, <2>1 DEF ModelsInv, QualityTxSound, HoldsKey, KeyIsNew, RowsAreRead,
       Models!Recorded
  <2> QED
    BY <1>2, <2>3, <2>4 DEF ModelsInv
<1>6. CASE Models!LockQualityEvent(t)
  <2> DEFINE k == qtx[t].statement.key
  <2>1. /\ qtx[t].at = "begun" /\ event_lock[k] = None
        /\ event_lock' = [event_lock EXCEPT ![k] = t]
        /\ qtx' = [qtx EXCEPT ![t].at = "locked"] /\ rows_lock' = rows_lock
    BY <1>6 DEF Models!LockQualityEvent, Models!Moves
  <2>2. qtx[t] \in RecordTx /\ k \in Models!Key
    BY <2>1, TxStates DEF ModelsInv, RecordTx, Models!Key
  <2>3. [qtx[t] EXCEPT !.at = "locked"] \in RecordTx
    BY <2>2 DEF RecordTx
  <2>4. ModelsType'
    BY <1>1, <1>3, <2>1, <2>2, <2>3 DEF ModelsInv, ModelsType
  <2>5. /\ qtx'[t].at = "locked" /\ qtx'[t].statement = qtx[t].statement
        /\ \A u \in QualityTx : u # t => qtx'[u] = qtx[u]
    BY <1>3, <2>1, <2>2 DEF RecordTx
  <2>6. QualityTxSound'
    BY <1>1, <1>3, <1>4, <2>1, <2>2, <2>5 DEF ModelsInv, QualityTxSound, HoldsKey, KeyIsNew,
       RowsAreRead, Models!Recorded
  <2> QED
    BY <1>2, <2>4, <2>6 DEF ModelsInv
<1>7. CASE Models!LockModels(t)
  <2>1. /\ qtx[t].at = "verified" /\ rows_lock = None /\ rows_lock' = t
        /\ qtx' = [qtx EXCEPT ![t].at = "read", ![t].rows = quality]
        /\ event_lock' = event_lock
    BY <1>7 DEF Models!LockModels
  <2>2. qtx[t] \in RecordTx
    BY <2>1, TxStates DEF ModelsInv
  <2>3. /\ qtx'[t] \in RecordTx /\ qtx'[t].at = "read" /\ qtx'[t].rows = quality
        /\ qtx'[t].statement = qtx[t].statement
        /\ \A u \in QualityTx : u # t => qtx'[u] = qtx[u]
    BY <1>3, <2>1, <2>2 DEF RecordTx
  <2>4. ModelsType'
    BY <1>1, <1>3, <2>1, <2>3 DEF ModelsInv, ModelsType
  <2>5. QualityTxSound'
    BY <1>1, <1>3, <1>4, <2>1, <2>3 DEF ModelsInv, QualityTxSound, HoldsKey, KeyIsNew,
       RowsAreRead, Models!Recorded
  <2> QED
    BY <1>2, <2>4, <2>5 DEF ModelsInv
<1>8. CASE Models!VerifyEvidence(t) /\ qtx[t].statement \notin expired
  <2>1. /\ qtx[t].at = "locked" /\ Models!Recorded(qtx[t].statement.key) = {}
        /\ qtx' = [qtx EXCEPT ![t].at = "verified"] /\ UNCHANGED <<event_lock, rows_lock>>
    BY <1>8 DEF Models!VerifyEvidence, Models!Moves, Models!locks
  <2>2. qtx[t] \in RecordTx
    BY <2>1, TxStates DEF ModelsInv
  <2>3. /\ qtx'[t] \in RecordTx /\ qtx'[t].at = "verified"
        /\ qtx'[t].statement = qtx[t].statement
        /\ \A u \in QualityTx : u # t => qtx'[u] = qtx[u]
    BY <1>3, <2>1, <2>2 DEF RecordTx
  <2>4. ModelsType'
    BY <1>1, <1>3, <2>1, <2>3 DEF ModelsInv, ModelsType
  <2>5. QualityTxSound'
    BY <1>1, <1>3, <2>1, <2>3 DEF ModelsInv, QualityTxSound, HoldsKey, KeyIsNew,
       RowsAreRead, Models!Recorded
  <2> QED
    BY <1>2, <2>4, <2>5 DEF ModelsInv
<1> QED
  BY <1>5, <1>6, <1>7, <1>8

\* What the end of a transaction leaves of the others.
LEMMA ModelsEnds ==
  ASSUME ModelsInv, NEW t \in QualityTx, Models!Ends(t)
  PROVE  /\ qtx' \in [QualityTx -> {Models!Idle} \cup RecordTx]
         /\ event_lock' \in [Models!Key -> QualityTx \cup {None}]
         /\ qtx'[t].at = "idle"
         /\ \A u \in QualityTx : u # t =>
              /\ qtx'[u] = qtx[u] /\ HoldsKey(u)'
              /\ rows_lock = u => rows_lock' = u
<1>1. /\ qtx \in [QualityTx -> {Models!Idle} \cup RecordTx]
      /\ event_lock \in [Models!Key -> QualityTx \cup {None}]
      /\ qtx' = [qtx EXCEPT ![t] = Models!Idle]
      /\ event_lock' = [k \in Models!Key |-> IF event_lock[k] = t THEN None ELSE event_lock[k]]
      /\ rows_lock' = IF rows_lock = t THEN None ELSE rows_lock
  BY DEF ModelsInv, ModelsType, Models!Ends
<1>2. \A u \in QualityTx : u # t => HoldsKey(u)'
  <2> SUFFICES ASSUME NEW u \in QualityTx, u # t, qtx[u].at \in {"locked", "verified", "read"}
      PROVE  event_lock'[qtx[u].statement.key] = u
    BY <1>1 DEF HoldsKey
  <2>1. qtx[u] \in RecordTx
    BY TxStates DEF ModelsInv
  <2>2. qtx[u].statement.key \in Models!Key
    BY <2>1 DEF RecordTx, Models!Key
  <2>3. event_lock[qtx[u].statement.key] = u
    BY DEF ModelsInv, QualityTxSound, HoldsKey
  <2> QED
    BY <1>1, <2>2, <2>3
<1> QED
  BY <1>1, <1>2, IdleIsIdle

\* A transaction that ends without an event.
LEMMA ModelsGivesUp ==
  ASSUME ModelsInv, NEW t \in QualityTx,
         \/ Models!AnswerAgain(t) \/ Models!RecordFails(t)
         \/ Models!VerifyEvidence(t) /\ qtx[t].statement \in expired
  PROVE  ModelsInv'
<1>1. UNCHANGED <<quality, events, audits, seen_tiers>> /\ Models!Ends(t)
  BY DEF Models!AnswerAgain, Models!RecordFails, Models!VerifyEvidence, Models!tables
<1>2. MadeFinite' /\ Models!EventsAccounted' /\ TiersKept'
  BY <1>1 DEF ModelsInv, MadeFinite, Models!EventsAccounted, TiersKept, Models!Made
<1>3. ModelsType'
  BY <1>1, ModelsEnds DEF ModelsInv, ModelsType
<1>4. QualityTxSound'
  BY <1>1, ModelsEnds DEF ModelsInv, QualityTxSound, HoldsKey, KeyIsNew, RowsAreRead,
     Models!Recorded
<1> QED
  BY <1>2, <1>3, <1>4 DEF ModelsInv

\* The event is written with what it changes, and its transaction ends.
LEMMA ModelsCommits ==
  ASSUME ModelsInv, NEW t \in QualityTx, Models!CommitEvent(t)
  PROVE  ModelsInv'
<1> DEFINE s == qtx[t].statement
           e == [key |-> s.key, model |-> s.model, kind |-> s.kind, samples |-> s.samples,
                 tx |-> t]
<1>1. /\ qtx[t].at = "read" /\ qtx[t] \in RecordTx /\ s \in Statement /\ s.key \in Models!Key
      /\ rows_lock = t /\ qtx[t].rows = quality /\ event_lock[s.key] = t
      /\ \A d \in events : d.key # s.key
  <2>1. qtx[t].at = "read"
    BY DEF Models!CommitEvent
  <2>2. qtx[t] \in RecordTx
    BY <2>1, TxStates DEF ModelsInv
  <2>3. s \in Statement
    BY <2>2 DEF RecordTx
  <2>4. Models!Recorded(s.key) = {}
    BY <2>1 DEF ModelsInv, QualityTxSound, KeyIsNew
  <2> QED
    BY <2>1, <2>2, <2>3, <2>4
    DEF ModelsInv, QualityTxSound, HoldsKey, RowsAreRead, Models!Key, Models!Recorded
<1>2. /\ s.model \in Model /\ s.kind \in {"score", "blind"} /\ s.samples \in Nat
      /\ quality \in [Model -> QualityRow]
  BY <1>1, QualityAssumption DEF ModelsInv, ModelsType
<1>3. PICK r \in Models!ApplyEvent(quality[s.model], s) :
        LET new == Models!RecomputeGroup([quality EXCEPT ![s.model] = r]) IN
          /\ quality' = new
          /\ events' = events \cup {e}
          /\ seen_tiers' = [m \in Model |->
               IF new[m].fusion # quality[m].fusion THEN {}
               ELSE IF new[m].tier # quality[m].tier
               THEN seen_tiers[m] \cup {quality[m].tier} ELSE seen_tiers[m]]
  BY <1>1, Zenon DEF Models!CommitEvent
<1>4. /\ audits' = IF s.signed THEN audits \cup {s.key} ELSE audits
      /\ Models!Ends(t)
  BY DEF Models!CommitEvent
<1>5. e \in EventRecord /\ e.key = s.key /\ e.samples = s.samples /\ e.model = s.model
      /\ e.kind = s.kind
  BY <1>1, <1>2 DEF EventRecord
<1> HIDE DEF e, s
<1> DEFINE row == [quality EXCEPT ![s.model] = r]
<1>6. /\ r \in QualityRow /\ r.tier = quality[s.model].tier
      /\ r.samples = quality[s.model].samples + (IF s.kind = "score" THEN s.samples ELSE 0)
      /\ r.evals = quality[s.model].evals + (IF s.kind = "score" THEN 0 ELSE 1)
  BY <1>1, <1>2, <1>3, EventApplies
<1>7. row \in [Model -> QualityRow] /\ quality' = Models!RecomputeGroup(row)
  BY <1>2, <1>3, <1>6
<1>8. \A m \in Model : row[m] = (IF m = s.model THEN r ELSE quality[m])
  BY <1>2
<1> HIDE DEF row
<1>9. quality' \in [Model -> QualityRow]
  BY <1>7, GroupIsRows
<1>10. \A m \in Model :
         /\ quality'[m].samples = row[m].samples /\ quality'[m].evals = row[m].evals
         /\ row[m].tier = quality[m].tier
         /\ \E rank : quality'[m].tier =
              Models!Classify(quality[m].tier, quality'[m].fusion, rank, quality'[m].evals)
  <2> TAKE m \in Model
  <2>1. row[m].tier = quality[m].tier
    BY <1>6, <1>8
  <2> QED
    BY <1>7, <2>1, GroupRow
<1>11. \A m \in Model : quality'[m].evals >= quality[m].evals
  <2> TAKE m \in Model
  <2>1. quality[m].evals \in Nat /\ quality[s.model].evals \in Nat
    BY <1>2 DEF QualityRow
  <2> QED
    BY <1>6, <1>8, <1>10, <2>1
<1>12. seen_tiers \in [Model -> SUBSET {"high", "medium", "low"}]
       /\ seen_tiers' \in [Model -> SUBSET {"high", "medium", "low"}]
       /\ \A m \in Model : seen_tiers'[m] =
            (IF quality'[m].fusion # quality[m].fusion THEN {}
             ELSE IF quality'[m].tier # quality[m].tier
             THEN seen_tiers[m] \cup {quality[m].tier} ELSE seen_tiers[m])
  <2>1. seen_tiers \in [Model -> SUBSET {"high", "medium", "low"}]
    BY DEF ModelsInv, ModelsType
  <2>2. \A m \in Model : quality[m].tier \in {"high", "medium", "low"}
    BY <1>2 DEF QualityRow
  <2> QED
    BY <1>3, <2>1, <2>2
<1>13. TiersKept'
  <2> SUFFICES ASSUME NEW m \in Model PROVE TierKept(quality'[m], seen_tiers'[m])
    BY DEF TiersKept
  <2>1. quality[m] \in QualityRow /\ quality'[m] \in QualityRow
        /\ seen_tiers[m] \in SUBSET {"high", "medium", "low"}
    BY <1>2, <1>9, <1>12
  <2>2. TierKept(quality[m], seen_tiers[m])
    BY DEF ModelsInv, TiersKept
  <2>3. PICK rank : quality'[m].tier =
          Models!Classify(quality[m].tier, quality'[m].fusion, rank, quality'[m].evals)
    BY <1>10
  <2> QED
    <3> DEFINE q == quality[m]
               r1 == quality'[m]
               seen == seen_tiers[m]
               seen1 == IF r1.fusion # q.fusion THEN {}
                        ELSE IF r1.tier # q.tier THEN seen \cup {q.tier} ELSE seen
    <3>1. /\ q \in QualityRow /\ r1 \in QualityRow /\ seen \in SUBSET {"high", "medium", "low"}
          /\ TierKept(q, seen) /\ r1.evals >= q.evals
          /\ r1.tier = Models!Classify(q.tier, r1.fusion, rank, r1.evals)
      BY <1>11, <2>1, <2>2, <2>3
    <3>2. seen_tiers'[m] = seen1
      BY <1>12
    <3> HIDE DEF q, r1, seen
    <3>3. TierKept(r1, seen1)
      BY <3>1, TierStays
    <3> QED
      BY <3>2, <3>3 DEF r1
<1>14. \A m \in Model, kind \in {"score", "blind"} :
         Models!Made(m, kind)' =
           (IF m = s.model /\ kind = s.kind THEN Models!Made(m, kind) \cup {e}
            ELSE Models!Made(m, kind))
  BY <1>3, <1>5 DEF Models!Made
<1>15. \A m \in Model :
         /\ IsFiniteSet(Models!SamplesOf(Models!Made(m, "score")))
         /\ IsFiniteSet(Models!Made(m, "blind"))
         /\ quality[m].samples = 1 + Cardinality(Models!SamplesOf(Models!Made(m, "score")))
         /\ quality[m].evals - Cardinality(Models!Made(m, "blind")) \in FirstSamples
  BY SameModelsCardinality DEF ModelsInv, MadeFinite, Models!EventsAccounted
<1>16. \A m \in Model :
         /\ IsFiniteSet(Models!SamplesOf(Models!Made(m, "score")'))
         /\ quality'[m].samples = 1 + Cardinality(Models!SamplesOf(Models!Made(m, "score")'))
  <2> TAKE m \in Model
  <2>1. quality[m].samples \in Nat
        /\ Cardinality(Models!SamplesOf(Models!Made(m, "score"))) \in Nat
    BY <1>2, <1>15, FS_CardinalityType DEF QualityRow
  <2>2. CASE m = s.model /\ s.kind = "score"
    <3>1. Models!Made(m, "score")' = Models!Made(m, "score") \cup {e}
      BY <1>14, <2>2
    <3>2. \A d \in Models!Made(m, "score") : d.key # e.key
      BY <1>1, <1>5 DEF Models!Made
    <3>3. /\ IsFiniteSet(Models!SamplesOf(Models!Made(m, "score") \cup {e}))
          /\ Cardinality(Models!SamplesOf(Models!Made(m, "score") \cup {e})) =
               Cardinality(Models!SamplesOf(Models!Made(m, "score"))) + s.samples
      BY <1>2, <1>5, <1>15, <3>2, SamplesAdd
    <3>4. quality'[m].samples = quality[m].samples + s.samples
      BY <1>6, <1>8, <1>10, <2>2
    <3>5. Cardinality(Models!SamplesOf(Models!Made(m, "score")')) =
            Cardinality(Models!SamplesOf(Models!Made(m, "score"))) + s.samples
      BY <3>1, <3>3
    <3>6. quality[m].samples = 1 + Cardinality(Models!SamplesOf(Models!Made(m, "score")))
      BY <1>15
    <3>7. quality'[m].samples = 1 + Cardinality(Models!SamplesOf(Models!Made(m, "score")'))
      BY <1>2, <2>1, <3>4, <3>5, <3>6
    <3> QED
      BY <3>1, <3>3, <3>7
  <2>3. CASE ~ (m = s.model /\ s.kind = "score")
    <3>1. Models!Made(m, "score")' = Models!Made(m, "score")
      BY <1>14, <2>3
    <3>2. quality'[m].samples = quality[m].samples
      BY <1>6, <1>8, <1>10, <2>1, <2>3
    <3> QED
      BY <1>15, <3>1, <3>2
  <2> QED
    BY <2>2, <2>3
<1>17. \A m \in Model :
         /\ IsFiniteSet(Models!Made(m, "blind")')
         /\ quality'[m].evals - Cardinality(Models!Made(m, "blind")') \in FirstSamples
  <2> TAKE m \in Model
  <2>1. quality[m].evals \in Nat /\ Cardinality(Models!Made(m, "blind")) \in Nat
    BY <1>2, <1>15, FS_CardinalityType DEF QualityRow
  <2>2. CASE m = s.model /\ s.kind = "blind"
    <3>1. Models!Made(m, "blind")' = Models!Made(m, "blind") \cup {e}
      BY <1>14, <2>2
    <3>2. e \notin Models!Made(m, "blind")
      BY <1>1, <1>5 DEF Models!Made
    <3>3. /\ IsFiniteSet(Models!Made(m, "blind") \cup {e})
          /\ Cardinality(Models!Made(m, "blind") \cup {e}) =
               Cardinality(Models!Made(m, "blind")) + 1
      BY <1>15, <3>2, FS_AddElement
    <3>4. quality'[m].evals = quality[m].evals + 1
      BY <1>6, <1>8, <1>10, <2>2
    <3>5. quality'[m].evals - Cardinality(Models!Made(m, "blind") \cup {e}) =
            quality[m].evals - Cardinality(Models!Made(m, "blind"))
      BY <2>1, <3>3, <3>4
    <3> QED
      BY <1>15, <3>1, <3>3, <3>5
  <2>3. CASE ~ (m = s.model /\ s.kind = "blind")
    <3>1. Models!Made(m, "blind")' = Models!Made(m, "blind")
      BY <1>14, <2>3
    <3>2. quality'[m].evals = quality[m].evals
      BY <1>2, <1>6, <1>8, <1>10, <2>1, <2>3
    <3> QED
      BY <1>15, <3>1, <3>2
  <2> QED
    BY <2>2, <2>3
<1>18. Models!EventsAccounted' /\ MadeFinite'
  <2>1. \A c, d \in events' : c.key = d.key => c = d
    BY <1>1, <1>3, <1>5 DEF ModelsInv, Models!EventsAccounted
  <2>2. audits' \subseteq {d.key : d \in events'}
    <3>1. audits \subseteq {d.key : d \in events}
      BY DEF ModelsInv, Models!EventsAccounted
    <3> QED
      BY <1>3, <1>4, <1>5, <3>1
  <2> QED
    BY <1>16, <1>17, <2>1, <2>2, SameModelsCardinality DEF Models!EventsAccounted, MadeFinite
<1>19. ModelsType'
  <2>1. events' \subseteq EventRecord /\ audits' \subseteq Models!Key
    BY <1>1, <1>3, <1>4, <1>5 DEF ModelsInv, ModelsType
  <2> QED
    BY <1>4, <1>9, <1>12, <2>1, ModelsEnds DEF ModelsType
<1>20. QualityTxSound'
  <2> SUFFICES ASSUME NEW u \in QualityTx PROVE (HoldsKey(u) /\ KeyIsNew(u) /\ RowsAreRead(u))'
    BY DEF QualityTxSound
  <2>1. CASE u = t
    BY <1>4, <2>1, ModelsEnds DEF HoldsKey, KeyIsNew, RowsAreRead
  <2>2. CASE u # t
    <3>1. qtx'[u] = qtx[u] /\ HoldsKey(u)'
      BY <1>4, <2>2, ModelsEnds
    <3>2. HoldsKey(u) /\ KeyIsNew(u) /\ RowsAreRead(u)
      BY DEF ModelsInv, QualityTxSound
    <3>3. qtx[u].at # "read"
      BY <1>1, <2>2, <3>2 DEF RowsAreRead
    <3>4. qtx[u].at = "verified" => qtx[u].statement.key # s.key
      BY <1>1, <2>2, <3>2 DEF HoldsKey
    <3>5. KeyIsNew(u)'
      BY <1>3, <1>5, <3>1, <3>2, <3>3, <3>4 DEF KeyIsNew, Models!Recorded
    <3> QED
      BY <3>1, <3>3, <3>5 DEF RowsAreRead
  <2> QED
    BY <2>1, <2>2
<1> QED
  BY <1>13, <1>18, <1>19, <1>20 DEF ModelsInv

LEMMA ModelsNext ==
  ASSUME ModelsInv, [Models!Next]_models
  PROVE  ModelsInv'
<1>1. CASE UNCHANGED models
  BY <1>1 DEF models, ModelsInv, ModelsType, QualityTxSound, HoldsKey, KeyIsNew, RowsAreRead,
     Models!Recorded, MadeFinite, Models!EventsAccounted, TiersKept, Models!Made
<1>2. CASE \E s \in Statement : Models!StatementExpires(s)
  <2>1. UNCHANGED <<quality, events, audits, qtx, event_lock, rows_lock, seen_tiers>>
    BY <1>2 DEF Models!StatementExpires, Models!tables, Models!locks
  <2> QED
    BY <2>1 DEF models, ModelsInv, ModelsType, QualityTxSound, HoldsKey, KeyIsNew, RowsAreRead,
       Models!Recorded, MadeFinite, Models!EventsAccounted, TiersKept, Models!Made
<1> QED
  BY <1>1, <1>2, ModelsLocks, ModelsGivesUp, ModelsCommits DEF Models!Next

\* quality.rs, operator_quality.rs, tier.rs: however transactions on the models of a
\* name are interleaved, every event is applied exactly once, and the events of other
\* models never bring a model back to a tier it has left while its own score stayed
\* the same.
THEOREM QualityAlwaysSound == Spec => []QualitySound
<1>1. Init => ModelsInv
  <2> SUFFICES ASSUME Models!Init PROVE ModelsInv
    BY DEF Init
  <2>1. /\ quality \in [Model -> QualityRow]
        /\ \A m \in Model : /\ quality[m].samples = 1 /\ quality[m].evals \in FirstSamples
                             /\ quality[m].tier = "medium"
    <3>1. \A n \in FirstSamples :
            [bench |-> FirstScore, samples |-> 1, glicko |-> FirstScore, evals |-> n,
             fusion |-> FirstScore, tier |-> "medium"] \in QualityRow
      BY QualityAssumption DEF QualityRow
    <3> QED
      BY <3>1 DEF Models!Init
  <2>2. events = {} /\ audits = {} /\ \A m \in Model : seen_tiers[m] = {}
    BY DEF Models!Init
  <2>3. ModelsType
    BY <2>1, <2>2 DEF Models!Init, ModelsType
  <2>4. QualityTxSound
    BY IdleIsIdle DEF Models!Init, QualityTxSound, HoldsKey, KeyIsNew, RowsAreRead
  <2>5. TiersKept
    BY <2>1, <2>2 DEF TiersKept, TierKept
  <2>6. \A m \in Model : Models!Made(m, "blind") = {} /\ Models!SamplesOf(Models!Made(m, "score")) = {}
    BY <2>2 DEF Models!Made, Models!SamplesOf
  <2>7. MadeFinite
    BY <2>6, FS_EmptySet DEF MadeFinite
  <2>8. Models!EventsAccounted
    <3>1. \A m \in Model :
            /\ quality[m].samples = 1 + 0 /\ quality[m].evals - 0 \in FirstSamples
      <4> TAKE m \in Model
      <4>1. quality[m].evals \in Nat
        BY <2>1, QualityAssumption
      <4>2. quality[m].evals - 0 = quality[m].evals
        BY <4>1
      <4> QED
        BY <2>1, <4>2
    <3> QED
      BY <2>2, <2>6, <3>1, FS_EmptySet, SameModelsCardinality DEF Models!EventsAccounted
  <2> QED
    BY <2>3, <2>4, <2>5, <2>7, <2>8 DEF ModelsInv
<1>2. ModelsInv /\ [Next]_vars => ModelsInv'
  BY PartSteps, ModelsNext
<1>3. ModelsInv => QualitySound
  BY DEF ModelsInv, TiersKept, TierKept, Models!NoFlapping, QualitySound
<1> QED
  BY <1>1, <1>2, <1>3, PTL DEF Spec

-----------------------------------------------------------------------------
(***************************************************************************)
(* Groups.  Disjoint groups counted one by one, in the order of their      *)
(* values, add up to what they gather.                                     *)
(***************************************************************************)
\* Among finitely many elements one has a greatest value.
LEMMA GreatestValue ==
  ASSUME NEW S, IsFiniteSet(S), S # {}, NEW f, \A x \in S : f[x] \in Int
  PROVE  \E m \in S : \A k \in S : f[k] <= f[m]
<1> DEFINE Topped(T) == \E m \in T : \A k \in T : f[k] <= f[m]
           Bad == {T \in SUBSET S : T # {} /\ ~ Topped(T)}
<1> SUFFICES ASSUME Bad # {} PROVE FALSE
  OBVIOUS
<1>1. PICK T \in Bad : \A x \in T : T \ {x} \notin Bad
  <2>1. Bad \in SUBSET SUBSET S
    OBVIOUS
  <2> HIDE DEF Bad
  <2> QED
    BY <2>1, LeastSubset
<1>2. PICK x \in T : TRUE
  OBVIOUS
<1>3. CASE T \ {x} = {}
  BY <1>1, <1>2, <1>3
<1>4. CASE T \ {x} # {}
  <2>1. PICK m \in T \ {x} : \A k \in T \ {x} : f[k] <= f[m]
    BY <1>1, <1>2, <1>4
  <2>2. f[x] \in Int /\ f[m] \in Int /\ \A k \in T : f[k] \in Int
    BY <1>1, <1>2, <2>1
  <2>3. CASE f[x] <= f[m]
    BY <1>1, <2>1, <2>2, <2>3
  <2>4. CASE f[m] <= f[x]
    <3>1. \A k \in T : f[k] <= f[x]
      BY <2>1, <2>2, <2>4
    <3> QED
      BY <1>1, <1>2, <3>1
  <2> QED
    BY <2>2, <2>3, <2>4
<1> QED
  BY <1>3, <1>4

\* The members of G[i] for i in I.
Gathered(G, I) == UNION {G[i] : i \in I}
\* f counts the members of disjoint finite sets.
Counts(f, G, I) ==
  /\ \A i \in I : IsFiniteSet(G[i]) /\ f[i] = Cardinality(G[i])
  /\ \A i, j \in I : i # j => G[i] \cap G[j] = {}

\* Disjoint sets have as many elements together as the sum of what each has.
LEMMA SumFibres ==
  ASSUME NEW I, IsFiniteSet(I), NEW G, NEW f, Counts(f, G, I)
  PROVE  /\ IsFiniteSet(Gathered(G, I))
         /\ SumOf(f, I) = Cardinality(Gathered(G, I))
<1> USE DEF Counts, Gathered
<1> DEFINE Whole(T) == UNION {G[i] : i \in T}
           Fine(T) == IsFiniteSet(Whole(T)) /\ SumOf(f, T) = Cardinality(Whole(T))
           Bad == {T \in SUBSET I : ~ Fine(T)}
<1> SUFFICES ASSUME Bad # {} PROVE FALSE
  OBVIOUS
<1>1. PICK T \in Bad : IsFiniteSet(T) /\ \A x \in T : T \ {x} \notin Bad
  <2>1. Bad \in SUBSET SUBSET I
    OBVIOUS
  <2> HIDE DEF Bad
  <2> QED
    BY <2>1, LeastSubset
<1>2. T \in SUBSET I /\ ~ Fine(T) /\ \A x \in T : Fine(T \ {x})
  BY <1>1
<1> HIDE DEF Bad
<1>3. T # {}
  <2>1. Whole({}) = {}
    OBVIOUS
  <2> QED
    BY <1>2, <2>1, FS_EmptySet, SumPicks
<1>4. PICK x \in T : TRUE
  BY <1>3
<1> DEFINE rest == Whole(T \ {x})
<1>5. IsFiniteSet(rest) /\ SumOf(f, T \ {x}) = Cardinality(rest)
  BY <1>2, <1>4
<1>6. Whole(T) = rest \cup G[x]
  BY <1>4
<1>7. rest \cap G[x] = {}
  BY <1>2, <1>4
<1>8. IsFiniteSet(G[x]) /\ f[x] = Cardinality(G[x])
  BY <1>2, <1>4
<1> DEFINE whole == Whole(T)
<1> HIDE DEF rest, whole, Whole
<1>9. IsFiniteSet(rest \cup G[x])
      /\ Cardinality(rest \cup G[x]) = Cardinality(rest) + Cardinality(G[x]) - Cardinality(rest \cap G[x])
  BY <1>5, <1>8, FS_Union
<1>10. Cardinality(rest \cap G[x]) = 0 /\ Cardinality(rest) \in Nat /\ Cardinality(G[x]) \in Nat
  BY <1>5, <1>7, <1>8, FS_EmptySet, FS_CardinalityType
<1>11. SumOf(f, T) = f[x] + SumOf(f, T \ {x})
  <2>1. \A y \in T : f[y] \in Int
    BY <1>2, FS_CardinalityType
  <2> QED
    BY <1>1, <1>4, <2>1, SumRemove
<1> QED
  BY <1>2, <1>5, <1>6, <1>8, <1>9, <1>10, <1>11 DEF Fine

\* A part of a sum of natural numbers is no more than the sum.
LEMMA SumMonotone ==
  ASSUME NEW S, IsFiniteSet(S), NEW T \in SUBSET S, NEW f, \A x \in S : f[x] \in Nat
  PROVE  SumOf(f, T) <= SumOf(f, S) /\ SumOf(f, T) \in Nat /\ SumOf(f, S) \in Nat
<1>0. \A U \in SUBSET S : IsFiniteSet(U) /\ SumOf(f, U) \in Nat
  <2>1. ASSUME NEW U \in SUBSET S PROVE IsFiniteSet(U) /\ \A x \in U : f[x] \in Int /\ f[x] >= 0
    BY <2>1, FS_Subset
  <2>2. ASSUME NEW U \in SUBSET S PROVE SumOf(f, U) \in Nat
    BY <2>1, SumType
  <2> QED
    BY <2>1, <2>2
<1> DEFINE Fine(U) == SumOf(f, T) <= SumOf(f, T \cup U)
           Bad == {U \in SUBSET (S \ T) : ~ Fine(U)}
<1>1. CASE Bad = {}
  <2>1. S \ T \in SUBSET (S \ T) /\ T \cup (S \ T) = S
    OBVIOUS
  <2>2. Fine(S \ T)
    BY <1>1, <2>1
  <2> QED
    BY <1>0, <2>1, <2>2
<1>2. CASE Bad # {}
  <2>1. PICK U \in Bad : IsFiniteSet(U) /\ \A x \in U : U \ {x} \notin Bad
    <3>1. Bad \in SUBSET SUBSET (S \ T) /\ IsFiniteSet(S \ T)
      BY <1>0
    <3> HIDE DEF Bad
    <3> QED
      BY <1>2, <3>1, LeastSubset
  <2>2. U \in SUBSET (S \ T) /\ ~ Fine(U) /\ \A x \in U : Fine(U \ {x})
    BY <2>1
  <2>3. U # {}
    <3>1. T \cup {} = T
      OBVIOUS
    <3> QED
      BY <1>0, <2>2, <3>1
  <2>4. PICK x \in U : TRUE
    BY <2>3
  <2> DEFINE W == T \cup (U \ {x})
  <2>5. T \cup U = W \cup {x} /\ x \notin W /\ W \in SUBSET S /\ x \in S
    BY <2>2, <2>4
  <2>6. SumOf(f, T) <= SumOf(f, W)
    BY <2>2, <2>4
  <2> HIDE DEF W
  <2>7. SumOf(f, W \cup {x}) = f[x] + SumOf(f, W)
    <3>1. IsFiniteSet(W) /\ \A y \in W \cup {x} : f[y] \in Int
      BY <1>0, <2>5
    <3> QED
      BY <2>5, <3>1, SumAdd
  <2>8. f[x] \in Nat /\ SumOf(f, W) \in Nat /\ SumOf(f, T) \in Nat
    BY <1>0, <2>5
  <2> QED
    BY <2>2, <2>5, <2>6, <2>7, <2>8
<1> QED
  BY <1>1, <1>2

\* How many members of a set of numbers are smaller.
RankOf(S, v) == Cardinality({w \in S : w < v})

\* The ranks of a finite set of numbers are 0 to its size less 1, each once.
LEMMA RanksOf ==
  ASSUME NEW S \in SUBSET Nat, IsFiniteSet(S)
  PROVE  /\ \A v \in S : RankOf(S, v) \in 0 .. Cardinality(S) - 1
         /\ \A v, w \in S : v < w => RankOf(S, v) < RankOf(S, w)
         /\ \A i \in 0 .. Cardinality(S) - 1 : \E v \in S : RankOf(S, v) = i
<1>1. PICK n \in Nat : n = Cardinality(S)
  BY FS_CardinalityType
<1>2. \A v \in S : IsFiniteSet({w \in S : w < v}) /\ RankOf(S, v) \in Nat
  <2>1. \A v \in S : {w \in S : w < v} \in SUBSET S
    OBVIOUS
  <2> QED
    BY <2>1, FS_Subset, FS_CardinalityType DEF RankOf
<1>3. ASSUME NEW v \in S PROVE RankOf(S, v) < n
  <2>1. {w \in S : w < v} \subseteq S \ {v}
    OBVIOUS
  <2>2. IsFiniteSet(S \ {v}) /\ Cardinality(S \ {v}) = n - 1
    BY <1>1, FS_RemoveElement
  <2>3. Cardinality({w \in S : w < v}) <= Cardinality(S \ {v})
    BY <2>1, <2>2, FS_Subset
  <2> QED
    BY <1>1, <1>2, <2>2, <2>3 DEF RankOf
<1>4. ASSUME NEW v \in S, NEW w \in S, v < w PROVE RankOf(S, v) < RankOf(S, w)
  <2>1. PICK A : A = {x \in S : x < v}
    OBVIOUS
  <2>2. PICK B : B = {x \in S : x < w}
    OBVIOUS
  <2>3. \A x \in S : x < v => x < w
    BY <1>4
  <2>a. v \notin A /\ v \in B
    BY <1>4, <2>1, <2>2
  <2>b. \A x \in A : x \in B
    BY <2>1, <2>2, <2>3
  <2>4. A \cup {v} \in SUBSET B /\ v \notin A
    BY <2>a, <2>b
  <2>5. IsFiniteSet(A) /\ IsFiniteSet(B) /\ Cardinality(A) \in Nat /\ Cardinality(B) \in Nat
    BY <1>2, <2>1, <2>2 DEF RankOf
  <2>6. Cardinality(A \cup {v}) = Cardinality(A) + 1
    BY <2>4, <2>5, FS_AddElement
  <2>7. Cardinality(A \cup {v}) <= Cardinality(B)
    BY <2>4, <2>5, FS_Subset
  <2>8. Cardinality(A) < Cardinality(B)
    BY <2>5, <2>6, <2>7
  <2> QED
    BY <2>1, <2>2, <2>8 DEF RankOf
<1>5. PICK f \in [S -> 0 .. n - 1] : \A v \in S : f[v] = RankOf(S, v)
  <2>1. ASSUME NEW v \in S PROVE RankOf(S, v) \in 0 .. n - 1
    <3>1. RankOf(S, v) \in Nat /\ RankOf(S, v) < n
      BY <1>2, <1>3
    <3> QED
      BY <1>1, <3>1
  <2>2. [v \in S |-> RankOf(S, v)] \in [S -> 0 .. n - 1]
    BY <2>1
  <2> QED
    BY <2>2
<1> DEFINE T == 0 .. n - 1
<1> HIDE DEF T
<1>6. ASSUME NEW v \in S, NEW w \in S, f[v] = f[w] PROVE v = w
  <2>1. v \in Nat /\ w \in Nat
    OBVIOUS
  <2>2. RankOf(S, v) = RankOf(S, w) /\ RankOf(S, v) \in Nat
    BY <1>2, <1>5, <1>6
  <2>3. ~ (v < w) /\ ~ (w < v)
    BY <1>4, <2>2
  <2> QED
    BY <2>1, <2>3
<1>7. f \in Injection(S, T)
  <2>1. f \in [S -> T]
    BY <1>5 DEF T
  <2>2. \A v, w \in S : f[v] = f[w] => v = w
    BY <1>6
  <2> QED
    BY <2>1, <2>2, Fun_IsInj
<1>8. IsFiniteSet(0 .. n - 1) /\ Cardinality(0 .. n - 1) = n
  <2>1. 0 \in Int /\ n - 1 \in Int /\ (0 > n - 1 => n = 0)
    BY <1>1
  <2>2. IsFiniteSet(0 .. n - 1) /\ Cardinality(0 .. n - 1) = IF 0 > n - 1 THEN 0 ELSE n - 1 - 0 + 1
    BY <2>1, FS_Interval
  <2> QED
    BY <1>1, <2>1, <2>2
<1>9. f \in Surjection(S, T)
  <2>1. IsFiniteSet(T) /\ Cardinality(S) = Cardinality(T)
    BY <1>1, <1>8 DEF T
  <2> QED
    BY <1>7, <2>1, FS_Injection
<1>10. \A i \in T : \E v \in S : f[v] = i
  BY <1>9 DEF Surjection
<1> QED
  BY <1>1, <1>2, <1>3, <1>4, <1>5, <1>10 DEF T

\* The values that members of C have, who has one, and who has less.
ValuesOf(C, c) == {c[n] : n \in C}
Having(C, c, v) == {n \in C : c[n] = v}
Below(C, c, v) == {n \in C : c[n] < v}
\* The sizes of the groups of equal values, the smallest value first.
SizesOf(C, c) ==
  [i \in 1 .. Cardinality(ValuesOf(C, c)) |->
     Cardinality(Having(C, c, CHOOSE v \in ValuesOf(C, c) : RankOf(ValuesOf(C, c), v) = i - 1))]

\* Every group is that of one value v[i], and sums over groups count members.
GroupsCounted(C, c, g) ==
  \E K \in Nat, v \in [1 .. Cardinality(ValuesOf(C, c)) -> ValuesOf(C, c)] :
    /\ K = Cardinality(ValuesOf(C, c))
    /\ g \in [1 .. K -> Nat]
    /\ \A i \in 1 .. K : g[i] = Cardinality(Having(C, c, v[i]))
    /\ \A u \in ValuesOf(C, c) : \E i \in 1 .. K : v[i] = u
    /\ \A I \in SUBSET (1 .. K) :
         SumOf(g, I) = Cardinality({n \in C : \E i \in I : c[n] = v[i]})
    /\ \A i \in 1 .. K : SumOf(g, 1 .. i - 1) = Cardinality(Below(C, c, v[i]))
    /\ SumOf(g, 1 .. K) = Cardinality(C)

\* By the order of the values, which are finitely many numbers.
LEMMA GroupsCount ==
  ASSUME NEW C, IsFiniteSet(C), NEW c, \A n \in C : c[n] \in Nat
  PROVE  GroupsCounted(C, c, SizesOf(C, c))
<1>1. PICK V : V = ValuesOf(C, c)
  OBVIOUS
<1>2. V \in SUBSET Nat /\ IsFiniteSet(V)
  <2>1. IsFiniteSet(V)
    <3> DEFINE f == [n \in C |-> c[n]]
    <3>1. f \in Surjection(C, V)
      BY <1>1 DEF Surjection, ValuesOf
    <3> HIDE DEF f
    <3> QED
      BY <3>1, FS_Surjection
  <2> QED
    BY <1>1, <2>1 DEF ValuesOf
<1>3. PICK K \in Nat : K = Cardinality(V)
  BY <1>2, FS_CardinalityType
<1>4. /\ \A v \in V : RankOf(V, v) \in 0 .. K - 1
      /\ \A v, w \in V : v < w => RankOf(V, v) < RankOf(V, w)
      /\ \A i \in 0 .. K - 1 : \E v \in V : RankOf(V, v) = i
  BY <1>2, <1>3, RanksOf
<1>5. PICK v \in [1 .. K -> V] : \A i \in 1 .. K :
        v[i] = CHOOSE x \in V : RankOf(V, x) = i - 1
  <2>1. ASSUME NEW i \in 1 .. K PROVE (CHOOSE x \in V : RankOf(V, x) = i - 1) \in V
    <3>1. i - 1 \in 0 .. K - 1
      BY <1>3
    <3>2. \E x \in V : RankOf(V, x) = i - 1
      BY <1>4, <3>1
    <3> QED
      BY <3>2
  <2>2. [i \in 1 .. K |-> CHOOSE x \in V : RankOf(V, x) = i - 1] \in [1 .. K -> V]
    BY <2>1
  <2> QED
    BY <2>2
<1>6. \A i \in 1 .. K : v[i] \in V /\ v[i] \in Nat /\ RankOf(V, v[i]) = i - 1
  <2> SUFFICES ASSUME NEW i \in 1 .. K PROVE v[i] \in V /\ v[i] \in Nat /\ RankOf(V, v[i]) = i - 1
    OBVIOUS
  <2>1. i - 1 \in 0 .. K - 1
    BY <1>3
  <2>2. \E x \in V : RankOf(V, x) = i - 1
    BY <1>4, <2>1
  <2> QED
    BY <1>2, <1>5, <2>2
<1>7. \A i, j \in 1 .. K : i < j <=> v[i] < v[j]
  <2> SUFFICES ASSUME NEW i \in 1 .. K, NEW j \in 1 .. K PROVE i < j <=> v[i] < v[j]
    OBVIOUS
  <2>1. v[i] < v[j] => i - 1 < j - 1
    BY <1>4, <1>6
  <2>2. v[j] < v[i] => j - 1 < i - 1
    BY <1>4, <1>6
  <2>3. v[i] = v[j] => i - 1 = j - 1
    BY <1>6
  <2>4. v[i] \in Nat /\ v[j] \in Nat /\ i \in Nat /\ j \in Nat
    BY <1>6
  <2> QED
    BY <2>1, <2>2, <2>3, <2>4
<1>8. \A u \in V : \E i \in 1 .. K : v[i] = u
  <2> SUFFICES ASSUME NEW u \in V PROVE \E i \in 1 .. K : v[i] = u
    OBVIOUS
  <2>1. PICK r \in 0 .. K - 1 : RankOf(V, u) = r
    BY <1>4
  <2>2. r + 1 \in 1 .. K /\ (r + 1) - 1 = r
    BY <1>3, <2>1
  <2>3. RankOf(V, v[r + 1]) = r /\ v[r + 1] \in V
    BY <1>6, <2>2
  <2>4. ~ (u < v[r + 1]) /\ ~ (v[r + 1] < u)
    <3>1. ~ (r < r)
      BY <2>1
    <3> QED
      BY <1>4, <2>1, <2>3, <3>1
  <2>5. u \in Nat /\ v[r + 1] \in Nat
    BY <1>2, <2>3
  <2> QED
    BY <2>2, <2>4, <2>5
<1>9. PICK g : g = SizesOf(C, c)
  OBVIOUS
<1>10. \A x : IsFiniteSet(Having(C, c, x)) /\ Cardinality(Having(C, c, x)) \in Nat
  <2>1. \A x : Having(C, c, x) \in SUBSET C
    BY DEF Having
  <2> QED
    BY <2>1, FS_Subset, FS_CardinalityType
<1>11. /\ g \in [1 .. K -> Nat]
       /\ \A i \in 1 .. K : g[i] = Cardinality(Having(C, c, v[i]))
  <2>1. g = [i \in 1 .. K |-> Cardinality(Having(C, c, CHOOSE x \in V : RankOf(V, x) = i - 1))]
    BY <1>1, <1>3, <1>9 DEF SizesOf
  <2> QED
    BY <1>5, <1>10, <2>1
<1>12. ASSUME NEW I \in SUBSET (1 .. K)
       PROVE  SumOf(g, I) = Cardinality({n \in C : \E i \in I : c[n] = v[i]})
  <2>0. PICK G : \A i \in I : G[i] = Having(C, c, v[i])
    <3>1. \A i \in I : [j \in 1 .. K |-> Having(C, c, v[j])][i] = Having(C, c, v[i])
      OBVIOUS
    <3> QED
      BY <3>1
  <2>1. IsFiniteSet(I)
    <3>1. IsFiniteSet(1 .. K)
      BY <1>3, FS_Interval
    <3> QED
      BY <3>1, FS_Subset
  <2>2. \A i \in I : IsFiniteSet(G[i]) /\ g[i] = Cardinality(G[i])
    BY <1>10, <1>11, <2>0
  <2>3. \A i, j \in I : i # j => G[i] \cap G[j] = {}
    <3> SUFFICES ASSUME NEW i \in I, NEW j \in I, i # j PROVE G[i] \cap G[j] = {}
      OBVIOUS
    <3>1. i < j \/ j < i
      OBVIOUS
    <3>2. v[i] < v[j] \/ v[j] < v[i]
      BY <1>7, <3>1
    <3>3. v[i] # v[j]
      BY <1>6, <3>2
    <3>4. G[i] = {n \in C : c[n] = v[i]} /\ G[j] = {n \in C : c[n] = v[j]}
      BY <2>0 DEF Having
    <3> QED
      BY <3>3, <3>4
  <2>4. Gathered(G, I) = {n \in C : \E i \in I : c[n] = v[i]}
    BY <2>0 DEF Having, Gathered
  <2>5. SumOf(g, I) = Cardinality(Gathered(G, I))
    <3>1. Counts(g, G, I)
      BY <2>2, <2>3 DEF Counts
    <3> QED
      BY <2>1, <3>1, SumFibres
  <2> QED
    BY <2>4, <2>5
<1>13. ASSUME NEW k \in 1 .. K
       PROVE  SumOf(g, 1 .. k - 1) = Cardinality(Below(C, c, v[k]))
  <2>1. 1 .. k - 1 \in SUBSET (1 .. K)
    BY <1>3
  <2>2. ASSUME NEW n \in C PROVE (\E i \in 1 .. k - 1 : c[n] = v[i]) <=> c[n] < v[k]
    <3>1. PICK i \in 1 .. K : c[n] = v[i]
      BY <1>1, <1>8 DEF ValuesOf
    <3>2. ASSUME NEW j \in 1 .. K, c[n] = v[j] PROVE j = i
      <4>1. ~ (i < j) /\ ~ (j < i)
        <5>1. ~ (v[i] < v[j]) /\ ~ (v[j] < v[i])
          BY <1>6, <3>1, <3>2
        <5> QED
          BY <1>7, <5>1
      <4> QED
        BY <4>1
    <3>3. i < k <=> c[n] < v[k]
      BY <1>7, <3>1
    <3>4. i < k <=> i \in 1 .. k - 1
      OBVIOUS
    <3> QED
      BY <2>1, <3>1, <3>2, <3>3, <3>4
  <2>3. {n \in C : \E i \in 1 .. k - 1 : c[n] = v[i]} = Below(C, c, v[k])
    BY <2>2 DEF Below
  <2> QED
    BY <1>12, <2>1, <2>3
<1>14. SumOf(g, 1 .. K) = Cardinality(C)
  <2>1. {n \in C : \E i \in 1 .. K : c[n] = v[i]} = C
    BY <1>1, <1>8 DEF ValuesOf
  <2> QED
    BY <1>12, <2>1
<1> QED
  BY <1>1, <1>3, <1>5, <1>8, <1>9, <1>11, <1>12, <1>13, <1>14 DEF GroupsCounted

-----------------------------------------------------------------------------
(***************************************************************************)
(* The standing of nodes: what the five queries read, and the answer       *)
(* made of it.                                                             *)
(***************************************************************************)
Day == {"none", "clean", "failed"}

\* The handler counts with the same operators.
LEMMA HonorOperators ==
  /\ \A S : Honors!Cardinality(S) = Cardinality(S)
  /\ \A f, S : Honors!SumOf(f, S) = SumOf(f, S)
<1>1. \A S : Honors!Cardinality(S) = Cardinality(S)
  BY DEF Honors!Cardinality, Cardinality
<1>2. \A f, S : Honors!SumOf(f, S) = SumOf(f, S)
  BY DEF SumOf, MapThenSumSet, MapThenFoldSet, Honors!SumOf, Honors!MapThenSumSet,
     Honors!MapThenFoldSet
<1> QED
  BY <1>1, <1>2

\* A published count is none, or a multiple that reaches the threshold.
LEMMA QuantizedCount ==
  ASSUME NEW x \in Nat
  PROVE  /\ Honors!Quantized(x) \in Nat /\ Honors!Quantized(x) <= x
         /\ Honors!Quantized(x) # 0 =>
              Honors!Quantized(x) >= Threshold /\ Honors!Quantized(x) % Granularity = 0
         /\ \A y \in Nat : x <= y => Honors!Quantized(x) <= Honors!Quantized(y)
<1>1. Threshold \in Nat /\ Granularity \in Nat \ {0}
  BY HonorAssumption
<1> DEFINE bound(z) == (z \div Granularity) * Granularity
<1>2. ASSUME NEW z \in Nat PROVE bound(z) \in Nat /\ bound(z) <= z /\ bound(z) % Granularity = 0
  <2>1. z \div Granularity \in Nat /\ bound(z) <= z
    BY <1>1
  <2>2. \A k \in Nat : (k * Granularity) % Granularity = 0 /\ k * Granularity \in Nat
    BY <1>1
  <2> QED
    BY <2>1, <2>2
<1>3. ASSUME NEW z \in Nat, NEW y \in Nat, z <= y PROVE bound(z) <= bound(y)
  <2>1. z \div Granularity \in Nat /\ y \div Granularity \in Nat
        /\ z \div Granularity <= y \div Granularity
    BY <1>1, <1>3
  <2>2. \A a, b \in Nat : a <= b => a * Granularity <= b * Granularity
    BY <1>1
  <2> QED
    BY <2>1, <2>2
<1>4. \A z \in Nat : Honors!Quantized(z) = IF bound(z) >= Threshold THEN bound(z) ELSE 0
  BY DEF Honors!Quantized
<1> HIDE DEF bound
<1>5. ASSUME NEW y \in Nat, x <= y PROVE Honors!Quantized(x) <= Honors!Quantized(y)
  <2>1. bound(x) <= bound(y) /\ bound(x) \in Nat /\ bound(y) \in Nat
    BY <1>2, <1>3, <1>5
  <2> QED
    BY <1>1, <1>4, <2>1
<1> QED
  BY <1>1, <1>2, <1>4, <1>5

\* Who belongs to a band belongs to the wider ones.
LEMMA BandsNested ==
  ASSUME NEW r, r.num \in Int, r.den \in Nat, NEW p \in Honors!Bands, NEW q \in Honors!Bands, p <= q,
         Honors!InBand(r, p)
  PROVE  Honors!InBand(r, q)
<1> DEFINE n == r.num
           d == r.den
<1>1. n * 100 >= d * (100 - p) /\ n \in Int /\ d \in Nat
  BY DEF Honors!InBand
<1>2. p \in {1, 5, 10, 25, 50} /\ q \in {1, 5, 10, 25, 50}
  BY DEF Honors!Bands
<1> HIDE DEF n, d
<1>3. 100 - p \in Nat /\ 100 - q \in Nat /\ 100 - q <= 100 - p
  BY <1>2
<1>4. \A a, b \in Nat : b <= a => d * b <= d * a /\ d * a \in Nat /\ d * b \in Nat
  BY <1>1
<1>5. n * 100 >= d * (100 - q)
  BY <1>1, <1>3, <1>4
<1> QED
  BY <1>5 DEF n, d, Honors!InBand

\* The numbers of a midrank, and that it is a share.
LEMMA MidrankShare ==
  ASSUME NEW cohort \in Nat, NEW lower \in Nat, NEW tied \in Nat, tied >= 1,
         lower + tied <= cohort
  PROVE  LET r == Honors!MidrankPercentile(cohort, lower, tied) IN
         r.num \in Nat /\ r.den \in Nat /\ r.num <= r.den
<1>1. CASE cohort = 1
  BY <1>1 DEF Honors!MidrankPercentile
<1>2. CASE cohort # 1
  <2>1. 2 * lower + tied - 1 \in Nat /\ 2 * (cohort - 1) \in Nat /\ 2 * lower + tied - 1 <= 2 * (cohort - 1)
    OBVIOUS
  <2> QED
    BY <1>2, <2>1 DEF Honors!MidrankPercentile
<1> QED
  BY <1>1, <1>2

\* The milestones lie around the value.
LEMMA MilestonesAround ==
  ASSUME NEW c \in 0 .. MaxContribution, Honors!ContributionMilestones(c) # Honors!NoValue
  PROVE  LET m == Honors!ContributionMilestones(c)[1] IN m.previous <= c /\ c < m.next
<1>0. /\ IsFiniteSet(Milestone) /\ Milestone \subseteq Nat /\ MaxContribution \in Nat
      /\ \E m \in Milestone : m > MaxContribution
  BY HonorAssumption
<1>1. PICK above : above = {m \in Milestone : m > c}
  OBVIOUS
<1>2. PICK below : below = {0} \cup {m \in Milestone : m <= c}
  OBVIOUS
<1>3. Honors!Min(above) \in above
  <2>0. PICK far \in Milestone : far > MaxContribution
    BY <1>0
  <2>a. far \in Nat /\ c \in Nat /\ c <= MaxContribution /\ far > c
    BY <1>0, <2>0
  <2>1. above \in SUBSET Nat /\ far \in above
    BY <1>0, <1>1, <2>a
  <2>2. \E m \in above : \A k \in above : m <= k
    BY <2>1, LeastNumber
  <2> QED
    BY <2>2 DEF Honors!Min
<1>4. Honors!Max(below) \in below
  <2>1. below \in SUBSET Nat /\ 0 \in below
    <3>1. {m \in Milestone : m <= c} \in SUBSET Nat
      BY <1>0
    <3> QED
      BY <1>2, <3>1
  <2>2. IsFiniteSet(below)
    <3>1. IsFiniteSet({0}) /\ IsFiniteSet({m \in Milestone : m <= c})
      BY <1>0, FS_Subset, FS_Singleton
    <3> QED
      BY <1>2, <3>1, FS_Union
  <2> DEFINE f == [k \in below |-> k]
  <2>3. \A k \in below : f[k] = k /\ f[k] \in Int
    BY <2>1
  <2> HIDE DEF f
  <2>4. PICK m \in below : \A k \in below : f[k] <= f[m]
    BY <2>1, <2>2, <2>3, GreatestValue
  <2>5. \A k \in below : m >= k
    BY <2>1, <2>3, <2>4
  <2> QED
    BY <2>5 DEF Honors!Max
<1>5. Honors!ContributionMilestones(c) = <<[previous |-> Honors!Max(below), next |-> Honors!Min(above)]>>
  BY <1>1, <1>2 DEF Honors!ContributionMilestones
<1>6. Honors!Max(below) <= c /\ c < Honors!Min(above)
  BY <1>0, <1>1, <1>2, <1>3, <1>4
<1> QED
  BY <1>5, <1>6

\* A long streak is one of the last days, whichever of them today is.
LongOf(days) ==
  LET first == IF days[1] # "none" THEN 1 ELSE 2
  IN \A i \in first .. first + LongStreak - 1 : days[i] = "clean"

\* What the streak computed says.
LEMMA LongStreaks ==
  ASSUME NEW days \in Seq(Day), Len(days) > LongStreak
  PROVE  LET streak == Honors!ZeroFailureStreak(days)
         IN (streak # Honors!NoValue /\ streak[1] >= LongStreak) <=> LongOf(days)
<1>1. LongStreak \in Nat \ {0} /\ Len(days) \in Nat /\ DOMAIN days = 1 .. Len(days)
  BY HonorAssumption
<1>2. PICK first \in 1 .. 2 : first = IF days[1] # "none" THEN 1 ELSE 2
  OBVIOUS
<1>3. PICK clean : clean = {k \in 0 .. Len(days) : first + k - 1 <= Len(days) /\
                              \A i \in first .. first + k - 1 : days[i] = "clean"}
  OBVIOUS
<1>4. Honors!ZeroFailureStreak(days)
        = IF \A i \in DOMAIN days : days[i] = "none" THEN Honors!NoValue ELSE <<Honors!Max(clean)>>
  BY <1>2, <1>3 DEF Honors!ZeroFailureStreak
<1>5. clean \in SUBSET Nat /\ IsFiniteSet(clean) /\ 0 \in clean
  <2>1. clean \in SUBSET (0 .. Len(days))
    BY <1>3
  <2>2. IsFiniteSet(0 .. Len(days))
    BY <1>1, FS_Interval
  <2>3. 0 \in clean
    <3>1. first + 0 - 1 <= Len(days) /\ first .. first + 0 - 1 = {} /\ 0 \in 0 .. Len(days)
      BY <1>1
    <3> QED
      BY <1>3, <3>1
  <2>4. 0 .. Len(days) \in SUBSET Nat
    BY <1>1
  <2> QED
    BY <2>1, <2>2, <2>3, <2>4, FS_Subset
<1>6. Honors!Max(clean) \in clean /\ \A k \in clean : Honors!Max(clean) >= k
  <2> DEFINE f == [k \in clean |-> k]
  <2>3. \A k \in clean : f[k] = k /\ f[k] \in Int
    BY <1>5
  <2> HIDE DEF f
  <2>4. PICK m \in clean : \A k \in clean : f[k] <= f[m]
    BY <1>5, <2>3, GreatestValue
  <2>5. \A k \in clean : m >= k
    BY <1>5, <2>3, <2>4
  <2> QED
    BY <2>5 DEF Honors!Max
<1>7. LongStreak \in clean <=> LongOf(days)
  <2>1. first + LongStreak - 1 <= Len(days) /\ LongStreak \in 0 .. Len(days)
    BY <1>1
  <2> QED
    BY <1>2, <1>3, <2>1 DEF LongOf
<1>8. Honors!Max(clean) >= LongStreak => LongStreak \in clean
  <2> SUFFICES ASSUME NEW m \in clean, m >= LongStreak PROVE LongStreak \in clean
    BY <1>6
  <2>1. \A i \in first .. first + LongStreak - 1 : days[i] = "clean"
    <3>1. \A i \in first .. first + LongStreak - 1 : i \in first .. first + m - 1
      BY <1>1, <1>5
    <3> QED
      BY <1>3, <3>1
  <2>2. first + LongStreak - 1 <= Len(days) /\ LongStreak \in 0 .. Len(days)
    BY <1>1
  <2> QED
    BY <1>3, <2>1, <2>2
<1>9. LongOf(days) => ~ \A i \in DOMAIN days : days[i] = "none"
  <2>1. first \in DOMAIN days /\ first \in first .. first + LongStreak - 1
    BY <1>1
  <2> QED
    BY <1>2, <2>1 DEF LongOf
<1>10. <<Honors!Max(clean)>> # Honors!NoValue /\ <<Honors!Max(clean)>>[1] = Honors!Max(clean)
  BY DEF Honors!NoValue
<1>11. LongOf(days) => Honors!Max(clean) >= LongStreak
  BY <1>6, <1>7
<1> QED
  BY <1>4, <1>7, <1>8, <1>9, <1>10, <1>11

\* The window the network's query reads is long enough for a long streak.
LEMMA WindowLong ==
  ASSUME NEW days \in Seq(Day), Len(days) > LongStreak
  PROVE  /\ Honors!Window(days) \in Seq(Day) /\ Len(Honors!Window(days)) > LongStreak
         /\ LongOf(Honors!Window(days)) <=> LongOf(days)
<1>1. LongStreak \in Nat \ {0} /\ Len(days) \in Nat
  BY HonorAssumption
<1>2. PICK w : w = SubSeq(days, 1, LongStreak + 1)
  OBVIOUS
<1>3. w \in Seq(Day) /\ Len(w) = LongStreak + 1 /\ \A i \in 1 .. LongStreak + 1 : w[i] = days[i]
  BY <1>1, <1>2, SubSeqProperties
<1>4. w[1] = days[1]
  BY <1>1, <1>3
<1>5. LongOf(w) <=> LongOf(days)
  <2>1. PICK first \in 1 .. 2 : first = IF days[1] # "none" THEN 1 ELSE 2
    OBVIOUS
  <2>2. \A i \in first .. first + LongStreak - 1 : w[i] = days[i]
    <3>1. \A i \in first .. first + LongStreak - 1 : i \in 1 .. LongStreak + 1
      BY <1>1
    <3> QED
      BY <1>3, <3>1
  <2> QED
    BY <1>4, <2>1, <2>2 DEF LongOf
<1>6. Len(w) > LongStreak
  BY <1>1, <1>3
<1> QED
  BY <1>2, <1>3, <1>5, <1>6 DEF Honors!Window

\* A board is one the command line accepts, and its bands are nested.
BoardFine(b) ==
  /\ Honors!LeaderboardShown(b)
  /\ \A p, q \in Honors!Bands : p <= q => b.bands[p] <= b.bands[q]
  /\ \A p \in Honors!Bands : b.bands[p] <= b.contributor

\* Whatever was read, a board that is made is fine.
LEMMA BoardsFine ==
  ASSUME NEW cohort \in Nat, NEW K \in Nat, NEW g \in [1 .. K -> Nat], NEW zero \in Nat,
         NEW b, b = Honors!NetworkHonorLeaderboard(cohort, g, zero), b # Honors!NoValue
  PROVE  BoardFine(b[1]) /\ (b[1].suppressed <=> cohort < Threshold) /\ b[1].suppressed \in BOOLEAN
<1>1. Threshold \in Nat \ {0} /\ Granularity \in Nat \ {0}
  BY HonorAssumption
<1>2. CASE cohort < Threshold
  <2>1. b[1] = [suppressed |-> TRUE, cohort |-> 0, bands |-> [p \in Honors!Bands |-> 0],
                contributor |-> 0, zero_failure |-> 0]
    BY <1>2 DEF Honors!NetworkHonorLeaderboard, Honors!Suppressed
  <2> QED
    BY <1>2, <2>1 DEF BoardFine, Honors!LeaderboardShown
<1>3. CASE ~ (cohort < Threshold)
  <2>1. PICK r : \A i \in 1 .. K :
          r[i] = Honors!MidrankPercentile(cohort, Honors!Before(g, i), g[i])
    <3>1. \A i \in 1 .. K :
            [j \in 1 .. K |-> Honors!MidrankPercentile(cohort, Honors!Before(g, j), g[j])][i]
              = Honors!MidrankPercentile(cohort, Honors!Before(g, i), g[i])
      OBVIOUS
    <3> QED
      BY <3>1
  <2>2. PICK In : \A p \in Honors!Bands : In[p] = {i \in 1 .. K : Honors!InBand(r[i], p)}
    <3>1. \A p \in Honors!Bands :
            [q \in Honors!Bands |-> {i \in 1 .. K : Honors!InBand(r[i], q)}][p]
              = {i \in 1 .. K : Honors!InBand(r[i], p)}
      OBVIOUS
    <3> QED
      BY <3>1
  <2>3. \A i \in 1 .. K : r[i].num \in Int /\ r[i].den \in Nat
    <3> SUFFICES ASSUME NEW i \in 1 .. K PROVE r[i].num \in Int /\ r[i].den \in Nat
      OBVIOUS
    <3>1. IsFiniteSet(1 .. K) /\ 1 .. i - 1 \in SUBSET (1 .. K)
      BY FS_Interval
    <3>2. SumOf(g, 1 .. i - 1) \in Nat
      BY <3>1, SumMonotone
    <3>3. Honors!Before(g, i) \in Nat
      BY <3>2, HonorOperators DEF Honors!Before
    <3>4. cohort - 1 \in Nat
      BY <1>1, <1>3
    <3> DEFINE before == Honors!Before(g, i)
    <3> HIDE DEF before
    <3>5. 2 * before + g[i] - 1 \in Int /\ 2 * (cohort - 1) \in Nat
      BY <3>3, <3>4 DEF before
    <3>6. r[i] = IF cohort = 1 THEN [num |-> 1, den |-> 2]
                 ELSE [num |-> 2 * before + g[i] - 1, den |-> 2 * (cohort - 1)]
      BY <2>1 DEF before, Honors!MidrankPercentile
    <3> QED
      BY <3>5, <3>6
  <2>4. \A p, q \in Honors!Bands : p <= q => In[p] \in SUBSET In[q]
    BY <2>2, <2>3, BandsNested
  <2>5. PICK sum : \A p \in Honors!Bands : sum[p] = SumOf(g, In[p])
    <3>1. \A p \in Honors!Bands : [q \in Honors!Bands |-> SumOf(g, In[q])][p] = SumOf(g, In[p])
      OBVIOUS
    <3> QED
      BY <3>1
  <2>6. SumOf(g, 1 .. K) = cohort /\ zero <= cohort
    <3>1. DOMAIN g = 1 .. K /\ Len(g) = K
      OBVIOUS
    <3>2. 1 .. K + 1 - 1 = 1 .. K
      OBVIOUS
    <3>3. Honors!Before(g, Len(g) + 1) = cohort /\ ~ (zero > cohort)
      BY DEF Honors!NetworkHonorLeaderboard
    <3> QED
      BY <3>1, <3>2, <3>3, HonorOperators DEF Honors!Before
  <2>7. IsFiniteSet(1 .. K) /\ \A p \in Honors!Bands : In[p] \in SUBSET (1 .. K) /\ IsFiniteSet(In[p])
    <3>1. IsFiniteSet(1 .. K)
      BY FS_Interval
    <3>2. \A p \in Honors!Bands : In[p] \in SUBSET (1 .. K)
      BY <2>2
    <3> QED
      BY <3>1, <3>2, FS_Subset
  <2>8. ASSUME NEW p \in Honors!Bands PROVE sum[p] \in Nat /\ sum[p] <= cohort
    <3>1. SumOf(g, In[p]) <= SumOf(g, 1 .. K) /\ SumOf(g, In[p]) \in Nat
      BY <2>7, SumMonotone
    <3> QED
      BY <2>5, <2>6, <3>1
  <2>9. ASSUME NEW p \in Honors!Bands, NEW q \in Honors!Bands, p <= q PROVE sum[p] <= sum[q]
    <3>1. In[p] \in SUBSET In[q] /\ IsFiniteSet(In[q]) /\ \A x \in In[q] : g[x] \in Nat
      BY <2>4, <2>7, <2>9
    <3>2. SumOf(g, In[p]) <= SumOf(g, In[q])
      BY <3>1, SumMonotone
    <3> QED
      BY <2>5, <3>2
  <2>10. ASSUME NEW p \in Honors!Bands PROVE Honors!TopRankedNodes(cohort, g, p) = sum[p]
    <3>1. {i \in DOMAIN g : Honors!InBand(Honors!MidrankPercentile(cohort, Honors!Before(g, i), g[i]), p)}
            = In[p]
      BY <2>1, <2>2
    <3> QED
      BY <2>5, <3>1, HonorOperators DEF Honors!TopRankedNodes
  <2>11. b[1] = [suppressed |-> FALSE, cohort |-> cohort,
                 bands |-> [p \in Honors!Bands |-> Honors!Quantized(Honors!TopRankedNodes(cohort, g, p))],
                 contributor |-> Honors!Quantized(cohort), zero_failure |-> Honors!Quantized(zero)]
    BY <1>3 DEF Honors!NetworkHonorLeaderboard
  <2> DEFINE board == b[1]
  <2>12. \A p \in Honors!Bands : board.bands[p] = Honors!Quantized(sum[p])
    BY <2>10, <2>11
  <2>13. /\ board.suppressed = FALSE /\ board.cohort = cohort
         /\ board.contributor = Honors!Quantized(cohort) /\ board.zero_failure = Honors!Quantized(zero)
    BY <2>11
  <2> HIDE DEF board
  <2>14. ASSUME NEW e \in {board.bands[p] : p \in Honors!Bands} \cup {board.contributor, board.zero_failure},
                e # 0
         PROVE  e >= Threshold /\ e <= board.cohort /\ e % Granularity = 0
    <3>1. PICK x \in Nat : x <= cohort /\ e = Honors!Quantized(x)
      BY <2>6, <2>8, <2>12, <2>13
    <3>2. Honors!Quantized(x) \in Nat /\ Honors!Quantized(x) <= x
          /\ Honors!Quantized(x) >= Threshold /\ Honors!Quantized(x) % Granularity = 0
      BY <2>14, <3>1, QuantizedCount
    <3> QED
      BY <2>13, <3>1, <3>2
  <2>15. Honors!LeaderboardShown(board)
    BY <1>1, <1>3, <2>13, <2>14 DEF Honors!LeaderboardShown
  <2>16. \A p, q \in Honors!Bands : p <= q => board.bands[p] <= board.bands[q]
    BY <2>8, <2>9, <2>12, QuantizedCount
  <2>17. \A p \in Honors!Bands : board.bands[p] <= board.contributor
    BY <2>8, <2>12, <2>13, QuantizedCount
  <2>18. BoardFine(board)
    BY <2>15, <2>16, <2>17 DEF BoardFine
  <2> QED
    BY <1>3, <2>13, <2>18 DEF board
<1> QED
  BY <1>2, <1>3

\* The groups of ties give every contributor its midrank.
LEMMA BoardExact ==
  ASSUME contribution \in [HonorNode -> 0 .. MaxContribution]
  PROVE  /\ IsFiniteSet(Honors!Cohort) /\ Cardinality(Honors!Cohort) \in Nat
         /\ \E K \in Nat : Honors!TieGroups \in [1 .. K -> Nat]
         /\ Honors!Before(Honors!TieGroups, Len(Honors!TieGroups) + 1) = Cardinality(Honors!Cohort)
         /\ \A p \in Honors!Bands :
              Honors!TopRankedNodes(Cardinality(Honors!Cohort), Honors!TieGroups, p)
                = Honors!Reference(p)
<1> DEFINE C == Honors!Cohort
<1>2. IsFiniteSet(C) /\ Cardinality(C) \in Nat
  <2>1. C \in SUBSET HonorNode
    BY DEF Honors!Cohort
  <2> QED
    BY <2>1, HonorAssumption, FS_Subset, FS_CardinalityType
<1>3. \A n \in C : contribution[n] \in Nat
  BY DEF Honors!Cohort
<1>4. PICK g : g = SizesOf(C, contribution)
  OBVIOUS
<1>5. \A x : Honors!Tied(x) = Cardinality(Having(C, contribution, x))
             /\ Honors!Lower(x) = Cardinality(Below(C, contribution, x))
  BY HonorOperators DEF Honors!Tied, Honors!Lower, Having, Below
<1>6. Honors!TieGroups = g
  <2>1. Honors!TieGroups =
          [i \in 1 .. Cardinality(ValuesOf(C, contribution)) |->
             Honors!Tied(CHOOSE v \in ValuesOf(C, contribution) :
               RankOf(ValuesOf(C, contribution), v) = i - 1)]
    BY DEF Honors!TieGroups, ValuesOf, RankOf, Honors!Cardinality, Cardinality
  <2> HIDE DEF C
  <2> QED
    BY <1>4, <1>5, <2>1 DEF SizesOf
<1>1. C = Honors!Cohort
  OBVIOUS
<1> HIDE DEF C
<1>7. PICK K \in Nat, v \in [1 .. Cardinality(ValuesOf(C, contribution)) -> ValuesOf(C, contribution)] :
           /\ K = Cardinality(ValuesOf(C, contribution))
           /\ g \in [1 .. K -> Nat]
           /\ \A i \in 1 .. K : g[i] = Cardinality(Having(C, contribution, v[i]))
           /\ \A u \in ValuesOf(C, contribution) : \E i \in 1 .. K : v[i] = u
           /\ \A I \in SUBSET (1 .. K) :
                SumOf(g, I) = Cardinality({n \in C : \E i \in I : contribution[n] = v[i]})
           /\ \A i \in 1 .. K :
                SumOf(g, 1 .. i - 1) = Cardinality(Below(C, contribution, v[i]))
           /\ SumOf(g, 1 .. K) = Cardinality(C)
  <2>1. GroupsCounted(C, contribution, g)
    BY <1>2, <1>3, <1>4, GroupsCount
  <2> QED
    BY <2>1 DEF GroupsCounted
<1>8. Honors!Before(g, Len(g) + 1) = Cardinality(C)
  <2>1. Len(g) = K /\ 1 .. K + 1 - 1 = 1 .. K
    BY <1>7
  <2> QED
    BY <1>7, <2>1, HonorOperators DEF Honors!Before
<1>9. ASSUME NEW p \in Honors!Bands
      PROVE  Honors!TopRankedNodes(Cardinality(C), g, p) = Honors!Reference(p)
  <2> DEFINE Fits(x) == Honors!InBand(Honors!MidrankPercentile(Cardinality(C), Honors!Lower(x), Honors!Tied(x)), p)
             I == {i \in 1 .. K : Fits(v[i])}
  <2>1. {i \in DOMAIN g : Honors!InBand(Honors!MidrankPercentile(Cardinality(C), Honors!Before(g, i), g[i]), p)} = I
    <3>1. DOMAIN g = 1 .. K
      BY <1>7
    <3>2. \A i \in 1 .. K : Honors!Before(g, i) = Honors!Lower(v[i]) /\ g[i] = Honors!Tied(v[i])
      BY <1>5, <1>7, HonorOperators DEF Honors!Before
    <3> QED
      BY <3>1, <3>2
  <2>2. Honors!TopRankedNodes(Cardinality(C), g, p) = SumOf(g, I)
    BY <2>1, HonorOperators DEF Honors!TopRankedNodes
  <2>3. I \in SUBSET (1 .. K)
    OBVIOUS
  <2>4. {n \in C : \E i \in I : contribution[n] = v[i]} = {n \in C : Fits(contribution[n])}
    <3> HIDE DEF Fits
    <3>1. \A n \in C : \E i \in 1 .. K : contribution[n] = v[i]
      BY <1>7 DEF ValuesOf
    <3> QED
      BY <3>1
  <2>5. Honors!Reference(p) = Cardinality({n \in C : Fits(contribution[n])})
    BY <1>1, HonorOperators DEF Honors!Reference
  <2> HIDE DEF I, Fits
  <2> QED
    BY <1>7, <2>2, <2>3, <2>4, <2>5
<1> QED
  BY <1>1, <1>2, <1>6, <1>7, <1>8, <1>9

\* What the queries of a node's standing may find.
HonorTables ==
  /\ contribution \in [HonorNode -> 0 .. MaxContribution]
  /\ daily \in [HonorNode -> Seq(Day)]
  /\ \A n \in HonorNode : Len(daily[n]) > LongStreak
  /\ commits \in Nat
\* What they have read: a percentile is a share, shown of a large cohort only.
ViewRead ==
  /\ view = [own |-> view.own, cohort |-> view.cohort, percentile |-> view.percentile,
             groups |-> view.groups, streak |-> view.streak]
  /\ view.own \in 0 .. MaxContribution /\ view.cohort \in Nat
  /\ \E K \in Nat : view.groups \in [1 .. K -> Nat]
  /\ view.percentile # Honors!NoValue =>
       /\ view.percentile[1].num <= view.percentile[1].den
       /\ view.cohort >= Threshold
\* Without a commit, what was read still is.
QuietView ==
  commits = 0 =>
    /\ asking # "failed"
    /\ asking # "node" => view.own = contribution[Asked]
    /\ asking \in {"ties", "daily", "zero"} => view.cohort = Cardinality(Honors!Cohort)
    /\ asking \in {"daily", "zero"} => view.groups = Honors!TieGroups
HonorInv ==
  /\ HonorTables /\ ViewRead /\ QuietView
  /\ honor # Honors!NoValue => asking = "answered"
  /\ Honors!AnswersConsistent /\ Honors!QuietAnswersExact

\* As long as there is no answer both properties hold.
LEMMA NoAnswerYet ==
  ASSUME honor = Honors!NoValue, commits = 0 => asking # "failed"
  PROVE  Honors!AnswersConsistent /\ Honors!QuietAnswersExact
  BY DEF Honors!AnswersConsistent, Honors!QuietAnswersExact, Honors!Quiet

\* Nothing is read at first.
LEMMA HonorsInit == Honors!Init => HonorInv
<1> SUFFICES ASSUME Honors!Init PROVE HonorInv
  OBVIOUS
<1>1. HonorTables
  BY HonorAssumption DEF HonorTables, Honors!Init, Day
<1>2. ViewRead
  <2>1. view = [own |-> 0, cohort |-> 0, percentile |-> Honors!NoValue, groups |-> <<>>,
               streak |-> Honors!NoValue]
    BY DEF Honors!Init
  <2>2. /\ view.own = 0 /\ view.cohort = 0 /\ view.percentile = Honors!NoValue
        /\ view.groups = <<>> /\ view.streak = Honors!NoValue
    BY <2>1
  <2>3. <<>> \in [1 .. 0 -> Nat] /\ 0 \in Nat /\ 0 \in 0 .. MaxContribution
    BY HonorAssumption
  <2>4. view = [own |-> view.own, cohort |-> view.cohort, percentile |-> view.percentile,
               groups |-> view.groups, streak |-> view.streak]
    BY <2>1
  <2> QED
    BY <2>2, <2>3, <2>4 DEF ViewRead
<1>3. honor = Honors!NoValue /\ asking = "node"
  BY DEF Honors!Init
<1> QED
  BY <1>1, <1>2, <1>3, NoAnswerYet DEF HonorInv, QuietView

\* A commit among the queries leaves the history as long as it was.
LEMMA HonorsCommit ==
  ASSUME HonorInv, Honors!Committing, UNCHANGED <<asking, view, honor>>,
         contribution' \in [HonorNode -> 0 .. MaxContribution],
         daily' \in [HonorNode -> Seq(Day)], \A n \in HonorNode : Len(daily'[n]) = Len(daily[n])
  PROVE  HonorInv'
<1>1. commits' \in Nat /\ commits' # 0
  BY DEF HonorInv, HonorTables, Honors!Committing
<1>2. HonorTables'
  BY <1>1 DEF HonorInv, HonorTables
<1>3. ViewRead'
  BY DEF HonorInv, ViewRead
<1>4. honor' = Honors!NoValue
  BY DEF HonorInv, Honors!Committing
<1> QED
  BY <1>1, <1>2, <1>3, <1>4 DEF HonorInv, QuietView, Honors!AnswersConsistent,
     Honors!QuietAnswersExact, Honors!Quiet

\* Settlements, failures and midnight among the queries.
LEMMA HonorsCommits ==
  ASSUME HonorInv, Honors!DayPasses
                   \/ \E n \in HonorNode : Honors!AttemptFails(n) \/ \E gain \in Gain : Honors!JobSettles(n, gain)
  PROVE  HonorInv'
<1>1. /\ contribution \in [HonorNode -> 0 .. MaxContribution] /\ daily \in [HonorNode -> Seq(Day)]
      /\ \A n \in HonorNode : Len(daily[n]) \in Nat /\ Len(daily[n]) >= 1
                               /\ DOMAIN daily[n] = 1 .. Len(daily[n])
  BY HonorAssumption DEF HonorInv, HonorTables
<1>2. ASSUME NEW n \in HonorNode, NEW v \in Day, daily' = [daily EXCEPT ![n][1] = v]
      PROVE  daily' \in [HonorNode -> Seq(Day)] /\ \A m \in HonorNode : Len(daily'[m]) = Len(daily[m])
  <2>1. daily[n] \in Seq(Day) /\ 1 \in 1 .. Len(daily[n])
    BY <1>1
  <2>2. [daily[n] EXCEPT ![1] = v] \in Seq(Day) /\ Len([daily[n] EXCEPT ![1] = v]) = Len(daily[n])
    BY <2>1, ExceptSeq
  <2> DEFINE days == [daily[n] EXCEPT ![1] = v]
  <2>3. daily' = [daily EXCEPT ![n] = days]
    BY <1>2
  <2> HIDE DEF days
  <2>4. days \in Seq(Day) /\ Len(days) = Len(daily[n])
    BY <2>2 DEF days
  <2> QED
    BY <1>1, <2>3, <2>4
<1>3. CASE Honors!DayPasses
  <2>1. ASSUME NEW n \in HonorNode
        PROVE  /\ <<"none">> \o SubSeq(daily[n], 1, Len(daily[n]) - 1) \in Seq(Day)
               /\ Len(<<"none">> \o SubSeq(daily[n], 1, Len(daily[n]) - 1)) = Len(daily[n])
    <3> DEFINE rest == SubSeq(daily[n], 1, Len(daily[n]) - 1)
    <3>1. rest \in Seq(Day) /\ Len(rest) = Len(daily[n]) - 1
      <4>1. \A i \in 1 .. Len(daily[n]) - 1 : daily[n][i] \in Day
        BY <1>1
      <4>2. 1 \in Int /\ Len(daily[n]) - 1 \in Int
        BY <1>1
      <4>3. /\ rest \in Seq(Day)
            /\ Len(rest) = IF 1 <= Len(daily[n]) - 1 THEN Len(daily[n]) - 1 - 1 + 1 ELSE 0
        BY <4>1, <4>2, SubSeqProperties
      <4> DEFINE long == Len(daily[n])
      <4>4. long \in Nat /\ long >= 1
        BY <1>1
      <4>5. Len(rest) = IF 1 <= long - 1 THEN long - 1 - 1 + 1 ELSE 0
        BY <4>3
      <4> HIDE DEF rest, long
      <4>6. Len(rest) = long - 1
        BY <4>4, <4>5
      <4> QED
        BY <4>3, <4>6 DEF long
    <3>2. <<"none">> \in Seq(Day) /\ Len(<<"none">>) = 1
      BY DEF Day
    <3> HIDE DEF rest
    <3>3. <<"none">> \o rest \in Seq(Day) /\ Len(<<"none">> \o rest) = 1 + Len(rest)
      BY <3>1, <3>2, ConcatProperties
    <3> QED
      BY <1>1, <3>1, <3>3 DEF rest
  <2>2. /\ daily' = [n \in HonorNode |-> <<"none">> \o SubSeq(daily[n], 1, Len(daily[n]) - 1)]
        /\ UNCHANGED <<contribution, asking, view, honor>> /\ Honors!Committing
    BY <1>3 DEF Honors!DayPasses
  <2>3. daily' \in [HonorNode -> Seq(Day)] /\ \A n \in HonorNode : Len(daily'[n]) = Len(daily[n])
    BY <2>1, <2>2
  <2> QED
    BY <1>1, <2>2, <2>3, HonorsCommit
<1>4. CASE \E n \in HonorNode : Honors!AttemptFails(n)
  <2>1. PICK n \in HonorNode : Honors!AttemptFails(n)
    BY <1>4
  <2>2. /\ daily' = [daily EXCEPT ![n][1] = "failed"]
        /\ UNCHANGED <<contribution, asking, view, honor>> /\ Honors!Committing
    BY <2>1 DEF Honors!AttemptFails
  <2>3. daily' \in [HonorNode -> Seq(Day)] /\ \A m \in HonorNode : Len(daily'[m]) = Len(daily[m])
    <3>1. "failed" \in Day
      BY DEF Day
    <3> QED
      BY <1>2, <2>2, <3>1
  <2> QED
    BY <1>1, <2>2, <2>3, HonorsCommit
<1>5. CASE \E n \in HonorNode, gain \in Gain : Honors!JobSettles(n, gain)
  <2>1. PICK n \in HonorNode, gain \in Gain : Honors!JobSettles(n, gain)
    BY <1>5
  <2>2. /\ contribution[n] + gain <= MaxContribution
        /\ contribution' = [contribution EXCEPT ![n] = contribution[n] + gain]
        /\ daily' = [daily EXCEPT ![n][1] = IF daily[n][1] = "failed" THEN daily[n][1] ELSE "clean"]
        /\ UNCHANGED <<asking, view, honor>> /\ Honors!Committing
    BY <2>1 DEF Honors!JobSettles
  <2>3. (IF daily[n][1] = "failed" THEN daily[n][1] ELSE "clean") \in Day
    BY DEF Day
  <2>4. daily' \in [HonorNode -> Seq(Day)] /\ \A m \in HonorNode : Len(daily'[m]) = Len(daily[m])
    <3> DEFINE v == IF daily[n][1] = "failed" THEN daily[n][1] ELSE "clean"
    <3>1. v \in Day /\ daily' = [daily EXCEPT ![n][1] = v]
      BY <2>2, <2>3
    <3> HIDE DEF v
    <3> QED
      BY <1>2, <3>1
  <2>5. contribution' \in [HonorNode -> 0 .. MaxContribution]
    <3>1. contribution[n] + gain \in 0 .. MaxContribution
      BY <1>1, <2>2, HonorAssumption
    <3> QED
      BY <1>1, <2>2, <3>1
  <2> QED
    BY <2>2, <2>4, <2>5, HonorsCommit
<1> QED
  BY <1>3, <1>4, <1>5

\* A node among the contributors is one of those with its contribution.
LEMMA RankFits ==
  ASSUME contribution \in [HonorNode -> 0 .. MaxContribution], NEW c \in Nat
  PROVE  /\ Honors!Lower(c) \in Nat /\ Honors!Tied(c) \in Nat
         /\ (Asked \in Honors!Cohort /\ c = contribution[Asked]) =>
              Honors!Tied(c) >= 1 /\ Honors!Lower(c) + Honors!Tied(c) <= Cardinality(Honors!Cohort)
<1> DEFINE C == Honors!Cohort
<1>1. IsFiniteSet(C)
  BY BoardExact
<1>2. PICK low : low = {n \in C : contribution[n] < c}
  OBVIOUS
<1>3. PICK tie : tie = {n \in C : contribution[n] = c}
  OBVIOUS
<1>4. Honors!Lower(c) = Cardinality(low) /\ Honors!Tied(c) = Cardinality(tie)
  BY <1>2, <1>3, HonorOperators DEF Honors!Lower, Honors!Tied
<1>5. low \in SUBSET C /\ tie \in SUBSET C /\ low \cap tie = {} /\ low \cup tie \in SUBSET C
  BY <1>2, <1>3 DEF Honors!Cohort
<1> HIDE DEF C
<1>6. IsFiniteSet(low) /\ IsFiniteSet(tie) /\ Cardinality(low) \in Nat /\ Cardinality(tie) \in Nat
  BY <1>1, <1>5, FS_Subset, FS_CardinalityType
<1>7. Cardinality(low \cup tie) = Cardinality(low) + Cardinality(tie)
  <2>1. Cardinality(low \cup tie) = Cardinality(low) + Cardinality(tie) - Cardinality(low \cap tie)
    BY <1>6, FS_Union
  <2>2. Cardinality(low \cap tie) = 0
    BY <1>5, FS_EmptySet
  <2> QED
    BY <1>6, <2>1, <2>2
<1>8. Cardinality(low \cup tie) <= Cardinality(C)
  BY <1>1, <1>5, FS_Subset
<1>9. ASSUME Asked \in C, c = contribution[Asked] PROVE Cardinality(tie) >= 1
  <2>1. tie # {}
    BY <1>3, <1>9
  <2>2. Cardinality(tie) # 0
    BY <1>6, <2>1, FS_EmptySet
  <2> QED
    BY <1>6, <2>2
<1> QED
  BY <1>4, <1>6, <1>7, <1>8, <1>9 DEF C

\* The four queries before the last.
LEMMA HonorsRank ==
  ASSUME HonorInv, Honors!ReadNode \/ Honors!ReadRank \/ Honors!ReadTies \/ Honors!ReadDaily
  PROVE  HonorInv'
<1>1. HonorTables /\ ViewRead /\ QuietView
  BY DEF HonorInv
<1>2. contribution \in [HonorNode -> 0 .. MaxContribution] /\ UNCHANGED <<contribution, daily, commits>>
  BY <1>1 DEF HonorTables, Honors!ReadNode, Honors!ReadRank, Honors!ReadTies, Honors!ReadDaily,
     Honors!tables
<1>3. HonorTables'
  BY <1>1, <1>2 DEF HonorTables
<1>4. honor = Honors!NoValue /\ honor' = honor
  BY DEF HonorInv, Honors!ReadNode, Honors!ReadRank, Honors!ReadTies, Honors!ReadDaily, Honors!Fails
<1>5. Honors!Cohort' = Honors!Cohort /\ Honors!TieGroups' = Honors!TieGroups
  BY <1>2 DEF Honors!Cohort, Honors!TieGroups, Honors!Tied
<1>6. Asked \in HonorNode /\ contribution[Asked] \in 0 .. MaxContribution /\ MaxContribution \in Nat
  BY <1>2, HonorAssumption
<1>7. (view = [own |-> view.own, cohort |-> view.cohort, percentile |-> view.percentile,
              groups |-> view.groups, streak |-> view.streak])
  BY <1>1 DEF ViewRead
<1>8. ViewRead' /\ QuietView' => HonorInv'
  BY <1>3, <1>4 DEF HonorInv, QuietView, Honors!AnswersConsistent, Honors!QuietAnswersExact, Honors!Quiet
<1>9. CASE Honors!ReadNode
  <2>1. view' = [own |-> contribution[Asked], cohort |-> view.cohort, percentile |-> view.percentile,
                 groups |-> view.groups, streak |-> view.streak]
        /\ asking' = "rank"
    BY <1>7, <1>9 DEF Honors!ReadNode
  <2>2. ViewRead'
    BY <1>1, <1>6, <2>1 DEF ViewRead
  <2>3. QuietView'
    BY <1>2, <2>1 DEF QuietView
  <2> QED
    BY <1>8, <2>2, <2>3
<1>10. CASE Honors!ReadTies
  <2>1. view' = [own |-> view.own, cohort |-> view.cohort, percentile |-> view.percentile,
                 groups |-> Honors!TieGroups, streak |-> view.streak]
        /\ asking = "ties" /\ asking' = "daily"
    BY <1>7, <1>10 DEF Honors!ReadTies
  <2>2. \E K \in Nat : Honors!TieGroups \in [1 .. K -> Nat]
    BY <1>2, BoardExact
  <2>3. ViewRead'
    BY <1>1, <2>1, <2>2 DEF ViewRead
  <2>4. QuietView'
    BY <1>1, <1>2, <1>5, <2>1 DEF QuietView
  <2> QED
    BY <1>8, <2>3, <2>4
<1>11. CASE Honors!ReadDaily
  <2>1. PICK v : view' = [own |-> view.own, cohort |-> view.cohort, percentile |-> view.percentile,
                 groups |-> view.groups, streak |-> v]
        /\ asking = "daily" /\ asking' = "zero"
    BY <1>7, <1>11 DEF Honors!ReadDaily
  <2>3. ViewRead'
    BY <1>1, <2>1 DEF ViewRead
  <2>4. QuietView'
    BY <1>1, <1>2, <1>5, <2>1 DEF QuietView
  <2> QED
    BY <1>8, <2>3, <2>4
<1>12. CASE Honors!ReadRank
  <2>1. PICK cohort \in Nat : cohort = Cardinality(Honors!Cohort) /\ IsFiniteSet(Honors!Cohort)
    BY <1>2, BoardExact
  <2>2. view.own \in Nat
    BY <1>1, <1>6 DEF ViewRead
  <2>3. PICK lower \in Nat, tied \in Nat : lower = Honors!Lower(view.own) /\ tied = Honors!Tied(view.own)
    BY <1>2, <2>2, RankFits
  <2>4. Honors!Cardinality(Honors!Cohort) = cohort
    BY <2>1, HonorOperators
  <2> DEFINE ranked == Asked \in Honors!Cohort /\ cohort >= Threshold
  <2>5. /\ asking = "rank"
        /\ IF ranked /\ (tied = 0 \/ lower + tied > cohort) THEN Honors!Fails
           ELSE /\ view' = [view EXCEPT !.cohort = cohort, !.percentile =
                              IF ranked THEN <<Honors!MidrankPercentile(cohort, lower, tied)>>
                              ELSE Honors!NoValue]
                /\ asking' = "ties" /\ UNCHANGED honor
    BY <1>12, <2>3, <2>4 DEF Honors!ReadRank
  <2>6. CASE ranked /\ (tied = 0 \/ lower + tied > cohort)
    <3>1. asking' = "failed" /\ view' = view
      BY <2>5, <2>6 DEF Honors!Fails
    <3>2. ViewRead'
      BY <1>1, <3>1 DEF ViewRead
    <3>3. commits # 0
      <4> SUFFICES ASSUME commits = 0 PROVE FALSE
        OBVIOUS
      <4>1. view.own = contribution[Asked]
        BY <1>1, <2>5 DEF QuietView
      <4>2. tied >= 1 /\ lower + tied <= cohort
        BY <1>2, <2>1, <2>2, <2>3, <2>6, <4>1, RankFits
      <4> QED
        BY <2>6, <4>2
    <3>4. QuietView'
      BY <1>2, <3>3 DEF QuietView
    <3> QED
      BY <1>8, <3>2, <3>4
  <2>7. CASE ~ (ranked /\ (tied = 0 \/ lower + tied > cohort))
    <3> DEFINE share == IF ranked THEN <<Honors!MidrankPercentile(cohort, lower, tied)>>
                        ELSE Honors!NoValue
    <3>1. view' = [own |-> view.own, cohort |-> cohort, percentile |-> share,
                   groups |-> view.groups, streak |-> view.streak]
          /\ asking' = "ties"
      BY <1>7, <2>5, <2>7
    <3>2. share # Honors!NoValue =>
            share[1].num <= share[1].den /\ cohort >= Threshold
      <4> SUFFICES ASSUME ranked PROVE share[1].num <= share[1].den /\ cohort >= Threshold
        OBVIOUS
      <4>1. tied >= 1 /\ lower + tied <= cohort
        BY <2>7
      <4>2. LET r == Honors!MidrankPercentile(cohort, lower, tied) IN r.num <= r.den
        BY <4>1, MidrankShare
      <4> QED
        BY <4>2
    <3> HIDE DEF share
    <3>3. ViewRead'
      BY <1>1, <3>1, <3>2 DEF ViewRead
    <3>4. QuietView'
      BY <1>1, <1>2, <1>5, <2>1, <2>5, <3>1 DEF QuietView
    <3> QED
      BY <1>8, <3>3, <3>4
  <2> QED
    BY <2>6, <2>7
<1> QED
  BY <1>9, <1>10, <1>11, <1>12

\* The last query and the answer.
LEMMA HonorsAnswer ==
  ASSUME HonorInv, Honors!ReadZeroFailures
  PROVE  HonorInv'
<1>1. HonorTables /\ ViewRead /\ QuietView
  BY DEF HonorInv
<1>2. /\ contribution \in [HonorNode -> 0 .. MaxContribution] /\ UNCHANGED <<contribution, daily, commits>>
      /\ asking = "zero"
  BY <1>1 DEF HonorTables, Honors!ReadZeroFailures, Honors!tables
<1>3. HonorTables'
  BY <1>1, <1>2 DEF HonorTables
<1>4. view.own \in 0 .. MaxContribution /\ view.cohort \in Nat /\ Threshold \in Nat \ {0}
  BY <1>1, HonorAssumption DEF ViewRead
<1>5. PICK K \in Nat : view.groups \in [1 .. K -> Nat]
  BY <1>1 DEF ViewRead
<1>6. PICK cohort : cohort = view.cohort
  OBVIOUS
<1>7. PICK long : long = {n \in Honors!Cohort : LongOf(daily[n])}
  OBVIOUS
<1>8. /\ IsFiniteSet(Honors!Cohort) /\ long \in SUBSET Honors!Cohort
      /\ Cardinality(long) \in Nat /\ Cardinality(long) <= Cardinality(Honors!Cohort)
  <2>1. IsFiniteSet(Honors!Cohort)
    BY <1>2, BoardExact
  <2>2. long \in SUBSET Honors!Cohort
    BY <1>7
  <2> QED
    BY <2>1, <2>2, FS_Subset, FS_CardinalityType
<1>9. ASSUME NEW n \in Honors!Cohort
      PROVE  /\ daily[n] \in Seq(Day) /\ Len(daily[n]) > LongStreak
             /\ (LET streak == Honors!ZeroFailureStreak(daily[n])
                 IN streak # Honors!NoValue /\ streak[1] >= LongStreak) <=> LongOf(daily[n])
             /\ (LET streak == Honors!ZeroFailureStreak(Honors!Window(daily[n]))
                 IN streak # Honors!NoValue /\ streak[1] >= LongStreak) <=> LongOf(daily[n])
  <2>1. n \in HonorNode
    BY DEF Honors!Cohort
  <2>2. daily[n] \in Seq(Day) /\ Len(daily[n]) > LongStreak
    BY <1>1, <2>1 DEF HonorTables
  <2>3. /\ Honors!Window(daily[n]) \in Seq(Day) /\ Len(Honors!Window(daily[n])) > LongStreak
        /\ LongOf(Honors!Window(daily[n])) <=> LongOf(daily[n])
    BY <2>2, WindowLong
  <2>4. (LET streak == Honors!ZeroFailureStreak(Honors!Window(daily[n]))
         IN streak # Honors!NoValue /\ streak[1] >= LongStreak) <=> LongOf(Honors!Window(daily[n]))
    BY <2>3, LongStreaks
  <2>5. (LET streak == Honors!ZeroFailureStreak(daily[n])
         IN streak # Honors!NoValue /\ streak[1] >= LongStreak) <=> LongOf(daily[n])
    BY <2>2, LongStreaks
  <2> QED
    BY <2>2, <2>3, <2>4, <2>5
<1>10. Honors!ZeroFailureNodes = Cardinality(long)
  <2>1. {n \in Honors!Cohort :
          LET streak == Honors!ZeroFailureStreak(Honors!Window(daily[n]))
          IN streak # Honors!NoValue /\ streak[1] >= LongStreak} = long
    BY <1>7, <1>9
  <2> QED
    BY <2>1, HonorOperators DEF Honors!ZeroFailureNodes
<1>11. Honors!Cardinality({n \in Honors!Cohort :
          LET streak == Honors!ZeroFailureStreak(daily[n])
          IN streak # Honors!NoValue /\ streak[1] >= LongStreak}) = Cardinality(long)
  <2>1. {n \in Honors!Cohort :
          LET streak == Honors!ZeroFailureStreak(daily[n])
          IN streak # Honors!NoValue /\ streak[1] >= LongStreak} = long
    BY <1>7, <1>9
  <2> QED
    BY <2>1, HonorOperators
<1>12. PICK zero \in Nat : zero = IF view.cohort >= Threshold THEN Honors!ZeroFailureNodes ELSE 0
  BY <1>8, <1>10
<1>13. PICK board : board = Honors!NetworkHonorLeaderboard(view.cohort, view.groups, zero)
  OBVIOUS
<1>14. commits = 0 =>
         /\ view.cohort = Cardinality(Honors!Cohort) /\ view.groups = Honors!TieGroups
         /\ view.own = contribution[Asked] /\ asking # "failed"
  BY <1>1, <1>2 DEF QuietView
<1>15. /\ Honors!Cohort' = Honors!Cohort /\ Honors!TieGroups' = Honors!TieGroups
       /\ \A p : Honors!Reference(p)' = Honors!Reference(p)
  BY <1>2 DEF Honors!Cohort, Honors!TieGroups, Honors!Tied, Honors!Reference, Honors!Lower
<1>16. IF board = Honors!NoValue THEN Honors!Fails
       ELSE /\ honor' = <<[percentile |-> view.percentile, own |-> view.own,
                            cohort |-> IF view.cohort >= Threshold THEN view.cohort ELSE 0,
                            milestones |-> Honors!ContributionMilestones(view.own),
                            streak |-> view.streak, board |-> board[1]]>>
            /\ asking' = "answered" /\ UNCHANGED view
  BY <1>12, <1>13 DEF Honors!ReadZeroFailures
<1>17. honor = Honors!NoValue
  BY <1>2 DEF HonorInv
<1>18. view' = view
  BY <1>16 DEF Honors!Fails
<1>19. ViewRead'
  BY <1>1, <1>18 DEF ViewRead
<1>20. commits = 0 => board # Honors!NoValue
  <2> SUFFICES ASSUME commits = 0 PROVE board # Honors!NoValue
    OBVIOUS
  <2>1. zero <= view.cohort
    <3>1. Cardinality(long) <= view.cohort
      BY <1>8, <1>14
    <3> QED
      BY <1>4, <1>10, <1>12, <3>1
  <2>2. Honors!Before(view.groups, Len(view.groups) + 1) = view.cohort
    BY <1>2, <1>14, BoardExact
  <2> QED
    BY <1>4, <1>13, <2>1, <2>2 DEF Honors!NetworkHonorLeaderboard, Honors!NoValue
<1>21. CASE board = Honors!NoValue
  <2>1. asking' = "failed" /\ honor' = Honors!NoValue /\ commits' # 0
    BY <1>2, <1>16, <1>17, <1>20, <1>21 DEF Honors!Fails
  <2>2. QuietView'
    BY <2>1 DEF QuietView
  <2> QED
    BY <1>3, <1>19, <2>1, <2>2 DEF HonorInv, Honors!AnswersConsistent, Honors!QuietAnswersExact, Honors!Quiet
<1>22. CASE board # Honors!NoValue
  <2>1. PICK h : h = [percentile |-> view.percentile, own |-> view.own,
                      cohort |-> IF view.cohort >= Threshold THEN view.cohort ELSE 0,
                      milestones |-> Honors!ContributionMilestones(view.own),
                      streak |-> view.streak, board |-> board[1]]
    OBVIOUS
  <2>2. honor' = <<h>> /\ asking' = "answered"
    BY <1>16, <1>22, <2>1
  <2>3. honor'[1] = h
    BY <2>2
  <2>4. BoardFine(board[1]) /\ (board[1].suppressed <=> view.cohort < Threshold)
        /\ board[1].suppressed \in BOOLEAN
    BY <1>4, <1>5, <1>13, <1>22, BoardsFine
  <2>5. /\ h.percentile = view.percentile /\ h.own = view.own
        /\ h.cohort = IF view.cohort >= Threshold THEN view.cohort ELSE 0
        /\ h.milestones = Honors!ContributionMilestones(view.own) /\ h.board = board[1]
    BY <2>1
  <2>6. Honors!HonorObservation(h)
    <3>1. h.percentile # Honors!NoValue => h.percentile[1].num <= h.percentile[1].den
      BY <1>1, <2>5 DEF ViewRead
    <3>2. h.milestones # Honors!NoValue =>
            h.milestones[1].previous <= h.own /\ h.own < h.milestones[1].next
      BY <1>4, <2>5, MilestonesAround
    <3> QED
      BY <3>1, <3>2 DEF Honors!HonorObservation, Honors!ContributionProgress
  <2>7. Honors!AnswersConsistent'
    <3>1. h.board.suppressed = (h.cohort = 0)
      BY <1>4, <2>4, <2>5
    <3>2. h.board.suppressed => h.percentile = Honors!NoValue
      BY <1>1, <1>4, <2>4, <2>5 DEF ViewRead
    <3>3. BoardFine(h.board)
      BY <2>4, <2>5
    <3> QED
      BY <2>3, <2>6, <3>1, <3>2, <3>3 DEF BoardFine, Honors!AnswersConsistent
  <2>8. QuietView'
    BY <1>2, <1>14, <1>18, <2>2 DEF QuietView
  <2>9. ASSUME commits = 0, ~ h.board.suppressed
        PROVE  /\ \A p \in Honors!Bands : h.board.bands[p] = Honors!Quantized(Honors!Reference(p))
               /\ h.board.zero_failure = Honors!Quantized(Cardinality(long))
    <3>1. ~ (view.cohort < Threshold) /\ view.cohort >= Threshold
      BY <1>4, <2>4, <2>5, <2>9
    <3>2. h.board = [suppressed |-> FALSE, cohort |-> view.cohort,
                     bands |-> [b \in Honors!Bands |->
                        Honors!Quantized(Honors!TopRankedNodes(view.cohort, view.groups, b))],
                     contributor |-> Honors!Quantized(view.cohort),
                     zero_failure |-> Honors!Quantized(zero)]
      BY <1>13, <1>22, <2>5, <3>1 DEF Honors!NetworkHonorLeaderboard
    <3>3. \A p \in Honors!Bands :
            Honors!TopRankedNodes(view.cohort, view.groups, p) = Honors!Reference(p)
      BY <1>2, <1>14, <2>9, BoardExact
    <3>4. zero = Cardinality(long)
      BY <1>10, <1>12, <3>1
    <3> QED
      BY <3>2, <3>3, <3>4
  <2>10. Honors!QuietAnswersExact'
    <3>1. (Honors!Cardinality({n \in Honors!Cohort :
            LET streak == Honors!ZeroFailureStreak(daily[n])
            IN streak # Honors!NoValue /\ streak[1] >= LongStreak}))' = Cardinality(long)
      <4>1. daily' = daily
        BY <1>2
      <4> QED
        BY <1>11, <1>15, <4>1
    <3> QED
      BY <1>2, <1>15, <2>2, <2>3, <2>9, <3>1 DEF Honors!QuietAnswersExact, Honors!Quiet
  <2> QED
    BY <1>3, <1>19, <2>2, <2>7, <2>8, <2>10 DEF HonorInv
<1> QED
  BY <1>21, <1>22

\* Every step of the handler and every commit among its queries.
LEMMA HonorsNext ==
  ASSUME HonorInv, [Honors!Next]_honors
  PROVE  HonorInv'
<1>1. CASE UNCHANGED honors
  <2>1. UNCHANGED <<contribution, daily, asking, view, honor, commits>>
    BY <1>1 DEF honors
  <2>2. /\ Honors!Cohort' = Honors!Cohort /\ Honors!TieGroups' = Honors!TieGroups
        /\ \A p : Honors!Reference(p)' = Honors!Reference(p)
    BY <2>1 DEF Honors!Cohort, Honors!TieGroups, Honors!Tied, Honors!Reference, Honors!Lower
  <2>3. HonorTables' /\ ViewRead'
    BY <2>1 DEF HonorInv, HonorTables, ViewRead
  <2>4. QuietView'
    BY <2>1, <2>2 DEF HonorInv, QuietView
  <2>5. Honors!AnswersConsistent'
    BY <2>1 DEF HonorInv, Honors!AnswersConsistent
  <2>6. Honors!QuietAnswersExact'
    BY <2>1, <2>2 DEF HonorInv, Honors!QuietAnswersExact, Honors!Quiet
  <2> QED
    BY <2>1, <2>3, <2>4, <2>5, <2>6 DEF HonorInv
<1> QED
  BY <1>1, HonorsRank, HonorsAnswer, HonorsCommits DEF Honors!Next

-----------------------------------------------------------------------------
(***************************************************************************)
(* Routing: the order of the candidates has a first one, it is the first   *)
(* of the library's order, and its node has room.                          *)
(***************************************************************************)
\* Routing counts and sums with the same operators.
LEMMA RouteOperators ==
  /\ \A S : Routes!Cardinality(S) = Cardinality(S)
  /\ \A f, S : Routes!SumOf(f, S) = SumOf(f, S)
<1>1. \A S : Routes!Cardinality(S) = Cardinality(S)
  BY DEF Routes!Cardinality, Cardinality
<1>2. \A f, S : Routes!SumOf(f, S) = SumOf(f, S)
  BY DEF SumOf, MapThenSumSet, MapThenFoldSet, Routes!SumOf, Routes!MapThenSumSet,
     Routes!MapThenFoldSet
<1> QED
  BY <1>1, <1>2

\* The greater and the smaller of two numbers.
LEMMA OfTwo ==
  ASSUME NEW a \in Int, NEW b \in Int
  PROVE  /\ Routes!Max({a, b}) \in {a, b} /\ Routes!Max({a, b}) >= a /\ Routes!Max({a, b}) >= b
         /\ Routes!Min({a, b}) \in {a, b}
<1>1. \E m \in {a, b} : \A k \in {a, b} : m >= k
  <2>1. CASE a >= b
    BY <2>1
  <2>2. CASE b >= a
    BY <2>2
  <2> QED
    BY <2>1, <2>2
<1>2. \E m \in {a, b} : \A k \in {a, b} : m <= k
  <2>1. CASE a <= b
    BY <2>1
  <2>2. CASE b <= a
    BY <2>2
  <2> QED
    BY <2>1, <2>2
<1> QED
  BY <1>1, <1>2 DEF Routes!Max, Routes!Min

\* A row of a job, and what the nodes have reported.
IsJobRow(r) ==
  r = [status |-> r.status, kind |-> r.kind, model |-> r.model, at |-> r.at, attempts |-> r.attempts]
RoutingTables ==
  /\ rjob = [j \in RJob |-> rjob[j]] /\ \A j \in RJob : IsJobRow(rjob[j])
  /\ DOMAIN metrics = DOMAIN NodeFacts
  /\ \A n \in DOMAIN NodeFacts : metrics[n] # None => ReportedRow(metrics[n])

\* The jobs a node works on.
LeasedAt(n) == {j \in RJob : rjob[j].status = "leased" /\ Routes!NodeOf(rjob[j].at) = n}
\* The instances that may take a job.
Fit(j) == {i \in Instance : Routes!Eligible(i, Routes!NodeOf(i), j, rjob[j].kind)}

\* What the coordinator counts of a node includes what it works on.
LEMMA ActiveCounts ==
  ASSUME NEW n, NEW j \in RJob
  PROVE  /\ Routes!ActiveCount(n, j) \in Nat
         /\ IsFiniteSet(LeasedAt(n)) /\ Cardinality(LeasedAt(n)) \in Nat
         /\ Cardinality({n} \cap held) \in Nat
         /\ rjob[j].status # "leased" =>
              Cardinality(LeasedAt(n)) + Cardinality({n} \cap held) <= Routes!ActiveCount(n, j)
<1>1. IsFiniteSet(RJob)
  BY RoutingAssumption
<1>2. PICK busy : busy = {x \in RJob \ {j} :
        \/ rjob[x].status = "leased" /\ Routes!NodeOf(rjob[x].at) = n
        \/ /\ rjob[x].status = "queued" /\ rjob[x].kind.pinned # None
           /\ Routes!NodeOf(rjob[x].kind.pinned) = n}
  OBVIOUS
<1>3. PICK probe : probe = {n} \cap held
  OBVIOUS
<1>4. Routes!ActiveCount(n, j) = Cardinality(busy) + Cardinality(probe)
  BY <1>2, <1>3, RouteOperators DEF Routes!ActiveCount
<1>5. busy \in SUBSET RJob /\ LeasedAt(n) \in SUBSET RJob /\ probe \in SUBSET {n}
  BY <1>2, <1>3 DEF LeasedAt
<1>6. IsFiniteSet(busy) /\ IsFiniteSet(LeasedAt(n)) /\ IsFiniteSet(probe)
  BY <1>1, <1>5, FS_Subset, FS_Singleton
<1>7. Cardinality(busy) \in Nat /\ Cardinality(LeasedAt(n)) \in Nat /\ Cardinality(probe) \in Nat
  BY <1>6, FS_CardinalityType
<1>8. ASSUME rjob[j].status # "leased" PROVE Cardinality(LeasedAt(n)) <= Cardinality(busy)
  <2>1. LeasedAt(n) \in SUBSET busy
    BY <1>2, <1>8 DEF LeasedAt
  <2> QED
    BY <1>6, <2>1, FS_Subset
<1> QED
  BY <1>3, <1>4, <1>6, <1>7, <1>8

\* The numbers a node reported.
LEMMA MetricType ==
  ASSUME RoutingTables, NEW n \in DOMAIN NodeFacts
  PROVE  /\ Routes!Metric(n, "tps", 0) \in Nat /\ Routes!Metric(n, "reported", 0) \in Nat
         /\ \A d \in Nat : Routes!Metric(n, "errors", d) \in Nat
  BY DEF RoutingTables, ReportedRow, Routes!Metric

\* What occupies a node is at least what the coordinator counts.
LEMMA OccupiedType ==
  ASSUME RoutingTables, NEW n \in DOMAIN NodeFacts, NEW j \in RJob
  PROVE  /\ Routes!Occupied(n, j) \in Nat /\ Routes!ActiveCount(n, j) \in Nat
         /\ Routes!ActiveCount(n, j) <= Routes!Occupied(n, j)
<1>1. Routes!ActiveCount(n, j) \in Nat
  BY ActiveCounts
<1>2. Routes!Metric(n, "reported", 0) \in Nat
  BY MetricType
<1> DEFINE a == Routes!ActiveCount(n, j)
           b == Routes!Metric(n, "reported", 0)
<1>3. Routes!Occupied(n, j) = Routes!Max({a, b})
  BY DEF Routes!Occupied
<1>4. a \in Nat /\ b \in Nat
  BY <1>1, <1>2
<1> HIDE DEF a, b
<1>5. Routes!Max({a, b}) \in {a, b} /\ Routes!Max({a, b}) >= a
  BY <1>4, OfTwo
<1>6. Routes!Occupied(n, j) \in Nat /\ a <= Routes!Occupied(n, j)
  BY <1>3, <1>4, <1>5
<1> QED
  BY <1>1, <1>6 DEF a

\* A score is a natural number.
LEMMA ScoreType ==
  ASSUME RoutingTables, NEW n \in DOMAIN NodeFacts, NEW occupied \in Nat,
         NEW rtt, rtt # None => rtt \in 1 .. MaxRtt
  PROVE  Routes!Score(n, occupied, rtt) \in Nat
<1>1. /\ Unit \in Nat \ {0} /\ MaxRtt \in Nat \ {0} /\ NodeFacts[n].max_concurrent \in Nat \ {0}
  BY RoutingAssumption
<1> DEFINE trust == Routes!TrustScore(NodeFacts[n].trust)
           trip == IF rtt = None THEN 0 ELSE Unit - (rtt * Unit) \div MaxRtt
           speed == Routes!Min({Routes!Metric(n, "tps", 0), Unit})
           free == Routes!Max({0, Unit - (occupied * Unit) \div NodeFacts[n].max_concurrent})
           good == Routes!Max({0, Unit - Routes!Metric(n, "errors", Unit \div 2)})
<1>2. trust \in Nat
  BY DEF Routes!TrustScore
<1>3. trip \in Nat
  <2>1. CASE rtt = None
    BY <2>1
  <2>2. CASE rtt # None
    <3>1. PICK k \in Nat : k = rtt /\ k <= MaxRtt
      BY <1>1, <2>2
    <3>2. (k * Unit) \div MaxRtt <= Unit /\ (k * Unit) \div MaxRtt \in Nat
      <4> DEFINE u == Unit
                 b == MaxRtt
      <4>1. u \in Nat /\ b \in Nat \ {0} /\ k <= b
        BY <1>1, <3>1
      <4> HIDE DEF u, b
      <4>2. (k * u) \div b <= u /\ (k * u) \div b \in Nat
        BY <4>1
      <4> QED
        BY <4>2 DEF u, b
    <3> QED
      BY <1>1, <2>2, <3>1, <3>2
  <2> QED
    BY <2>1, <2>2
<1>4. speed \in Nat
  <2>1. Routes!Metric(n, "tps", 0) \in Nat
    BY MetricType
  <2>2. PICK a \in Int, b \in Int : a = Routes!Metric(n, "tps", 0) /\ b = Unit
    BY <1>1, <2>1
  <2>3. Routes!Min({a, b}) \in {a, b}
    BY OfTwo
  <2> QED
    BY <1>1, <2>1, <2>2, <2>3
<1>5. free \in Nat
  <2>1. Unit - (occupied * Unit) \div NodeFacts[n].max_concurrent \in Int
    <3> DEFINE u == Unit
               b == NodeFacts[n].max_concurrent
    <3>1. u \in Nat /\ b \in Nat \ {0}
      BY <1>1
    <3> HIDE DEF u, b
    <3>2. occupied * u \in Int
      BY <3>1
    <3>3. u - (occupied * u) \div b \in Int
      BY <3>1, <3>2
    <3> QED
      BY <3>3 DEF u, b
  <2> DEFINE x == Unit - (occupied * Unit) \div NodeFacts[n].max_concurrent
  <2>2. x \in Int
    BY <2>1
  <2>3. PICK a \in Int, b \in Int : a = 0 /\ b = x
    BY <2>2
  <2>4. Routes!Max({a, b}) \in {a, b} /\ Routes!Max({a, b}) >= a
    BY OfTwo
  <2>5. Routes!Max({a, b}) \in Nat
    BY <2>3, <2>4
  <2> QED
    BY <2>3, <2>5
<1>6. good \in Nat
  <2>1. Routes!Metric(n, "errors", Unit \div 2) \in Nat
    <3>1. Unit \div 2 \in Nat
      BY <1>1
    <3> QED
      BY <3>1, MetricType
  <2> DEFINE x == Unit - Routes!Metric(n, "errors", Unit \div 2)
  <2>2. x \in Int
    BY <1>1, <2>1
  <2>3. PICK a \in Int, b \in Int : a = 0 /\ b = x
    BY <2>2
  <2>4. Routes!Max({a, b}) \in {a, b} /\ Routes!Max({a, b}) >= a
    BY OfTwo
  <2>5. Routes!Max({a, b}) \in Nat
    BY <2>3, <2>4
  <2> QED
    BY <2>3, <2>5
<1>7. Routes!Score(n, occupied, rtt)
        = 25 * trust + 20 * Unit + 15 * trip + 15 * speed + 15 * free + 10 * good
  BY DEF Routes!Score
<1> HIDE DEF trust, trip, speed, free, good
<1> QED
  BY <1>1, <1>2, <1>3, <1>4, <1>5, <1>6, <1>7

\* The candidates of a job: one for a node, of an instance that may take it.
LEMMA CohortFine ==
  ASSUME RoutingTables, NEW j \in RJob, NEW c, c = Routes!Cohort(j)
  PROVE  /\ IsFiniteSet(c)
         /\ \A r \in c : /\ r.instance \in Fit(j) /\ r.node = Routes!NodeOf(r.instance)
                         /\ r.node \in Nat /\ r.tps \in Nat /\ r.active \in Nat /\ r.score \in Nat
         /\ \A r, x \in c : r.instance = x.instance \/ r.node = x.node => r = x
<1> DEFINE F == Routes!FirstOfNode(Fit(j))
<1>1. c = {Routes!Candidate(i, Routes!NodeOf(i), j) : i \in F}
  BY DEF Routes!Cohort, Fit
<1>2. F \in SUBSET Fit(j) /\ F \in SUBSET Instance /\ \A i, x \in F : Routes!NodeOf(x) = Routes!NodeOf(i) => i <= x
  BY DEF Routes!FirstOfNode, Fit
<1>3. IsFiniteSet(F)
  BY <1>2, RoutingAssumption, FS_Subset
<1> HIDE DEF F
<1>4. PICK g : g = [i \in F |-> Routes!Candidate(i, Routes!NodeOf(i), j)]
  OBVIOUS
<1>5. IsFiniteSet(c)
  <2>1. g \in Surjection(F, c)
    BY <1>1, <1>4 DEF Surjection
  <2> QED
    BY <1>3, <2>1, FS_Surjection
<1>6. ASSUME NEW i \in F
      PROVE  LET r == Routes!Candidate(i, Routes!NodeOf(i), j) IN
             /\ r.instance = i /\ r.node = Routes!NodeOf(i)
             /\ r.node \in Nat /\ r.tps \in Nat /\ r.active \in Nat /\ r.score \in Nat
  <2>1. i \in Instance /\ Routes!NodeOf(i) \in DOMAIN NodeFacts /\ Routes!NodeOf(i) \in Nat
        /\ Routes!Eligible(i, Routes!NodeOf(i), j, rjob[j].kind)
    BY <1>2, RoutingAssumption DEF Fit, Routes!NodeOf
  <2>2. PICK n \in DOMAIN NodeFacts : n = Routes!NodeOf(i) /\ n \in Nat
    BY <2>1
  <2>3. Routes!ActiveCount(n, j) \in Nat /\ Routes!Occupied(n, j) \in Nat /\ Routes!Metric(n, "tps", 0) \in Nat
    BY OccupiedType, MetricType
  <2>4. Routes!Metric(n, "rtt", None) # None => Routes!Metric(n, "rtt", None) \in 1 .. MaxRtt
    BY <2>1, <2>2 DEF Routes!Eligible
  <2>5. Routes!Score(n, Routes!Occupied(n, j), Routes!Metric(n, "rtt", None)) \in Nat
    BY <2>3, <2>4, ScoreType
  <2> QED
    BY <2>2, <2>3, <2>5 DEF Routes!Candidate
<1>7. ASSUME NEW r \in c
      PROVE  /\ r.instance \in F /\ r = Routes!Candidate(r.instance, Routes!NodeOf(r.instance), j)
             /\ r.node = Routes!NodeOf(r.instance)
             /\ r.node \in Nat /\ r.tps \in Nat /\ r.active \in Nat /\ r.score \in Nat
  <2>1. PICK i \in F : r = Routes!Candidate(i, Routes!NodeOf(i), j)
    BY <1>1
  <2> QED
    BY <1>6, <2>1
<1>8. ASSUME NEW r \in c, NEW x \in c, r.instance = x.instance \/ r.node = x.node
      PROVE  r = x
  <2>1. r.instance \in F /\ x.instance \in F /\ r.instance \in Nat /\ x.instance \in Nat
    BY <1>2, <1>7, RoutingAssumption
  <2>2. r.instance = x.instance
    <3>1. CASE r.node = x.node
      BY <1>2, <1>7, <2>1, <3>1
    <3> QED
      BY <1>8, <3>1
  <2> QED
    BY <1>7, <2>2
<1> QED
  BY <1>2, <1>5, <1>7, <1>8

\* Keys are five numbers, the last of which tells the nodes apart.
FullKeys(K) ==
  /\ \A k \in K : DOMAIN k.key = 1 .. 5 /\ \A p \in 1 .. 5 : k.key[p] \in Int
  /\ \A k, l \in K : k.key[5] = l.key[5] => k = l

\* Some of them are greatest at one place of the key.
LEMMA GreatestAt ==
  ASSUME NEW K, IsFiniteSet(K), K # {}, FullKeys(K), NEW p \in 1 .. 5, NEW T \in SUBSET K, T # {}
  PROVE  \E m \in T : \A k \in T : k.key[p] <= m.key[p]
<1>1. PICK f : f = [k \in T |-> k.key[p]]
  OBVIOUS
<1>2. \A k \in T : f[k] = k.key[p] /\ f[k] \in Int
  BY <1>1 DEF FullKeys
<1>3. IsFiniteSet(T)
  BY FS_Subset
<1>4. PICK m \in T : \A k \in T : f[k] <= f[m]
  BY <1>2, <1>3, GreatestValue
<1> QED
  BY <1>2, <1>4

\* The candidate with the greatest first key, of those the one with the greatest
\* second key, and so on, precedes all others.
LEMMA SomeoneIsTop ==
  ASSUME NEW K, IsFiniteSet(K), K # {}, FullKeys(K)
  PROVE  \E m \in K : \A y \in K \ {m} : Routes!Precedes(m.key, y.key)
<1>1. PICK m1 \in K : \A k \in K : k.key[1] <= m1.key[1]
  <2>1. 1 \in 1 .. 5 /\ K \in SUBSET K
    OBVIOUS
  <2> QED
    BY <2>1, GreatestAt
<1>2. PICK A1 : A1 = {k \in K : k.key[1] = m1.key[1]}
  OBVIOUS
<1>3. PICK m2 \in A1 : \A k \in A1 : k.key[2] <= m2.key[2]
  <2>1. 2 \in 1 .. 5 /\ A1 \in SUBSET K /\ A1 # {}
    BY <1>2
  <2> QED
    BY <2>1, GreatestAt
<1>4. PICK A2 : A2 = {k \in A1 : k.key[2] = m2.key[2]}
  OBVIOUS
<1>5. PICK m3 \in A2 : \A k \in A2 : k.key[3] <= m3.key[3]
  <2>1. 3 \in 1 .. 5 /\ A2 \in SUBSET K /\ A2 # {}
    BY <1>2, <1>3, <1>4
  <2> QED
    BY <2>1, GreatestAt
<1>6. PICK A3 : A3 = {k \in A2 : k.key[3] = m3.key[3]}
  OBVIOUS
<1>7. PICK m4 \in A3 : \A k \in A3 : k.key[4] <= m4.key[4]
  <2>1. 4 \in 1 .. 5 /\ A3 \in SUBSET K /\ A3 # {}
    BY <1>2, <1>4, <1>5, <1>6
  <2> QED
    BY <2>1, GreatestAt
<1>8. PICK A4 : A4 = {k \in A3 : k.key[4] = m4.key[4]}
  OBVIOUS
<1>9. PICK m \in A4 : \A k \in A4 : k.key[5] <= m.key[5]
  <2>1. 5 \in 1 .. 5 /\ A4 \in SUBSET K /\ A4 # {}
    BY <1>2, <1>4, <1>6, <1>7, <1>8
  <2> QED
    BY <2>1, GreatestAt
<1>10. /\ m \in K /\ m.key[1] = m1.key[1] /\ m.key[2] = m2.key[2] /\ m.key[3] = m3.key[3]
       /\ m.key[4] = m4.key[4] /\ m \in A1 /\ m \in A2 /\ m \in A3
  BY <1>2, <1>4, <1>6, <1>8, <1>9
<1>11. ASSUME NEW y \in K \ {m} PROVE Routes!Precedes(m.key, y.key)
  <2>1. /\ DOMAIN m.key = 1 .. 5
        /\ m.key[1] \in Int /\ m.key[2] \in Int /\ m.key[3] \in Int /\ m.key[4] \in Int /\ m.key[5] \in Int
        /\ y.key[1] \in Int /\ y.key[2] \in Int /\ y.key[3] \in Int /\ y.key[4] \in Int /\ y.key[5] \in Int
    BY <1>10 DEF FullKeys
  <2>2. CASE y \notin A1
    <3>1. m.key[1] > y.key[1]
      BY <1>1, <1>2, <1>10, <2>1, <2>2
    <3>2. \A q \in 1 .. 1 - 1 : m.key[q] = y.key[q]
      OBVIOUS
    <3> QED
      BY <2>1, <3>1, <3>2 DEF Routes!Precedes
  <2>3. CASE y \in A1 /\ y \notin A2
    <3>1. m.key[2] > y.key[2]
      BY <1>3, <1>4, <1>10, <2>1, <2>3
    <3>2. \A q \in 1 .. 2 - 1 : m.key[q] = y.key[q]
      BY <1>2, <1>10, <2>3
    <3> QED
      BY <2>1, <3>1, <3>2 DEF Routes!Precedes
  <2>4. CASE y \in A2 /\ y \notin A3
    <3>1. m.key[3] > y.key[3]
      BY <1>5, <1>6, <1>10, <2>1, <2>4
    <3>2. m.key[1] = y.key[1] /\ m.key[2] = y.key[2]
      BY <1>2, <1>4, <1>10, <2>4
    <3>3. \A q \in 1 .. 3 - 1 : m.key[q] = y.key[q]
      BY <3>2
    <3> QED
      BY <2>1, <3>1, <3>3 DEF Routes!Precedes
  <2>5. CASE y \in A3 /\ y \notin A4
    <3>1. m.key[4] > y.key[4]
      BY <1>7, <1>8, <1>10, <2>1, <2>5
    <3>2. m.key[1] = y.key[1] /\ m.key[2] = y.key[2] /\ m.key[3] = y.key[3]
      BY <1>2, <1>4, <1>6, <1>10, <2>5
    <3>3. \A q \in 1 .. 4 - 1 : m.key[q] = y.key[q]
      BY <3>2
    <3> QED
      BY <2>1, <3>1, <3>3 DEF Routes!Precedes
  <2>6. CASE y \in A4
    <3>1. m.key[5] # y.key[5] /\ y.key[5] <= m.key[5]
      BY <1>9, <1>10, <2>6 DEF FullKeys
    <3>2. m.key[1] = y.key[1] /\ m.key[2] = y.key[2] /\ m.key[3] = y.key[3] /\ m.key[4] = y.key[4]
      BY <1>2, <1>4, <1>6, <1>8, <1>10, <2>6
    <3>3. \A q \in 1 .. 5 - 1 : m.key[q] = y.key[q]
      BY <3>2
    <3>4. m.key[5] > y.key[5]
      BY <2>1, <3>1
    <3> QED
      BY <2>1, <3>3, <3>4 DEF Routes!Precedes
  <2> QED
    BY <2>2, <2>3, <2>4, <2>5, <2>6
<1> QED
  BY <1>10, <1>11

\* The midrank of the query is a natural number, and that of the library.
LEMMA MidranksAgree ==
  ASSUME NEW c, IsFiniteSet(c), NEW r \in c, Cardinality(c) >= 2
  PROVE  /\ Routes!ContributionPercentile(c, r) \in Nat
         /\ Routes!MidrankPercentile(c, r) = Routes!ContributionPercentile(c, r)
<1>1. PICK low : low = {x \in c : x.earned < r.earned}
  OBVIOUS
<1>2. PICK tie : tie = {x \in c : x.earned = r.earned}
  OBVIOUS
<1>3. low \in SUBSET c /\ tie \in SUBSET c /\ r \in tie
  BY <1>1, <1>2
<1>4. /\ IsFiniteSet(low) /\ IsFiniteSet(tie)
      /\ Cardinality(low) \in Nat /\ Cardinality(tie) \in Nat /\ Cardinality(tie) # 0
      /\ Cardinality(c) \in Nat
  <2>1. IsFiniteSet(low) /\ IsFiniteSet(tie)
    BY <1>3, FS_Subset
  <2>2. Cardinality(tie) # 0
    BY <1>3, <2>1, FS_EmptySet
  <2> QED
    BY <2>1, <2>2, FS_CardinalityType
<1>5. Routes!ContributionPercentile(c, r)
        = ((2 * Cardinality(low) + Cardinality(tie) - 1) * Unit) \div (2 * (Cardinality(c) - 1))
  BY <1>1, <1>2, RouteOperators DEF Routes!ContributionPercentile
<1>6. Routes!ContributionPercentile(c, r) \in Nat
  <2> DEFINE a == Cardinality(low)
             b == Cardinality(tie)
             n == Cardinality(c)
             u == Unit
  <2>1. a \in Nat /\ b \in Nat /\ b # 0 /\ n \in Nat /\ n >= 2 /\ u \in Nat
    BY <1>4, RoutingAssumption
  <2> HIDE DEF a, b, n, u
  <2>2. PICK x \in Nat : x = 2 * a + b - 1
    BY <2>1
  <2>3. PICK y \in Nat \ {0} : y = 2 * (n - 1)
    BY <2>1
  <2>4. x * u \in Nat
    BY <2>1
  <2>5. (x * u) \div y \in Nat
    BY <2>3, <2>4
  <2> QED
    BY <1>5, <2>2, <2>3, <2>5 DEF a, b, n, u
<1>7. PICK V : V = {x.earned : x \in low}
  OBVIOUS
<1>8. PICK f : f = [v \in {x.earned : x \in c} |-> Cardinality({x \in c : x.earned = v})]
  OBVIOUS
<1>9. PICK G : G = [v \in V |-> {x \in c : x.earned = v}]
  OBVIOUS
<1>10. V \in SUBSET {x.earned : x \in c} /\ r.earned \in {x.earned : x \in c}
  BY <1>3, <1>7
<1>11. IsFiniteSet(V)
  <2>1. PICK e : e = [x \in low |-> x.earned]
    OBVIOUS
  <2>2. e \in Surjection(low, V)
    BY <1>7, <2>1 DEF Surjection
  <2> QED
    BY <1>4, <2>2, FS_Surjection
<1>12. Counts(f, G, V)
  <2>1. \A v \in V : G[v] \in SUBSET c /\ f[v] = Cardinality(G[v])
    BY <1>8, <1>9, <1>10
  <2>2. \A v, w \in V : v # w => G[v] \cap G[w] = {}
    BY <1>9
  <2> QED
    BY <2>1, <2>2, FS_Subset DEF Counts
<1>13. Gathered(G, V) = low
  <2>1. ASSUME NEW x \in low PROVE x.earned \in V /\ x \in G[x.earned]
    BY <1>3, <1>7, <1>9
  <2>2. ASSUME NEW v \in V, NEW x \in G[v] PROVE x \in low
    <3>1. PICK y \in low : v = y.earned
      BY <1>7
    <3>2. x \in c /\ x.earned = v
      BY <1>9
    <3> QED
      BY <1>1, <3>1, <3>2
  <2> QED
    BY <2>1, <2>2 DEF Gathered
<1>14. SumOf(f, V) = Cardinality(low)
  BY <1>11, <1>12, <1>13, SumFibres
<1>15. f[r.earned] = Cardinality(tie)
  BY <1>2, <1>8, <1>10
<1>16. Routes!MidrankPercentile(c, r)
         = ((2 * Routes!SumOf(f, V) + f[r.earned] - 1) * Unit) \div (2 * (Cardinality(c) - 1))
  <2>1. f = [v \in {x.earned : x \in c} |-> Routes!Cardinality({x \in c : x.earned = v})]
    BY <1>8, RouteOperators
  <2>2. Routes!MidrankPercentile(c, r)
         = ((2 * Routes!SumOf(f, V) + f[r.earned] - 1) * Unit) \div (2 * (Routes!Cardinality(c) - 1))
    BY <1>1, <1>7, <2>1 DEF Routes!MidrankPercentile
  <2> QED
    BY <2>2, RouteOperators
<1>17. Routes!MidrankPercentile(c, r) = Routes!ContributionPercentile(c, r)
  BY <1>5, <1>14, <1>15, <1>16, RouteOperators
<1> QED
  BY <1>6, <1>17

\* What of a cohort the order looks at.
CohortOK(c) ==
  /\ IsFiniteSet(c) /\ Cardinality(c) \in Nat
  /\ \A r \in c : r.node \in Nat /\ r.tps \in Nat /\ r.active \in Nat /\ r.score \in Nat
  /\ \A r, x \in c : r.instance = x.instance \/ r.node = x.node => r = x

\* The best score of a cohort is one of its scores.
LEMMA BestOfCohort ==
  ASSUME NEW c, CohortOK(c), c # {}
  PROVE  \E b \in c : /\ Routes!BestScore(c) = b.score
                      /\ \A x \in c : x.score <= b.score
<1>1. IsFiniteSet(c) /\ \A x \in c : x.score \in Nat
  BY DEF CohortOK
<1>2. PICK f : f = [x \in c |-> x.score]
  OBVIOUS
<1>3. \A x \in c : f[x] = x.score /\ f[x] \in Int
  BY <1>1, <1>2
<1>4. PICK b \in c : \A x \in c : f[x] <= f[b]
  BY <1>1, <1>3, GreatestValue
<1>5. \A x \in c : x.score <= b.score
  BY <1>3, <1>4
<1>6. PICK scores : scores = {0} \cup {x.score : x \in c}
  OBVIOUS
<1>7. b.score \in scores /\ \A k \in scores : k \in Nat /\ b.score >= k
  BY <1>1, <1>5, <1>6
<1>8. Routes!Max(scores) \in scores /\ \A k \in scores : Routes!Max(scores) >= k
  BY <1>7 DEF Routes!Max
<1>9. Routes!Max(scores) = b.score
  <2>1. Routes!Max(scores) \in Nat /\ b.score \in Nat /\ Routes!Max(scores) >= b.score /\ b.score >= Routes!Max(scores)
    BY <1>7, <1>8
  <2> QED
    BY <2>1
<1> QED
  BY <1>5, <1>6, <1>9 DEF Routes!BestScore

\* Near the best score is near every score.
LEMMA NearAll ==
  ASSUME NEW c, CohortOK(c), NEW r \in c
  PROVE  /\ Routes!NearBest(r.score, Routes!BestScore(c))
               <=> \A x \in c : r.score * NearDenominator >= x.score * NearNumerator
         /\ \E b \in c : Routes!NearBest(b.score, Routes!BestScore(c))
         /\ (\A x \in c : r.score >= x.score) =>
              \A x \in c : r.score * NearDenominator >= x.score * NearNumerator
<1>1. NearNumerator \in Nat /\ NearDenominator \in Nat /\ NearNumerator <= NearDenominator
  BY RoutingAssumption
<1>2. PICK b \in c : Routes!BestScore(c) = b.score /\ \A x \in c : x.score <= b.score
  BY BestOfCohort
<1>3. \A x \in c : x.score \in Nat
  BY DEF CohortOK
<1> DEFINE N == NearNumerator
           D == NearDenominator
<1>4. N \in Nat /\ D \in Nat /\ N <= D
  BY <1>1
<1> HIDE DEF N, D
<1>5. \A s, t \in Nat : s <= t => s * N <= t * N /\ s * N \in Nat /\ t * N \in Nat
  BY <1>4
<1>6. \A s \in Nat : s * N <= s * D /\ s * D \in Nat
  BY <1>4
<1>7. \A s, t \in Nat : s >= t => s * D >= t * N
  <2> SUFFICES ASSUME NEW s \in Nat, NEW t \in Nat, s >= t PROVE s * D >= t * N
    OBVIOUS
  <2>1. t * N <= s * N /\ t * N \in Nat /\ s * N \in Nat
    BY <1>5
  <2>2. s * N <= s * D /\ s * D \in Nat
    BY <1>6
  <2> QED
    BY <2>1, <2>2
<1>8. Routes!NearBest(b.score, Routes!BestScore(c))
  <2>1. b.score * D >= b.score * N
    BY <1>3, <1>7
  <2> QED
    BY <1>2, <2>1 DEF Routes!NearBest, N, D
<1>9. ASSUME r.score * D >= b.score * N, NEW x \in c PROVE r.score * D >= x.score * N
  <2>1. x.score * N <= b.score * N /\ x.score * N \in Nat /\ b.score * N \in Nat
    BY <1>2, <1>3, <1>5
  <2>2. r.score * D \in Nat
    BY <1>3, <1>6
  <2> QED
    BY <1>9, <2>1, <2>2
<1>10. Routes!NearBest(r.score, Routes!BestScore(c)) <=> r.score * D >= b.score * N
  BY <1>2 DEF Routes!NearBest, N, D
<1>11. (\A x \in c : r.score >= x.score) => \A x \in c : r.score * D >= x.score * N
  BY <1>3, <1>7
<1> QED
  BY <1>8, <1>9, <1>10, <1>11 DEF N, D

\* The candidates with their keys can be ordered.
LEMMA KeysFull ==
  ASSUME NEW c, CohortOK(c), NEW congested, congested => Cardinality(c) >= 2,
         NEW best, NEW speed
  PROVE  /\ IsFiniteSet(Routes!Ranked(c, best, congested, speed))
         /\ FullKeys(Routes!Ranked(c, best, congested, speed))
<1> DEFINE K == Routes!Ranked(c, best, congested, speed)
           key(r) == Routes!SortKey(c, r, best, congested, speed)
<1>1. K = {[instance |-> r.instance, key |-> key(r)] : r \in c}
  BY DEF Routes!Ranked
<1>2. IsFiniteSet(K)
  <2> DEFINE g == [r \in c |-> [instance |-> r.instance, key |-> key(r)]]
  <2>1. g \in Surjection(c, K)
    BY <1>1 DEF Surjection
  <2> HIDE DEF g
  <2> QED
    BY <2>1, FS_Surjection DEF CohortOK
<1>3. ASSUME NEW r \in c
      PROVE  /\ DOMAIN key(r) = 1 .. 5 /\ \A p \in 1 .. 5 : key(r)[p] \in Int
             /\ key(r)[5] = 0 - r.node /\ r.node \in Nat
  <2>1. r.node \in Nat /\ r.tps \in Nat /\ r.active \in Nat /\ r.score \in Nat
    BY DEF CohortOK
  <2>2. congested => Routes!ContributionPercentile(c, r) \in Nat
    BY MidranksAgree DEF CohortOK
  <2>3. PICK a, b, d : /\ a = IF speed = "fast" THEN r.tps ELSE 0
                       /\ b = IF speed = "slow" THEN r.active ELSE 0
                       /\ d = IF congested /\ Routes!NearBest(r.score, best)
                              THEN Routes!ContributionPercentile(c, r) ELSE 0 - 1
    OBVIOUS
  <2>4. a \in Int /\ b \in Int /\ d \in Int /\ 0 - r.node \in Int
    BY <2>1, <2>2, <2>3
  <2>5. key(r) = <<a, b, d, r.score, 0 - r.node>>
    BY <2>3 DEF Routes!SortKey
  <2> HIDE DEF key
  <2> QED
    BY <2>1, <2>4, <2>5
<1>4. FullKeys(K)
  <2>1. \A k \in K : DOMAIN k.key = 1 .. 5 /\ \A p \in 1 .. 5 : k.key[p] \in Int
    BY <1>1, <1>3
  <2>2. ASSUME NEW k \in K, NEW l \in K, k.key[5] = l.key[5] PROVE k = l
    <3>1. PICK r \in c : k = [instance |-> r.instance, key |-> key(r)]
      BY <1>1
    <3>2. PICK x \in c : l = [instance |-> x.instance, key |-> key(x)]
      BY <1>1
    <3> HIDE DEF key
    <3>3. 0 - r.node = 0 - x.node /\ r.node \in Nat /\ x.node \in Nat
      BY <1>3, <2>2, <3>1, <3>2
    <3>4. r.node = x.node
      BY <3>3
    <3>5. r = x
      BY <3>4 DEF CohortOK
    <3> QED
      BY <3>1, <3>2, <3>5
  <2> QED
    BY <2>1, <2>2 DEF FullKeys
<1> QED
  BY <1>2, <1>4

\* What the order of the query says of a job of the standard class, the library's
\* order says as well, and contribution stays within the window.
LEMMA StandardOrder ==
  ASSUME NEW c, CohortOK(c), NEW congested \in BOOLEAN, congested => Cardinality(c) >= 2, NEW r \in c,
         \A x \in c : x # r =>
           Routes!Precedes(Routes!SortKey(c, r, Routes!BestScore(c), congested, "standard"),
                           Routes!SortKey(c, x, Routes!BestScore(c), congested, "standard"))
  PROVE  \A x \in c :
           /\ x # r => Routes!Precedes(Routes!ReferenceKey(c, r, congested),
                                      Routes!ReferenceKey(c, x, congested))
           /\ r.score * NearDenominator >= x.score * NearNumerator
           /\ ~ congested => r.score >= x.score
<1>1. PICK best : best = Routes!BestScore(c)
  OBVIOUS
<1>2. \A x \in c : /\ x.score \in Nat /\ x.node \in Nat
                   /\ congested => /\ Routes!ContributionPercentile(c, x) \in Nat
                                   /\ Routes!MidrankPercentile(c, x) = Routes!ContributionPercentile(c, x)
  BY MidranksAgree DEF CohortOK
<1>3. PICK share : share = [x \in c |-> IF congested /\ Routes!NearBest(x.score, best)
                                       THEN Routes!ContributionPercentile(c, x) ELSE 0 - 1]
  OBVIOUS
<1>4. \A x \in c : /\ share[x] \in Int
                   /\ share[x] = IF congested /\ Routes!NearBest(x.score, best)
                                 THEN Routes!ContributionPercentile(c, x) ELSE 0 - 1
  BY <1>2, <1>3
<1>5. \A x \in c : Routes!SortKey(c, x, best, congested, "standard")
                     = <<0, 0, share[x], x.score, 0 - x.node>>
  BY <1>4 DEF Routes!SortKey
<1>6. \A x \in c : Routes!ReferenceKey(c, x, congested) = <<share[x], x.score, 0 - x.node>>
  <2> SUFFICES ASSUME NEW x \in c
               PROVE  Routes!ReferenceKey(c, x, congested) = <<share[x], x.score, 0 - x.node>>
    OBVIOUS
  <2>1. Routes!NearBest(x.score, best)
          <=> \A y \in c : x.score * NearDenominator >= y.score * NearNumerator
    BY <1>1, NearAll
  <2> QED
    BY <1>2, <1>4, <2>1 DEF Routes!ReferenceKey
<1>7. ASSUME NEW x \in c, x # r
      PROVE  \/ share[r] > share[x]
             \/ share[r] = share[x] /\ r.score > x.score
             \/ share[r] = share[x] /\ r.score = x.score /\ 0 - r.node > 0 - x.node
  <2>1. Routes!Precedes(<<0, 0, share[r], r.score, 0 - r.node>>, <<0, 0, share[x], x.score, 0 - x.node>>)
    BY <1>1, <1>5, <1>7
  <2>2. PICK a, b : /\ a = <<0, 0, share[r], r.score, 0 - r.node>>
                    /\ b = <<0, 0, share[x], x.score, 0 - x.node>>
    OBVIOUS
  <2>3. PICK p \in 1 .. 5 : a[p] > b[p] /\ \A q \in 1 .. p - 1 : a[q] = b[q]
    BY <2>1, <2>2 DEF Routes!Precedes
  <2>4. p = 1 \/ p = 2 \/ p = 3 \/ p = 4 \/ p = 5
    OBVIOUS
  <2>5. a[1] = 0 /\ b[1] = 0 /\ a[2] = 0 /\ b[2] = 0 /\ a[3] = share[r] /\ b[3] = share[x]
        /\ a[4] = r.score /\ b[4] = x.score /\ a[5] = 0 - r.node /\ b[5] = 0 - x.node
    BY <2>2
  <2>6. CASE p = 3
    BY <2>3, <2>5, <2>6
  <2>7. CASE p = 4
    <3>1. a[3] = b[3]
      BY <2>3, <2>7
    <3> QED
      BY <2>3, <2>5, <2>7, <3>1
  <2>8. CASE p = 5
    <3>1. a[3] = b[3] /\ a[4] = b[4]
      BY <2>3, <2>8
    <3> QED
      BY <2>3, <2>5, <2>8, <3>1
  <2> QED
    BY <2>3, <2>4, <2>5, <2>6, <2>7, <2>8
<1>8. ASSUME NEW x \in c, x # r
      PROVE  Routes!Precedes(Routes!ReferenceKey(c, r, congested), Routes!ReferenceKey(c, x, congested))
  <2>1. PICK a, b : a = <<share[r], r.score, 0 - r.node>> /\ b = <<share[x], x.score, 0 - x.node>>
    OBVIOUS
  <2>2. /\ DOMAIN a = 1 .. 3 /\ a[1] = share[r] /\ a[2] = r.score /\ a[3] = 0 - r.node
        /\ b[1] = share[x] /\ b[2] = x.score /\ b[3] = 0 - x.node
    BY <2>1
  <2>3. \E p \in 1 .. 3 : a[p] > b[p] /\ \A q \in 1 .. p - 1 : a[q] = b[q]
    <3>1. CASE share[r] > share[x]
      <4>1. a[1] > b[1] /\ \A q \in 1 .. 1 - 1 : a[q] = b[q]
        BY <2>2, <3>1
      <4> QED
        BY <4>1
    <3>2. CASE share[r] = share[x] /\ r.score > x.score
      <4>1. a[2] > b[2] /\ \A q \in 1 .. 2 - 1 : a[q] = b[q]
        BY <2>2, <3>2
      <4> QED
        BY <4>1
    <3>3. CASE share[r] = share[x] /\ r.score = x.score /\ 0 - r.node > 0 - x.node
      <4>1. a[3] > b[3] /\ \A q \in 1 .. 3 - 1 : a[q] = b[q]
        BY <2>2, <3>3
      <4> QED
        BY <4>1
    <3> QED
      BY <1>7, <1>8, <3>1, <3>2, <3>3
  <2>4. Routes!Precedes(a, b)
    BY <2>2, <2>3 DEF Routes!Precedes
  <2> QED
    BY <1>6, <2>1, <2>4
<1>9. ~ congested => \A x \in c : r.score >= x.score
  <2> SUFFICES ASSUME ~ congested, NEW x \in c PROVE r.score >= x.score
    OBVIOUS
  <2>1. share[r] = 0 - 1 /\ share[x] = 0 - 1 /\ r.score \in Nat /\ x.score \in Nat
    BY <1>2, <1>4
  <2> QED
    BY <1>7, <2>1
<1>10. \A x \in c : r.score * NearDenominator >= x.score * NearNumerator
  <2>1. CASE congested
    <3>1. PICK b \in c : Routes!NearBest(b.score, best)
      BY <1>1, NearAll
    <3>2. share[b] \in Nat
      BY <1>2, <1>4, <2>1, <3>1
    <3>3. b = r \/ share[r] >= share[b]
      BY <1>4, <1>7
    <3>4. share[r] # 0 - 1
      BY <1>4, <3>2, <3>3
    <3>5. Routes!NearBest(r.score, best)
      BY <1>4, <3>4
    <3> QED
      BY <1>1, <3>5, NearAll
  <2>2. CASE ~ congested
    BY <1>9, <2>2, NearAll
  <2> QED
    BY <2>1, <2>2
<1> QED
  BY <1>8, <1>9, <1>10

\* The instance selected is that of the first candidate.
LEMMA SelectedIsTop ==
  ASSUME NEW j, NEW c, c = Routes!Cohort(j), NEW congested, congested = Routes!Congested(c, j),
         NEW speed, speed = rjob[j].kind.speed, NEW best, best = Routes!BestScore(c),
         \A r, x \in c : r.instance = x.instance => r = x
  PROVE  /\ \A i \in Routes!Selected(j) : \E r \in c :
              /\ r.instance = i
              /\ \A x \in c : x # r =>
                   Routes!Precedes(Routes!SortKey(c, r, best, congested, speed),
                                   Routes!SortKey(c, x, best, congested, speed))
         /\ (\E m \in Routes!Ranked(c, best, congested, speed) :
                \A y \in Routes!Ranked(c, best, congested, speed) \ {m} : Routes!Precedes(m.key, y.key))
              => Routes!Selected(j) # {}
<1> DEFINE K == Routes!Ranked(c, best, congested, speed)
           key(r) == Routes!SortKey(c, r, best, congested, speed)
<1>1. Routes!Selected(j) = Routes!Top(K)
  BY DEF Routes!Selected
<1>2. Routes!Top(K) = {r.instance : r \in {x \in K : \A y \in K \ {x} : Routes!Precedes(x.key, y.key)}}
  BY DEF Routes!Top
<1>3. K = {[instance |-> r.instance, key |-> key(r)] : r \in c}
  BY DEF Routes!Ranked
<1>4. ASSUME NEW i \in Routes!Selected(j)
      PROVE  \E r \in c : r.instance = i /\ \A x \in c : x # r => Routes!Precedes(key(r), key(x))
  <2>1. PICK m \in K : m.instance = i /\ \A y \in K \ {m} : Routes!Precedes(m.key, y.key)
    BY <1>1, <1>2
  <2>2. PICK r \in c : m = [instance |-> r.instance, key |-> key(r)]
    BY <1>3
  <2> HIDE DEF key
  <2>3. ASSUME NEW x \in c, x # r PROVE Routes!Precedes(key(r), key(x))
    <3>1. x.instance # r.instance
      BY <2>3
    <3>2. PICK y \in K : y = [instance |-> x.instance, key |-> key(x)]
      BY <1>3
    <3>3. y # m /\ y.key = key(x) /\ m.key = key(r)
      BY <2>2, <3>1, <3>2
    <3> QED
      BY <2>1, <3>3
  <2> QED
    BY <2>1, <2>2, <2>3
<1>5. (\E m \in K : \A y \in K \ {m} : Routes!Precedes(m.key, y.key)) => Routes!Selected(j) # {}
  <2> HIDE DEF K
  <2> QED
    BY <1>1, <1>2
<1> QED
  BY <1>4, <1>5

\* What must be true of what a claim decided on.
FairChoice(ch) ==
  /\ ch.speed = "standard" =>
       \E r \in ch.cohort : \A x \in ch.cohort :
         /\ r.instance = ch.instance
         /\ x # r => Routes!Precedes(Routes!ReferenceKey(ch.cohort, r, ch.congested),
                                     Routes!ReferenceKey(ch.cohort, x, ch.congested))
         /\ r.score * NearDenominator >= x.score * NearNumerator
         /\ ~ ch.congested => r.score >= x.score
  /\ ch.speed # "slow" => ch.shared = 0
RoutingInv ==
  /\ RoutingTables
  /\ chosen # None => FairChoice(chosen)
  /\ \A n \in DOMAIN NodeFacts : Cardinality(LeasedAt(n)) <= NodeFacts[n].max_concurrent

\* An instance that may take a waiting job passes the check of the policy.
LEMMA FitWithin ==
  ASSUME RoutingTables, NEW j \in RJob, Routes!Ready(j), NEW i \in Fit(j)
  PROVE  /\ Routes!WithinPolicy(Routes!NodeOf(i), rjob[j].kind.tags)
         /\ rjob[j].kind.speed # "slow" => Routes!ActiveCount(Routes!NodeOf(i), j) = 0
<1>1. i \in Instance /\ Routes!Eligible(i, Routes!NodeOf(i), j, rjob[j].kind)
  BY DEF Fit
<1>2. PICK n \in DOMAIN NodeFacts : n = Routes!NodeOf(i)
  BY <1>1, RoutingAssumption DEF Routes!NodeOf
<1>3. NodeFacts[n].max_concurrent \in Nat \ {0}
  BY RoutingAssumption
<1>4. /\ Routes!Occupied(n, j) \in Nat /\ Routes!ActiveCount(n, j) \in Nat
      /\ Routes!ActiveCount(n, j) <= Routes!Occupied(n, j)
  BY OccupiedType
<1>5. rjob[j].status # "leased"
  BY DEF Routes!Ready
<1>6. /\ Cardinality(LeasedAt(n)) + Cardinality({n} \cap held) <= Routes!ActiveCount(n, j)
      /\ Cardinality(LeasedAt(n)) \in Nat /\ Cardinality({n} \cap held) \in Nat
  BY <1>5, ActiveCounts
<1>7. /\ NodeFacts[n].reject_tags \cap rjob[j].kind.tags = {}
      /\ NodeFacts[n].limited => Routes!Metric(n, "fits", FALSE)
      /\ Routes!HasRoom(n, j, rjob[j].kind.speed)
  BY <1>1, <1>2 DEF Routes!Eligible, Routes!Accepts
<1>8. IF rjob[j].kind.speed = "slow" THEN Routes!Occupied(n, j) < NodeFacts[n].max_concurrent
      ELSE Routes!Occupied(n, j) = 0
  BY <1>7 DEF Routes!HasRoom
<1>9. rjob[j].kind.speed # "slow" => Routes!ActiveCount(n, j) = 0
  BY <1>4, <1>8
<1>10. Cardinality(LeasedAt(n)) + Cardinality({n} \cap held) < NodeFacts[n].max_concurrent
  <2> DEFINE a == Cardinality(LeasedAt(n))
             b == Cardinality({n} \cap held)
             m == NodeFacts[n].max_concurrent
             o == Routes!Occupied(n, j)
             v == Routes!ActiveCount(n, j)
  <2>1. a \in Nat /\ b \in Nat /\ m \in Nat \ {0} /\ o \in Nat /\ v \in Nat /\ a + b <= v /\ v <= o
        /\ (o < m \/ o = 0)
    BY <1>3, <1>4, <1>6, <1>8
  <2> HIDE DEF a, b, m, o, v
  <2>2. a + b < m
    BY <2>1
  <2> QED
    BY <2>2 DEF a, b, m
<1>11. Routes!WithinPolicy(n, rjob[j].kind.tags)
  BY <1>7, <1>10, RouteOperators DEF Routes!WithinPolicy, LeasedAt
<1> QED
  BY <1>2, <1>9, <1>11

\* What is selected for a job, and that something is when there is a candidate.
LEMMA SelectionHolds ==
  ASSUME RoutingTables, NEW j \in RJob, NEW c, c = Routes!Cohort(j)
  PROVE  /\ c # {} => Routes!Selected(j) # {}
         /\ \A i \in Routes!Selected(j) :
              /\ i \in Fit(j)
              /\ rjob[j].kind.speed = "standard" =>
                   \E r \in c : \A x \in c :
                     /\ r.instance = i
                     /\ x # r => Routes!Precedes(Routes!ReferenceKey(c, r, Routes!Congested(c, j)),
                                                 Routes!ReferenceKey(c, x, Routes!Congested(c, j)))
                     /\ r.score * NearDenominator >= x.score * NearNumerator
                     /\ ~ Routes!Congested(c, j) => r.score >= x.score
<1>1. /\ IsFiniteSet(c)
      /\ \A r \in c : /\ r.instance \in Fit(j) /\ r.node = Routes!NodeOf(r.instance)
                      /\ r.node \in Nat /\ r.tps \in Nat /\ r.active \in Nat /\ r.score \in Nat
      /\ \A r, x \in c : r.instance = x.instance \/ r.node = x.node => r = x
  BY CohortFine
<1>2. CohortOK(c)
  BY <1>1, FS_CardinalityType DEF CohortOK
<1>3. PICK congested : congested = Routes!Congested(c, j)
  OBVIOUS
<1>4. congested \in BOOLEAN
  BY <1>3 DEF Routes!Congested
<1>5. congested => Cardinality(c) >= 2
  <2>1. congested => Cardinality(c) >= MinCohort
    BY <1>3, RouteOperators DEF Routes!Congested
  <2>2. MinCohort \in Nat \ {0, 1}
    BY RoutingAssumption
  <2>3. MinCohort >= 2 /\ MinCohort \in Nat
    BY <2>2
  <2>4. Cardinality(c) \in Nat
    BY <1>2 DEF CohortOK
  <2> QED
    BY <2>1, <2>3, <2>4
<1>6. PICK speed : speed = rjob[j].kind.speed
  OBVIOUS
<1>7. PICK best : best = Routes!BestScore(c)
  OBVIOUS
<1>8. /\ \A i \in Routes!Selected(j) : \E r \in c :
           /\ r.instance = i
           /\ \A x \in c : x # r =>
                Routes!Precedes(Routes!SortKey(c, r, best, congested, speed),
                                Routes!SortKey(c, x, best, congested, speed))
      /\ (\E m \in Routes!Ranked(c, best, congested, speed) :
             \A y \in Routes!Ranked(c, best, congested, speed) \ {m} : Routes!Precedes(m.key, y.key))
           => Routes!Selected(j) # {}
  <2>1. \A r, x \in c : r.instance = x.instance => r = x
    BY <1>1
  <2> QED
    BY <1>3, <1>6, <1>7, <2>1, SelectedIsTop
<1>9. ASSUME c # {} PROVE Routes!Selected(j) # {}
  <2>1. PICK K : K = Routes!Ranked(c, best, congested, speed)
    OBVIOUS
  <2>2. IsFiniteSet(K) /\ FullKeys(K)
    BY <1>2, <1>5, <2>1, KeysFull
  <2>3. K # {}
    BY <1>9, <2>1 DEF Routes!Ranked
  <2>4. \E m \in K : \A y \in K \ {m} : Routes!Precedes(m.key, y.key)
    BY <2>2, <2>3, SomeoneIsTop
  <2> QED
    BY <1>8, <2>1, <2>4
<1>10. ASSUME NEW i \in Routes!Selected(j)
       PROVE  /\ i \in Fit(j)
              /\ speed = "standard" =>
                   \E r \in c : \A x \in c :
                     /\ r.instance = i
                     /\ x # r => Routes!Precedes(Routes!ReferenceKey(c, r, congested),
                                                 Routes!ReferenceKey(c, x, congested))
                     /\ r.score * NearDenominator >= x.score * NearNumerator
                     /\ ~ congested => r.score >= x.score
  <2>1. PICK r \in c :
           /\ r.instance = i
           /\ \A x \in c : x # r =>
                Routes!Precedes(Routes!SortKey(c, r, best, congested, speed),
                                Routes!SortKey(c, x, best, congested, speed))
    BY <1>8
  <2>2. i \in Fit(j)
    BY <1>1, <2>1
  <2>3. ASSUME speed = "standard"
        PROVE  \A x \in c :
           /\ x # r => Routes!Precedes(Routes!ReferenceKey(c, r, congested),
                                      Routes!ReferenceKey(c, x, congested))
           /\ r.score * NearDenominator >= x.score * NearNumerator
           /\ ~ congested => r.score >= x.score
    <3>1. \A x \in c : x # r =>
           Routes!Precedes(Routes!SortKey(c, r, Routes!BestScore(c), congested, "standard"),
                           Routes!SortKey(c, x, Routes!BestScore(c), congested, "standard"))
      BY <1>7, <2>1, <2>3
    <3> QED
      BY <1>2, <1>4, <1>5, <3>1, StandardOrder
  <2> QED
    BY <2>1, <2>2, <2>3
<1> QED
  BY <1>3, <1>6, <1>9, <1>10

\* While a waiting job has a candidate, some instance may claim one.
LEMMA SomeoneServed ==
  ASSUME RoutingTables
  PROVE  Routes!SomeoneIsServed
<1> SUFFICES ASSUME NEW j0 \in RJob, Routes!Ready(j0), Routes!Cohort(j0) # {}
             PROVE  \E offers \in {Routes!Offers}, i \in Instance, j \in RJob : Routes!MayClaim(offers, i, j)
  BY DEF Routes!SomeoneIsServed
<1>1. PICK i \in Routes!Selected(j0) : TRUE
  <2>1. Routes!Selected(j0) # {}
    BY SelectionHolds
  <2> QED
    BY <2>1
<1>2. PICK offers : offers = Routes!Offers
  OBVIOUS
<1>3. \A j \in RJob : offers[j] = IF Routes!Ready(j) THEN Routes!Selected(j) ELSE {}
  BY <1>2 DEF Routes!Offers
<1>4. RJob \in SUBSET Nat /\ RJob = 1 .. Cardinality(RJob) /\ Cardinality(RJob) \in Nat
  BY RoutingAssumption, FS_CardinalityType
<1>5. PICK S : S = {j \in RJob : i \in offers[j]}
  OBVIOUS
<1>6. j0 \in S /\ S \in SUBSET Nat
  BY <1>1, <1>3, <1>4, <1>5
<1>7. PICK j \in S : \A k \in S : j <= k
  BY <1>6, LeastNumber
<1>8. j \in RJob /\ i \in offers[j] /\ Routes!Ready(j) /\ i \in Routes!Selected(j)
  BY <1>3, <1>5, <1>7
<1>9. i \in Fit(j)
  BY <1>8, SelectionHolds
<1>10. \A x \in 1 .. j - 1 : i \notin offers[x]
  <2> SUFFICES ASSUME NEW x \in 1 .. j - 1 PROVE x \in RJob /\ x \notin S
    BY <1>5
  <2>1. j \in Nat /\ j <= Cardinality(RJob) /\ x \in RJob /\ x < j
    BY <1>4, <1>8
  <2> QED
    BY <1>7, <2>1
<1>11. Routes!WithinPolicy(Routes!NodeOf(i), rjob[j].kind.tags)
  BY <1>8, <1>9, FitWithin
<1>12. Routes!MayClaim(offers, i, j) /\ i \in Instance
  BY <1>8, <1>9, <1>10, <1>11 DEF Routes!MayClaim, Fit
<1> QED
  BY <1>2, <1>8, <1>12

\* At first no job is leased.
LEMMA RoutesInit == Routes!Init => RoutingInv
<1> SUFFICES ASSUME Routes!Init PROVE RoutingInv
  OBVIOUS
<1>1. /\ rjob = [j \in RJob |-> [status |-> "new", kind |-> None, model |-> None, at |-> None, attempts |-> 0]]
      /\ metrics = FirstMetrics /\ chosen = None
  BY DEF Routes!Init
<1>2. RoutingTables
  BY <1>1, RoutingAssumption DEF RoutingTables, IsJobRow
<1>3. ASSUME NEW n \in DOMAIN NodeFacts PROVE Cardinality(LeasedAt(n)) <= NodeFacts[n].max_concurrent
  <2>1. LeasedAt(n) = {}
    BY <1>1 DEF LeasedAt
  <2>2. Cardinality(LeasedAt(n)) = 0
    BY <2>1, FS_EmptySet
  <2> QED
    BY <2>2, RoutingAssumption
<1> QED
  BY <1>1, <1>2, <1>3 DEF RoutingInv

\* A step after which a node works on no more jobs than before.
LEMMA LimitsStay ==
  ASSUME RoutingInv, RoutingTables', chosen' = None,
         \A n \in DOMAIN NodeFacts : LeasedAt(n)' \in SUBSET LeasedAt(n)
  PROVE  RoutingInv'
<1>1. ASSUME NEW n \in DOMAIN NodeFacts PROVE Cardinality(LeasedAt(n)') <= NodeFacts[n].max_concurrent
  <2>1. PICK j : j \in RJob \/ RJob = {}
    OBVIOUS
  <2>2. PICK S, T : S = LeasedAt(n) /\ T = LeasedAt(n)'
    OBVIOUS
  <2>3. IsFiniteSet(S) /\ T \in SUBSET S
    <3>1. S \in SUBSET RJob
      BY <2>2 DEF LeasedAt
    <3> QED
      BY <2>2, <3>1, RoutingAssumption, FS_Subset
  <2>4. Cardinality(T) <= Cardinality(S) /\ Cardinality(T) \in Nat /\ Cardinality(S) \in Nat
    BY <2>3, FS_Subset, FS_CardinalityType
  <2>5. Cardinality(S) <= NodeFacts[n].max_concurrent /\ NodeFacts[n].max_concurrent \in Nat
    BY <2>2, RoutingAssumption DEF RoutingInv
  <2> QED
    BY <2>2, <2>4, <2>5
<1> QED
  BY <1>1 DEF RoutingInv

\* A job that is not leased afterwards.
LEMMA JobStops ==
  ASSUME RoutingInv, NEW j \in RJob, NEW row, IsJobRow(row), row.status # "leased",
         rjob' = [rjob EXCEPT ![j] = row], metrics' = metrics, chosen' = None
  PROVE  RoutingInv'
<1>1. RoutingTables
  BY DEF RoutingInv
<1>2. rjob'[j] = row /\ \A x \in RJob : x # j => rjob'[x] = rjob[x]
  BY <1>1 DEF RoutingTables
<1>3. rjob' = [x \in RJob |-> rjob'[x]]
  BY <1>1 DEF RoutingTables
<1>4. RoutingTables'
  BY <1>1, <1>2, <1>3 DEF RoutingTables
<1>5. \A n \in DOMAIN NodeFacts : LeasedAt(n)' \in SUBSET LeasedAt(n)
  BY <1>2 DEF LeasedAt
<1> QED
  BY <1>4, <1>5, LimitsStay

\* The steps of a job other than its claim, and those of a node.
LEMMA RoutesOther ==
  ASSUME RoutingInv,
         \/ \E j \in RJob : (\E k \in Kinds[j] : Routes!CreateJob(j, k))
                            \/ Routes!Settle(j) \/ Routes!Fail(j) \/ Routes!Lapse(j)
         \/ \E n \in Routes!Node : (\E row \in Beats : Routes!Heartbeat(n, row))
                                  \/ Routes!Hold(n) \/ Routes!ReleaseHold(n)
  PROVE  RoutingInv'
<1>1. RoutingTables
  BY DEF RoutingInv
<1>2. ASSUME NEW j \in RJob, Routes!Settle(j) \/ Routes!Fail(j) \/ Routes!Lapse(j)
      PROVE  RoutingInv'
  <2>1. PICK s \in {"done", "queued", "lapsed", "failed"} : rjob' = [rjob EXCEPT ![j].status = s]
    BY <1>2 DEF Routes!Settle, Routes!Fail, Routes!Lapse
  <2>2. metrics' = metrics /\ chosen' = None
    BY <1>2 DEF Routes!Settle, Routes!Fail, Routes!Lapse
  <2>3. PICK row : row = [rjob[j] EXCEPT !.status = s]
    OBVIOUS
  <2>4. IsJobRow(row) /\ row.status = s /\ rjob' = [rjob EXCEPT ![j] = row]
    BY <1>1, <2>1, <2>3 DEF RoutingTables, IsJobRow
  <2> QED
    BY <2>2, <2>4, JobStops
<1>3. ASSUME NEW j \in RJob, NEW k \in Kinds[j], Routes!CreateJob(j, k) PROVE RoutingInv'
  <2>1. PICK m : /\ rjob' = [rjob EXCEPT ![j].status = "queued", ![j].kind = k, ![j].model = m]
                 /\ metrics' = metrics /\ chosen' = None
    BY <1>3 DEF Routes!CreateJob
  <2>2. PICK row : row = [status |-> "queued", kind |-> k, model |-> m, at |-> rjob[j].at,
                         attempts |-> rjob[j].attempts]
    OBVIOUS
  <2>3. IsJobRow(row) /\ row.status = "queued"
    BY <2>2 DEF IsJobRow
  <2>4. rjob' = [rjob EXCEPT ![j] = row]
    <3>1. PICK old : old = rjob[j] /\ IsJobRow(old)
      BY <1>1 DEF RoutingTables
    <3>2. row = [old EXCEPT !.status = "queued", !.kind = k, !.model = m]
      <4>1. PICK a, b, d, e, f : old = [status |-> a, kind |-> b, model |-> d, at |-> e, attempts |-> f]
        BY <3>1 DEF IsJobRow
      <4>2. row = [status |-> "queued", kind |-> k, model |-> m, at |-> e, attempts |-> f]
        BY <2>2, <3>1, <4>1
      <4>3. PICK one : one = [old EXCEPT !.status = "queued"]
        OBVIOUS
      <4>4. one = [status |-> "queued", kind |-> b, model |-> d, at |-> e, attempts |-> f]
        BY <4>1, <4>3
      <4>5. PICK two : two = [one EXCEPT !.kind = k]
        OBVIOUS
      <4>6. two = [status |-> "queued", kind |-> k, model |-> d, at |-> e, attempts |-> f]
        BY <4>4, <4>5
      <4>7. [two EXCEPT !.model = m] = row
        BY <4>2, <4>6
      <4> QED
        BY <4>3, <4>5, <4>7
    <3>3. rjob' = [rjob EXCEPT ![j] = [old EXCEPT !.status = "queued", !.kind = k, !.model = m]]
      BY <1>1, <2>1, <3>1 DEF RoutingTables
    <3> QED
      BY <3>2, <3>3
  <2> QED
    BY <2>1, <2>3, <2>4, JobStops
<1>4. ASSUME NEW n \in Routes!Node, NEW row \in Beats, Routes!Heartbeat(n, row) PROVE RoutingInv'
  <2>1. rjob' = rjob /\ chosen' = None /\ metrics' = [metrics EXCEPT ![n] = row]
    BY <1>4 DEF Routes!Heartbeat
  <2>2. ReportedRow(row)
    BY RoutingAssumption
  <2>3. RoutingTables'
    BY <1>1, <2>1, <2>2 DEF RoutingTables
  <2>4. \A x \in DOMAIN NodeFacts : LeasedAt(x)' \in SUBSET LeasedAt(x)
    BY <2>1 DEF LeasedAt
  <2> QED
    BY <2>1, <2>3, <2>4, LimitsStay
<1>5. ASSUME NEW n \in Routes!Node, Routes!Hold(n) \/ Routes!ReleaseHold(n) PROVE RoutingInv'
  <2>1. rjob' = rjob /\ chosen' = None /\ metrics' = metrics
    BY <1>5 DEF Routes!Hold, Routes!ReleaseHold
  <2>2. RoutingTables'
    BY <1>1, <2>1 DEF RoutingTables
  <2>3. \A x \in DOMAIN NodeFacts : LeasedAt(x)' \in SUBSET LeasedAt(x)
    BY <2>1 DEF LeasedAt
  <2> QED
    BY <2>1, <2>2, <2>3, LimitsStay
<1> QED
  BY <1>2, <1>3, <1>4, <1>5

\* A claim takes the instance selected, and the check of the policy leaves it room.
LEMMA RoutesClaim ==
  ASSUME RoutingInv, NEW i \in Instance, Routes!ClaimJob(i)
  PROVE  RoutingInv'
<1>1. RoutingTables
  BY DEF RoutingInv
<1>2. PICK offers \in {Routes!Offers}, j \in RJob :
        /\ Routes!MayClaim(offers, i, j)
        /\ rjob' = [rjob EXCEPT ![j].status = "leased", ![j].at = i, ![j].attempts = @ + 1]
        /\ \E c \in {Routes!Cohort(j)} :
             chosen' = [speed |-> rjob[j].kind.speed, instance |-> i, cohort |-> c,
                        congested |-> Routes!Congested(c, j),
                        shared |-> Routes!ActiveCount(Routes!NodeOf(i), j)]
        /\ UNCHANGED <<metrics, held, earned, changes>>
  BY DEF Routes!ClaimJob
<1>3. Routes!Ready(j) /\ i \in Routes!Selected(j)
  <2>1. i \in (IF Routes!Ready(j) THEN Routes!Selected(j) ELSE {})
    BY <1>2 DEF Routes!MayClaim, Routes!Offers
  <2> QED
    BY <2>1
<1>4. PICK c : c = Routes!Cohort(j)
  OBVIOUS
<1>5. chosen' = [speed |-> rjob[j].kind.speed, instance |-> i, cohort |-> c,
                 congested |-> Routes!Congested(c, j),
                 shared |-> Routes!ActiveCount(Routes!NodeOf(i), j)]
  BY <1>2, <1>4
<1>6. /\ i \in Fit(j)
      /\ rjob[j].kind.speed = "standard" =>
           \E r \in c : \A x \in c :
             /\ r.instance = i
             /\ x # r => Routes!Precedes(Routes!ReferenceKey(c, r, Routes!Congested(c, j)),
                                         Routes!ReferenceKey(c, x, Routes!Congested(c, j)))
             /\ r.score * NearDenominator >= x.score * NearNumerator
             /\ ~ Routes!Congested(c, j) => r.score >= x.score
  BY <1>1, <1>3, <1>4, SelectionHolds
<1>7. rjob[j].kind.speed # "slow" => Routes!ActiveCount(Routes!NodeOf(i), j) = 0
  BY <1>1, <1>3, <1>6, FitWithin
<1>8. FairChoice(chosen')
  <2>1. PICK ch : ch = chosen'
    OBVIOUS
  <2>2. /\ ch.speed = rjob[j].kind.speed /\ ch.instance = i /\ ch.cohort = c
        /\ ch.congested = Routes!Congested(c, j)
        /\ ch.shared = Routes!ActiveCount(Routes!NodeOf(i), j)
    BY <1>5, <2>1
  <2>3. FairChoice(ch)
    BY <1>6, <1>7, <2>2 DEF FairChoice
  <2> QED
    BY <2>1, <2>3
<1>9. PICK row : row = [status |-> "leased", kind |-> rjob[j].kind, model |-> rjob[j].model, at |-> i,
                       attempts |-> rjob[j].attempts + 1]
  OBVIOUS
<1>10. IsJobRow(row) /\ row.status = "leased" /\ row.at = i
  BY <1>9 DEF IsJobRow
<1>11. rjob' = [rjob EXCEPT ![j] = row]
  <2>1. PICK old : old = rjob[j] /\ IsJobRow(old)
    BY <1>1 DEF RoutingTables
  <2>2. row = [old EXCEPT !.status = "leased", !.at = i, !.attempts = old.attempts + 1]
    <3>1. PICK a, b, d, e, f : old = [status |-> a, kind |-> b, model |-> d, at |-> e, attempts |-> f]
      BY <2>1 DEF IsJobRow
    <3>2. row = [status |-> "leased", kind |-> b, model |-> d, at |-> i, attempts |-> f + 1]
      BY <1>9, <2>1, <3>1
    <3>3. PICK one : one = [old EXCEPT !.status = "leased"]
      OBVIOUS
    <3>4. one = [status |-> "leased", kind |-> b, model |-> d, at |-> e, attempts |-> f]
      BY <3>1, <3>3
    <3>5. PICK two : two = [one EXCEPT !.at = i]
      OBVIOUS
    <3>6. two = [status |-> "leased", kind |-> b, model |-> d, at |-> i, attempts |-> f]
      BY <3>4, <3>5
    <3>7. PICK n : n = old.attempts + 1 /\ n = f + 1
      BY <3>1
    <3>8. [two EXCEPT !.attempts = n] = row
      BY <3>2, <3>6, <3>7
    <3> QED
      BY <3>3, <3>5, <3>7, <3>8
  <2>3. rjob' = [rjob EXCEPT ![j] = [old EXCEPT !.status = "leased", !.at = i, !.attempts = old.attempts + 1]]
    BY <1>1, <1>2, <2>1 DEF RoutingTables
  <2> QED
    BY <2>2, <2>3
<1>12. rjob'[j] = row /\ \A x \in RJob : x # j => rjob'[x] = rjob[x]
  BY <1>1, <1>11 DEF RoutingTables
<1>13. rjob' = [x \in RJob |-> rjob'[x]]
  BY <1>1, <1>11 DEF RoutingTables
<1>14. RoutingTables'
  BY <1>1, <1>2, <1>10, <1>12, <1>13 DEF RoutingTables
<1>15. ASSUME NEW n \in DOMAIN NodeFacts PROVE Cardinality(LeasedAt(n)') <= NodeFacts[n].max_concurrent
  <2>1. PICK S, T : S = LeasedAt(n) /\ T = LeasedAt(n)'
    OBVIOUS
  <2>2. IsFiniteSet(S) /\ Cardinality(S) \in Nat /\ j \notin S
    <3>1. j \notin S
      BY <1>3, <2>1 DEF LeasedAt, Routes!Ready
    <3> QED
      BY <2>1, <3>1, ActiveCounts
  <2>3. CASE n = Routes!NodeOf(i)
    <3>1. T = S \cup {j}
      BY <1>10, <1>12, <2>1, <2>3 DEF LeasedAt
    <3>2. Cardinality(T) = Cardinality(S) + 1
      BY <2>2, <3>1, FS_AddElement
    <3>3. Cardinality(S) + Cardinality({n} \cap held) < NodeFacts[n].max_concurrent
      BY <1>2, <2>1, <2>3, RouteOperators DEF Routes!MayClaim, Routes!WithinPolicy, LeasedAt
    <3>4. Cardinality({n} \cap held) \in Nat /\ NodeFacts[n].max_concurrent \in Nat
      BY ActiveCounts, RoutingAssumption
    <3>5. Cardinality(S) + 1 <= NodeFacts[n].max_concurrent
      BY <2>2, <3>3, <3>4
    <3> QED
      BY <2>1, <3>2, <3>5
  <2>4. CASE n # Routes!NodeOf(i)
    <3>1. T = S
      BY <1>3, <1>10, <1>12, <2>1, <2>4 DEF LeasedAt, Routes!Ready
    <3> QED
      BY <2>1, <3>1 DEF RoutingInv
  <2> QED
    BY <2>3, <2>4
<1> QED
  BY <1>8, <1>14, <1>15 DEF RoutingInv

\* Every step of routing.
LEMMA RoutesNext ==
  ASSUME RoutingInv, [Routes!Next]_routing
  PROVE  RoutingInv'
<1>1. CASE UNCHANGED routing
  <2>1. rjob' = rjob /\ metrics' = metrics /\ chosen' = chosen
    BY <1>1 DEF routing
  <2> QED
    BY <2>1 DEF RoutingInv, RoutingTables, LeasedAt
<1> QED
  BY <1>1, RoutesOther, RoutesClaim DEF Routes!Next

\* What the invariant says of the choices made.
LEMMA ChoicesFair == RoutingInv => Routes!RoutedFairly /\ Routes!SomeoneIsServed
<1> SUFFICES ASSUME RoutingInv PROVE Routes!RoutedFairly /\ Routes!SomeoneIsServed
  OBVIOUS
<1>1. RoutingTables
  BY DEF RoutingInv
<1>2. ASSUME NEW n \in DOMAIN NodeFacts
      PROVE  Routes!Cardinality({j \in RJob : rjob[j].status = "leased" /\ Routes!NodeOf(rjob[j].at) = n})
               <= NodeFacts[n].max_concurrent
  BY RouteOperators DEF RoutingInv, LeasedAt
<1>3. chosen # None => FairChoice(chosen)
  BY DEF RoutingInv
<1>4. Routes!RoutedFairly
  BY <1>2, <1>3 DEF FairChoice, Routes!RoutedFairly, Routes!ReferenceOrder, Routes!Node
<1> QED
  BY <1>1, <1>4, SomeoneServed

\* nodes_models.rs, jobs.rs, routing.rs: whatever commits among the queries, an answer
\* on the standing of a node is one the command line accepts and keeps the privacy of
\* small groups, and without a commit it is exact.  A job of the standard class goes
\* to the node the accounting library's order puts first, no node holds more than
\* its limit, and a waiting job that has a candidate never waits for want of a claim.
THEOREM NodesAlwaysRankedFairly == Spec => []NodesRankedFairly
<1>1. Init => HonorInv /\ RoutingInv
  BY HonorsInit, RoutesInit DEF Init
<1>2. HonorInv /\ RoutingInv /\ [Next]_vars => HonorInv' /\ RoutingInv'
  BY PartSteps, HonorsNext, RoutesNext
<1>3. HonorInv /\ RoutingInv => NodesRankedFairly
  BY ChoicesFair DEF HonorInv, NodesRankedFairly
<1> QED
  BY <1>1, <1>2, <1>3, PTL DEF Spec
=============================================================================
