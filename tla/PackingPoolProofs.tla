-------------------------- MODULE PackingPoolProofs --------------------------
(***************************************************************************)
(* The packing batches of the transaction pool stay within their rules and  *)
(* within the pool, for any limits and any transactions.  First the         *)
(* operations on one sender's batch, then the steps of the pool.            *)
(***************************************************************************)
EXTENDS TransactionPoolProofs

\* What holds of the first element of an interval and passes from each to the next
\* holds of all.
LEMMA Climb ==
  ASSUME NEW lo \in Int, NEW hi \in Int, NEW S, lo \in S,
         \A n \in (lo + 1)..hi : n - 1 \in S => n \in S
  PROVE  \A n \in lo..hi : n \in S
<1> DEFINE B == {k \in Nat : lo + k \in lo..hi /\ lo + k \notin S}
<1>1. CASE B = {}
  <2>1. ASSUME NEW n \in lo..hi PROVE n \in S
    <3>1. n - lo \in Nat /\ lo + (n - lo) = n
      OBVIOUS
    <3>2. n - lo \notin B
      BY <1>1, Zenon
    <3> QED
      BY <3>1, <3>2, Zenon
  <2> QED
    BY <2>1, Zenon
<1>2. CASE B # {}
  <2>1. PICK k \in B : \A m \in B : k <= m
    <3>1. B \in SUBSET Nat
      BY Zenon
    <3> HIDE DEF B
    <3> QED
      BY <1>2, <3>1, LowestExists, Zenon
  <2>2. k \in Nat /\ lo + k \in lo..hi /\ lo + k \notin S
    BY Zenon
  <2>3. k # 0
    BY <2>2
  <2>4. k - 1 \in Nat /\ k - 1 \notin B
    BY <2>1, <2>2, <2>3
  <2>5. lo + (k - 1) \in S
    BY <2>2, <2>3, <2>4
  <2>6. lo + k \in (lo + 1)..hi /\ (lo + k) - 1 = lo + (k - 1)
    BY <2>2, <2>3
  <2> QED
    BY <2>2, <2>5, <2>6, Zenon
<1> QED
  BY <1>1, <1>2, Zenon

\* The loops of the pool: a function on an interval, each value computed from the
\* one before.
Loop(lo, hi, V, v, F, g) ==
  /\ g \in [lo..hi -> V] /\ g[lo] = v
  /\ \A n \in (lo + 1)..hi : g[n] = F[n][g[n - 1]]

\* Such a function exists.
LEMMA LoopExists ==
  ASSUME NEW lo \in Int, NEW hi \in Int, lo <= hi, NEW V, NEW v \in V,
         NEW F \in [Int -> [V -> V]]
  PROVE  \E g : Loop(lo, hi, V, v, F, g)
<1> DEFINE S == {h \in lo..hi : \E g : Loop(lo, h, V, v, F, g)}
<1>1. lo \in S
  <2> DEFINE g == [n \in lo..lo |-> v]
  <2>1. g \in [lo..lo -> V] /\ g[lo] = v
    OBVIOUS
  <2>2. (lo + 1)..lo = {} /\ lo \in lo..hi
    OBVIOUS
  <2> HIDE DEF g
  <2> QED
    BY <2>1, <2>2, Zenon DEF Loop
<1>2. ASSUME NEW h \in (lo + 1)..hi, h - 1 \in S PROVE h \in S
  <2>1. PICK g : Loop(lo, h - 1, V, v, F, g)
    BY <1>2, Zenon
  <2> DEFINE f == [n \in lo..h |-> IF n = h THEN F[h][g[h - 1]] ELSE g[n]]
  <2>2. h - 1 \in lo..(h - 1) /\ lo \in lo..(h - 1) /\ h \in Int /\ lo # h /\ h \in lo..hi
    OBVIOUS
  <2>3. /\ g \in [lo..(h - 1) -> V] /\ g[lo] = v /\ F[h][g[h - 1]] \in V
        /\ \A n \in (lo + 1)..(h - 1) : g[n] = F[n][g[n - 1]]
    BY <2>1, <2>2, Zenon DEF Loop
  <2>4. f \in [lo..h -> V]
    BY <2>3
  <2>5. f[lo] = v
    BY <2>2, <2>3
  <2>6. ASSUME NEW n \in (lo + 1)..h PROVE f[n] = F[n][f[n - 1]]
    <3>1. n - 1 \in lo..(h - 1) /\ n - 1 \in lo..h /\ n - 1 # h /\ n \in lo..h
      OBVIOUS
    <3>2. f[n - 1] = g[n - 1]
      BY <3>1, Zenon
    <3>3. CASE n = h
      BY <3>1, <3>2, <3>3, Zenon
    <3>4. CASE n # h
      <4>1. n \in (lo + 1)..(h - 1)
        BY <3>4
      <4>2. f[n] = g[n]
        BY <3>1, <3>4, Zenon
      <4> QED
        BY <2>3, <3>2, <4>1, <4>2, Zenon
    <3> QED
      BY <3>3, <3>4, Zenon
  <2> HIDE DEF f
  <2> QED
    BY <2>2, <2>4, <2>5, <2>6, Zenon DEF Loop
<1>3. hi \in S
  <2>1. hi \in lo..hi
    OBVIOUS
  <2> HIDE DEF S
  <2> QED
    BY <1>1, <1>2, <2>1, Climb, Zenon
<1> QED
  BY <1>3, Zenon

\* A finite set of naturals has a greatest element.
LEMMA MaxIs ==
  ASSUME NEW S \in SUBSET Nat, S # {}, IsFiniteSet(S)
  PROVE  Max(S) \in S /\ \A y \in S : y <= Max(S)
<1> DEFINE NoMax(T) == T # {} /\ IsFiniteSet(T) /\ \A x \in T : \E y \in T : ~ (x >= y)
<1> DEFINE N == {Cardinality(T) : T \in {U \in SUBSET Nat : NoMax(U)}}
<1>1. N = {}
  <2> SUFFICES ASSUME N # {} PROVE FALSE
    BY Zenon
  <2>1. N \in SUBSET Nat
    BY FS_CardinalityType, Zenon
  <2>2. PICK n \in N : \A m \in N : n <= m
    <3> HIDE DEF N
    <3> QED
      BY <2>1, LowestExists, Zenon
  <2>3. PICK T \in SUBSET Nat : NoMax(T) /\ Cardinality(T) = n
    BY Zenon
  <2>4. PICK x \in T : TRUE
    BY <2>3, Zenon
  <2> DEFINE U == T \ {x}
  <2>5. IsFiniteSet(U) /\ Cardinality(U) = n - 1 /\ n \in Nat
    BY <2>1, <2>3, FS_RemoveElement, Zenon
  <2>6. U # {}
    BY <2>3
  <2>7. Cardinality(U) \notin N
    <3> HIDE DEF N, U
    <3> QED
      BY <2>1, <2>2, <2>5
  <2>8. ~ NoMax(U)
    <3>1. U \in SUBSET Nat
      BY Zenon
    <3> HIDE DEF U, NoMax
    <3> QED
      BY <2>7, <3>1, Zenon
  <2>9. PICK y \in U : \A z \in U : y >= z
    BY <2>5, <2>6, <2>8, Zenon
  <2>10. x \in Nat /\ y \in Nat /\ y \in T
    BY Zenon
  <2>11. CASE x >= y
    <3>1. \A z \in T : z \in Nat /\ x >= z
      BY <2>9, <2>10, <2>11
    <3> QED
      BY <2>3, <3>1, Zenon
  <2>12. CASE ~ (x >= y)
    <3>1. \A z \in T : y >= z
      BY <2>9, <2>10, <2>12
    <3> QED
      BY <2>3, <2>10, <3>1, Zenon
  <2> QED
    BY <2>11, <2>12, Zenon
<1>2. ~ NoMax(S)
  BY <1>1, Zenon
<1>3. PICK x \in S : \A y \in S : x >= y
  BY <1>2, Zenon
<1>4. Max(S) \in S /\ \A y \in S : Max(S) >= y
  BY <1>3, Zenon DEF Max
<1> QED
  BY <1>4, Zenon

\* The function by which GasOf adds up.
GasSum(t, n, g) == g = [i \in 0..n |-> IF i = 0 THEN 0 ELSE g[i - 1] + t[i].gas]

\* GasOf(t, n) is the last term of that function, and every term is a number.
LEMMA GasOfSum ==
  ASSUME NEW P, TxSet(P), NEW t \in Seq(P), NEW n \in 0..Len(t)
  PROVE  \E g : GasSum(t, n, g) /\ GasOf(t, n) = g[n] /\ \A i \in 0..n : g[i] \in Nat
<1> DEFINE F == [i \in Int |-> [x \in Nat |-> IF i \in 1..Len(t) THEN x + t[i].gas ELSE 0]]
<1>0. \A i \in 1..Len(t) : t[i].gas \in Nat
  BY DEF TxSet
<1>1. F \in [Int -> [Nat -> Nat]]
  BY <1>0
<1>2. PICK g : Loop(0, n, Nat, 0, F, g)
  <2> HIDE DEF F
  <2>1. 0 \in Int /\ n \in Int /\ 0 <= n /\ 0 \in Nat
    OBVIOUS
  <2> QED
    BY <1>1, <2>1, LoopExists, Zenon
<1>3. ASSUME NEW i \in 1..n PROVE g[i] = g[i - 1] + t[i].gas
  <2>1. i - 1 \in 0..n /\ i \in 1..Len(t) /\ i \in Int
    OBVIOUS
  <2>2. g[i - 1] \in Nat /\ g[i] = F[i][g[i - 1]]
    <3> HIDE DEF F
    <3> QED
      BY <1>2, <2>1 DEF Loop
  <2>3. F[i][g[i - 1]] = g[i - 1] + t[i].gas
    BY <2>1, <2>2, Zenon
  <2> QED
    BY <2>2, <2>3, Zenon
<1>4. GasSum(t, n, g)
  <2>1. ASSUME NEW i \in 0..n PROVE g[i] = IF i = 0 THEN 0 ELSE g[i - 1] + t[i].gas
    BY <1>2, <1>3 DEF Loop
  <2> QED
    BY <1>2, <2>1, Zenon DEF GasSum, Loop
<1> DEFINE h == CHOOSE f : f = [i \in 0..n |-> IF i = 0 THEN 0 ELSE f[i - 1] + t[i].gas]
<1>5. h = [i \in 0..n |-> IF i = 0 THEN 0 ELSE h[i - 1] + t[i].gas]
  BY <1>4, Zenon DEF GasSum
<1>6. GasOf(t, n) = h[n]
  BY Zenon DEF GasOf
<1> HIDE DEF h
<1> DEFINE S == {i \in 0..n : h[i] \in Nat}
<1>7. 0 \in S
  BY <1>5
<1>8. ASSUME NEW i \in 1..n, i - 1 \in S PROVE i \in S
  <2>1. h[i] = h[i - 1] + t[i].gas
    BY <1>5
  <2> QED
    BY <1>0, <1>8, <2>1
<1>9. \A i \in 0..n : i \in S
  <2> HIDE DEF S
  <2>1. 0 \in Int /\ n \in Int /\ \A i \in (0 + 1)..n : i - 1 \in S => i \in S
    BY <1>8
  <2> QED
    BY ONLY <1>7, <2>1, Climb, Zenon
<1> QED
  BY <1>5, <1>6, <1>9, Zenon DEF GasSum

\* Two sums over the same transactions are the same.
LEMMA GasSumSame ==
  ASSUME NEW s, NEW t, NEW m \in Nat, NEW n \in Nat, NEW k \in Nat, k <= m, k <= n,
         \A i \in 1..k : s[i] = t[i],
         NEW g, NEW h, GasSum(s, m, g), GasSum(t, n, h)
  PROVE  g[k] = h[k]
<1> DEFINE S == {i \in 0..k : g[i] = h[i]}
<1>1. 0 \in S
  BY DEF GasSum
<1>2. ASSUME NEW i \in 1..k, i - 1 \in S PROVE i \in S
  <2>1. g[i] = g[i - 1] + s[i].gas
    BY DEF GasSum
  <2>2. h[i] = h[i - 1] + t[i].gas
    BY DEF GasSum
  <2> QED
    BY <1>2, <2>1, <2>2
<1>3. \A i \in 0..k : i \in S
  <2> HIDE DEF S
  <2>1. \A i \in (0 + 1)..k : i - 1 \in S => i \in S
    BY <1>2
  <2> QED
    BY <1>1, <2>1, Climb
<1> QED
  BY <1>3

\* The total gas of a batch, transaction by transaction.
LEMMA GasOfStep ==
  ASSUME NEW P, TxSet(P), NEW t \in Seq(P)
  PROVE  /\ GasOf(t, 0) = 0
         /\ \A k \in 0..Len(t) : GasOf(t, k) \in Nat
         /\ \A k \in 1..Len(t) : GasOf(t, k) = GasOf(t, k - 1) + t[k].gas
<1>1. ASSUME NEW k \in 0..Len(t) PROVE GasOf(t, k) \in Nat /\ (k = 0 => GasOf(t, k) = 0)
  <2>1. PICK g : GasSum(t, k, g) /\ GasOf(t, k) = g[k] /\ \A i \in 0..k : g[i] \in Nat
    BY GasOfSum, Zenon
  <2>2. k \in 0..k
    OBVIOUS
  <2>3. k = 0 => g[k] = 0
    BY <2>1, <2>2, Zenon DEF GasSum
  <2> QED
    BY <2>1, <2>2, <2>3, Zenon
<1>2. ASSUME NEW k \in 1..Len(t) PROVE GasOf(t, k) = GasOf(t, k - 1) + t[k].gas
  <2>0. k \in 0..Len(t) /\ k - 1 \in 0..Len(t) /\ k \in Nat /\ k - 1 \in Nat /\ k - 1 <= k
    OBVIOUS
  <2>1. PICK g : GasSum(t, k, g) /\ GasOf(t, k) = g[k]
    BY <2>0, GasOfSum, Zenon
  <2>2. PICK h : GasSum(t, k - 1, h) /\ GasOf(t, k - 1) = h[k - 1]
    BY <2>0, GasOfSum, Zenon
  <2>3. g[k] = g[k - 1] + t[k].gas
    BY <2>0, <2>1 DEF GasSum
  <2>4. k - 1 <= k - 1 /\ \A i \in 1..(k - 1) : t[i] = t[i]
    BY <2>0
  <2>5. h[k - 1] = g[k - 1]
    BY ONLY <2>0, <2>1, <2>2, <2>4, GasSumSame
  <2> QED
    BY <2>1, <2>2, <2>3, <2>5, Zenon
<1>3. 0 \in 0..Len(t)
  OBVIOUS
<1> QED
  BY <1>1, <1>2, <1>3, Zenon

\* It depends on the transactions it counts.
LEMMA GasOfSame ==
  ASSUME NEW P, TxSet(P), NEW s \in Seq(P), NEW t \in Seq(P),
         NEW k \in 0..Len(s), k <= Len(t), \A i \in 1..k : s[i] = t[i]
  PROVE  GasOf(s, k) = GasOf(t, k)
<1>0. k \in 0..Len(t) /\ k \in Nat /\ k <= k /\ \A i \in 1..k : s[i] = t[i]
  OBVIOUS
<1>1. PICK g : GasSum(s, k, g) /\ GasOf(s, k) = g[k]
  BY GasOfSum, Zenon
<1>2. PICK h : GasSum(t, k, h) /\ GasOf(t, k) = h[k]
  BY <1>0, GasOfSum, Zenon
<1>3. g[k] = h[k]
  <2>1. PICK m \in Nat : m = k
    BY <1>0, Zenon
  <2>2. k <= m /\ GasSum(s, m, g) /\ GasSum(t, m, h)
    BY <1>0, <1>1, <1>2, <2>1, Zenon
  <2>3. \A i \in 1..k : s[i] = t[i]
    BY Zenon
  <2> QED
    BY ONLY <1>0, <2>2, <2>3, GasSumSame, SMTT(20)
<1> QED
  BY <1>1, <1>2, <1>3, Zenon

\* A shorter batch has no more gas.
LEMMA GasOfGrows ==
  ASSUME NEW P, TxSet(P), NEW t \in Seq(P), NEW j \in 0..Len(t), NEW k \in j..Len(t)
  PROVE  GasOf(t, j) <= GasOf(t, k)
<1> DEFINE S == {i \in j..Len(t) : GasOf(t, j) <= GasOf(t, i)}
<1>0. j \in Int /\ Len(t) \in Int /\ k \in j..Len(t)
  OBVIOUS
<1>1. j \in S
  BY <1>0, GasOfStep
<1>2. ASSUME NEW i \in (j + 1)..Len(t), i - 1 \in S PROVE i \in S
  <2>1. i \in 1..Len(t) /\ i - 1 \in 0..Len(t) /\ i \in j..Len(t) /\ i \in 0..Len(t)
    OBVIOUS
  <2>2. /\ GasOf(t, i) = GasOf(t, i - 1) + t[i].gas /\ GasOf(t, i - 1) \in Nat
        /\ GasOf(t, j) \in Nat /\ GasOf(t, i) \in Nat
    BY <2>1, GasOfStep, Zenon
  <2>3. t[i].gas \in Nat
    BY <2>1 DEF TxSet
  <2> QED
    BY <1>2, <2>1, <2>2, <2>3
<1>3. \A i \in j..Len(t) : i \in S
  <2> HIDE DEF S
  <2> QED
    BY ONLY <1>0, <1>1, <1>2, Climb, Zenon
<1> QED
  BY <1>0, <1>3, Zenon

\* What is left when the first c transactions go has the rest of the gas.
LEMMA GasOfRest ==
  ASSUME NEW P, TxSet(P), NEW t \in Seq(P), NEW c \in 0..Len(t)
  PROVE  LET rest == SubSeq(t, c + 1, Len(t))
         IN  /\ rest \in Seq(P) /\ Len(rest) = Len(t) - c
             /\ \A i \in 1..Len(rest) : rest[i] = t[c + i]
             /\ GasOf(rest, Len(rest)) <= GasOf(t, Len(t))
<1> DEFINE rest == SubSeq(t, c + 1, Len(t))
<1>1. /\ rest \in Seq(P) /\ Len(rest) = Len(t) - c
      /\ \A i \in 1..Len(rest) : rest[i] = t[c + i]
  OBVIOUS
<1> HIDE DEF rest
<1> DEFINE S == {i \in 0..Len(rest) : GasOf(rest, i) + GasOf(t, c) = GasOf(t, c + i)}
<1>2. /\ GasOf(t, c) \in Nat /\ Len(t) \in Nat /\ Len(rest) \in Nat
      /\ 0 \in Int /\ Len(rest) \in Int
  BY <1>1, GasOfStep
<1>3. 0 \in S
  BY <1>1, <1>2, GasOfStep
<1>4. ASSUME NEW i \in 1..Len(rest), i - 1 \in S PROVE i \in S
  <2>1. c + i \in 1..Len(t) /\ (c + i) - 1 = c + (i - 1) /\ i \in 0..Len(rest) /\ i - 1 \in 0..Len(rest)
    BY <1>1, <1>2
  <2>2. GasOf(rest, i) = GasOf(rest, i - 1) + rest[i].gas /\ GasOf(rest, i - 1) \in Nat
    BY <1>1, <2>1, GasOfStep, Zenon
  <2>3. GasOf(t, c + i) = GasOf(t, c + (i - 1)) + t[c + i].gas
    BY <2>1, GasOfStep, Zenon
  <2>4. t[c + i].gas \in Nat /\ rest[i] = t[c + i]
    BY <1>1, <2>1 DEF TxSet
  <2>5. GasOf(rest, i - 1) + GasOf(t, c) = GasOf(t, c + (i - 1))
    BY <1>4, Zenon
  <2> QED
    BY <1>2, <2>1, <2>2, <2>3, <2>4, <2>5, SMTT(20)
<1>5. \A i \in 0..Len(rest) : i \in S
  <2> HIDE DEF S
  <2>1. \A i \in (0 + 1)..Len(rest) : i - 1 \in S => i \in S
    BY <1>4
  <2> QED
    BY ONLY <1>2, <1>3, <2>1, Climb, Zenon
<1>6. /\ GasOf(rest, Len(rest)) + GasOf(t, c) = GasOf(t, c + Len(rest))
      /\ c + Len(rest) = Len(t) /\ GasOf(rest, Len(rest)) \in Nat
  <2>1. Len(rest) \in 0..Len(rest)
    BY <1>2
  <2> QED
    BY <1>1, <1>2, <1>5, <2>1, GasOfStep
<1>7. GasOf(rest, Len(rest)) <= GasOf(t, Len(t))
  BY <1>2, <1>6
<1> QED
  BY <1>1, <1>7, Zenon DEF rest

\* The first k transactions are in order and within the limits of an address.
Ordered(t, k) ==
  /\ \A i \in 1..k : t[i].nonce = t[1].nonce + (i - 1)
  /\ \A i \in 1..(k - 1) : t[i].price <= t[i + 1].price

WithinLimits(t, k) ==
  k <= address_tx_count /\ (k > 1 => GasOf(t, k) <= address_gas_limit)

\* What the packing pool promises of a batch; P has the transactions it may hold.
GoodBatch(b, P) ==
  /\ b \in [txs : Seq(P), gas : Nat]
  /\ Ordered(b.txs, Len(b.txs))
  /\ b.gas = GasOf(b.txs, Len(b.txs))
  /\ WithinLimits(b.txs, Len(b.txs))

\* No batch at all breaks no rule.
LEMMA NoBatchGood ==
  ASSUME NEW P, TxSet(P)
  PROVE  GoodBatch(NoBatch, P) /\ NoBatch.txs = <<>>
<1>1. NoBatch.txs = <<>> /\ NoBatch.gas = 0 /\ NoBatch \in [txs : Seq(P), gas : Nat]
  BY DEF NoBatch
<1>2. GasOf(<<>>, 0) = 0
  <2>1. <<>> \in Seq(P)
    OBVIOUS
  <2> QED
    BY <2>1, GasOfStep, Zenon
<1>3. Ordered(<<>>, 0)
  BY DEF Ordered
<1>4. WithinLimits(<<>>, 0)
  BY BatchAssumption DEF WithinLimits
<1>5. Len(<<>>) = 0
  BY Zenon
<1> QED
  BY <1>1, <1>2, <1>3, <1>4, <1>5, Zenon DEF GoodBatch

\* Only NoBatch is empty.
LEMMA EmptyIsNoBatch ==
  ASSUME NEW P, TxSet(P), NEW b, GoodBatch(b, P), b # NoBatch
  PROVE  Len(b.txs) \in Nat \ {0}
<1>1. b \in [txs : Seq(P), gas : Nat] /\ b.gas = GasOf(b.txs, Len(b.txs))
  BY Zenon DEF GoodBatch
<1>2. CASE b.txs = <<>>
  <2>1. Len(<<>>) = 0 /\ <<>> \in Seq(P)
    OBVIOUS
  <2>2. b.gas = 0
    BY <1>1, <1>2, <2>1, GasOfStep, Zenon
  <2>3. b = [txs |-> <<>>, gas |-> 0]
    BY <1>1, <1>2, <2>2, Zenon
  <2> QED
    BY <2>3, Zenon DEF NoBatch
<1>3. CASE b.txs # <<>>
  BY <1>1, <1>3
<1> QED
  BY <1>2, <1>3, Zenon

\* split_off of the transactions is a batch again, if the part is in order and
\* within the limits.
LEMMA PrefixGood ==
  ASSUME NEW P, TxSet(P), NEW t \in Seq(P), NEW k \in 0..Len(t),
         Ordered(t, k), WithinLimits(t, k)
  PROVE  /\ GoodBatch(Prefix(t, k), P)
         /\ Len(Prefix(t, k).txs) = k
         /\ \A i \in 1..k : Prefix(t, k).txs[i] = t[i]
<1> DEFINE p == SubSeq(t, 1, k)
<1>1. p \in Seq(P) /\ Len(p) = k /\ \A i \in 1..k : p[i] = t[i]
  OBVIOUS
<1> HIDE DEF p
<1>2. k <= Len(p) /\ k \in 0..Len(p) /\ k \in Nat
  BY <1>1
<1>3. GasOf(p, k) = GasOf(t, k)
  <2>1. \A i \in 1..k : p[i] = t[i]
    BY <1>1, Zenon
  <2>2. k <= Len(t)
    OBVIOUS
  <2> QED
    BY <1>1, <1>2, <2>1, <2>2, GasOfSame, Zenon
<1>4. GasOf(t, k) \in Nat
  BY GasOfStep, Zenon
<1>5. /\ Prefix(t, k).txs = p /\ Prefix(t, k).gas = GasOf(t, k)
      /\ Prefix(t, k) \in [txs : Seq(P), gas : Nat]
  BY <1>1, <1>4, Zenon DEF Prefix, p
<1>6. Ordered(p, k)
  <2>1. ASSUME NEW i \in 1..k PROVE p[i].nonce = p[1].nonce + (i - 1)
    <3>1. p[i] = t[i] /\ p[1] = t[1]
      BY <1>1
    <3> QED
      BY <3>1, Zenon DEF Ordered
  <2>2. ASSUME NEW i \in 1..(k - 1) PROVE p[i].price <= p[i + 1].price
    <3>1. p[i] = t[i] /\ p[i + 1] = t[i + 1]
      BY <1>1
    <3> QED
      BY <3>1, Zenon DEF Ordered
  <2> QED
    BY <2>1, <2>2, Zenon DEF Ordered
<1>7. WithinLimits(p, k)
  BY <1>3, Zenon DEF WithinLimits
<1> QED
  BY <1>1, <1>3, <1>5, <1>6, <1>7, Zenon DEF GoodBatch

\* check_acceptable_batch: the cut keeps a transaction and the limits.
LEMMA AcceptableIs ==
  ASSUME NEW P, TxSet(P), NEW t \in Seq(P), Len(t) > 0
  PROVE  Acceptable(t) \in 1..Len(t) /\ WithinLimits(t, Acceptable(t))
<1> DEFINE S == {k \in 1..Len(t) : /\ k <= address_tx_count
                                   /\ k = 1 \/ GasOf(t, k) <= address_gas_limit}
<1>1. S \in SUBSET Nat /\ S \subseteq 1..Len(t)
  OBVIOUS
<1>2. 1 \in S
  BY BatchAssumption
<1>3. IsFiniteSet(S)
  <2> HIDE DEF S
  <2>1. 1 \in Int /\ Len(t) \in Int
    OBVIOUS
  <2>2. IsFiniteSet(1..Len(t))
    BY <2>1, FS_Interval, Zenon
  <2> QED
    BY <1>1, <2>2, FS_Subset, Zenon
<1>4. Acceptable(t) \in S
  <2>1. Acceptable(t) = Max(S)
    BY Zenon DEF Acceptable
  <2> HIDE DEF S
  <2> QED
    BY <1>1, <1>2, <1>3, <2>1, MaxIs, Zenon
<1> QED
  BY <1>4 DEF WithinLimits

\* PackingBatch::new: a transaction alone is a batch, whatever its gas limit.
LEMMA NewBatchGood ==
  ASSUME NEW P, TxSet(P), NEW tx \in P
  PROVE  GoodBatch(NewBatch(tx), P) /\ Len(NewBatch(tx).txs) = 1 /\ NewBatch(tx).txs[1] = tx
<1> DEFINE t == <<tx>>
<1>1. t \in Seq(P) /\ Len(t) = 1 /\ t[1] = tx /\ tx.gas \in Nat /\ tx.nonce \in Nat
  BY DEF TxSet
<1> HIDE DEF t
<1>2. GasOf(t, 1) = tx.gas
  <2>1. 1 \in 1..Len(t) /\ 1 - 1 = 0
    BY <1>1
  <2>2. GasOf(t, 1) = GasOf(t, 0) + t[1].gas /\ GasOf(t, 0) = 0
    BY <1>1, <2>1, GasOfStep, Zenon
  <2> QED
    BY <1>1, <2>2
<1>3. /\ NewBatch(tx).txs = t /\ NewBatch(tx).gas = tx.gas
      /\ NewBatch(tx) \in [txs : Seq(P), gas : Nat]
  BY <1>1, Zenon DEF NewBatch, t
<1>4. Ordered(t, 1)
  BY <1>1 DEF Ordered
<1>5. WithinLimits(t, 1)
  BY BatchAssumption DEF WithinLimits
<1> QED
  BY <1>1, <1>2, <1>3, <1>4, <1>5, Zenon DEF GoodBatch

\* The transaction before the first one joins the batch.
LEMMA FrontGood ==
  ASSUME NEW P, TxSet(P), NEW b, GoodBatch(b, P), Len(b.txs) > 0, NEW tx \in P,
         tx.nonce + 1 = b.txs[1].nonce, tx.price <= b.txs[1].price
  PROVE  LET front == <<tx>> \o b.txs
             p == Prefix(front, Acceptable(front))
         IN  GoodBatch(p, P) /\ Len(p.txs) > 0
<1>1. PICK t : t = b.txs
  BY Zenon
<1>2. t \in Seq(P) /\ Ordered(t, Len(t)) /\ Len(t) \in Nat /\ Len(t) > 0
  BY <1>1 DEF GoodBatch
<1> DEFINE front == <<tx>> \o t
<1>3. /\ front \in Seq(P) /\ Len(front) = Len(t) + 1 /\ front[1] = tx
      /\ \A i \in 2..Len(front) : front[i] = t[i - 1]
  BY <1>2
<1> HIDE DEF front
<1>4. tx.nonce \in Nat /\ tx.price \in Nat /\ t[1].nonce = tx.nonce + 1 /\ tx.price <= t[1].price
  BY <1>1, Zenon DEF TxSet
<1>5. Ordered(front, Len(front))
  <2>1. ASSUME NEW i \in 1..Len(front) PROVE front[i].nonce = front[1].nonce + (i - 1)
    <3>1. CASE i = 1
      BY <1>3, <1>4, <3>1
    <3>2. CASE i # 1
      <4>1. i - 1 \in 1..Len(t) /\ i \in 2..Len(front)
        BY <1>2, <1>3, <3>2
      <4>2. t[i - 1].nonce = t[1].nonce + ((i - 1) - 1)
        BY <1>2, <4>1, Zenon DEF Ordered
      <4>3. front[i] = t[i - 1] /\ i \in Int
        BY <1>3, <4>1
      <4>4. (tx.nonce + 1) + ((i - 1) - 1) = tx.nonce + (i - 1)
        BY <1>4, <4>3, SMTT(20)
      <4> QED
        BY <1>3, <1>4, <4>2, <4>3, <4>4, Zenon
    <3> QED
      BY <3>1, <3>2, Zenon
  <2>2. ASSUME NEW i \in 1..(Len(front) - 1) PROVE front[i].price <= front[i + 1].price
    <3>1. i + 1 \in 2..Len(front) /\ (i + 1) - 1 = i
      BY <1>2, <1>3
    <3>2. front[i + 1] = t[i]
      BY <1>3, <3>1, Zenon
    <3>3. CASE i = 1
      BY <1>3, <1>4, <3>2, <3>3, Zenon
    <3>4. CASE i # 1
      <4>1. i - 1 \in 1..(Len(t) - 1) /\ i \in 2..Len(front) /\ (i - 1) + 1 = i
        BY <1>2, <1>3, <3>4
      <4>2. t[i - 1].price <= t[(i - 1) + 1].price
        BY <1>2, <4>1, Zenon DEF Ordered
      <4> QED
        BY <1>3, <3>2, <4>1, <4>2, Zenon
    <3> QED
      BY <3>3, <3>4, Zenon
  <2> QED
    BY <2>1, <2>2, Zenon DEF Ordered
<1>6. PICK k : k = Acceptable(front)
  BY Zenon
<1>7. k \in 1..Len(front) /\ WithinLimits(front, k)
  BY <1>2, <1>3, <1>6, AcceptableIs
<1>8. Ordered(front, k) /\ k \in 0..Len(front)
  BY <1>5, <1>7 DEF Ordered
<1>9. GoodBatch(Prefix(front, k), P) /\ Len(Prefix(front, k).txs) = k
  BY <1>3, <1>7, <1>8, PrefixGood, Zenon
<1> QED
  BY <1>1, <1>6, <1>7, <1>9 DEF front

\* The transaction after the last one joins the batch.
LEMMA AppendGood ==
  ASSUME NEW P, TxSet(P), NEW b, GoodBatch(b, P), Len(b.txs) > 0, NEW tx \in P,
         tx.nonce = b.txs[1].nonce + Len(b.txs), Len(b.txs) < address_tx_count,
         b.txs[Len(b.txs)].price <= tx.price, b.gas + tx.gas <= address_gas_limit
  PROVE  LET p == [txs |-> Append(b.txs, tx), gas |-> b.gas + tx.gas]
         IN  GoodBatch(p, P) /\ Len(p.txs) > 0
<1>1. PICK t : t = b.txs
  BY Zenon
<1>2. /\ t \in Seq(P) /\ Ordered(t, Len(t)) /\ Len(t) \in Nat /\ Len(t) > 0
      /\ b.gas \in Nat /\ b.gas = GasOf(t, Len(t))
  BY <1>1 DEF GoodBatch
<1> DEFINE a == Append(t, tx)
<1>3. /\ a \in Seq(P) /\ Len(a) = Len(t) + 1 /\ a[Len(t) + 1] = tx
      /\ \A i \in 1..Len(t) : a[i] = t[i]
  BY <1>2
<1> HIDE DEF a
<1>4. /\ tx.nonce \in Nat /\ tx.gas \in Nat /\ t[1].nonce \in Nat /\ t[Len(t)].price <= tx.price
      /\ tx.nonce = t[1].nonce + Len(t) /\ Len(t) < address_tx_count
  BY <1>1, <1>2 DEF TxSet
<1>5. Ordered(a, Len(a))
  <2>1. ASSUME NEW i \in 1..Len(a) PROVE a[i].nonce = a[1].nonce + (i - 1)
    <3>1. a[1] = t[1]
      BY <1>2, <1>3
    <3>2. CASE i \in 1..Len(t)
      BY <1>2, <1>3, <3>1, <3>2, Zenon DEF Ordered
    <3>3. CASE i = Len(t) + 1
      BY <1>2, <1>3, <1>4, <3>1, <3>3
    <3> QED
      BY <1>2, <1>3, <3>2, <3>3
  <2>2. ASSUME NEW i \in 1..(Len(a) - 1) PROVE a[i].price <= a[i + 1].price
    <3>1. i \in 1..Len(t) /\ a[i] = t[i]
      BY <1>2, <1>3
    <3>2. CASE i = Len(t)
      BY <1>3, <1>4, <3>1, <3>2, Zenon
    <3>3. CASE i # Len(t)
      <4>1. i \in 1..(Len(t) - 1) /\ i + 1 \in 1..Len(t)
        BY <1>2, <3>1, <3>3
      <4> QED
        BY <1>2, <1>3, <3>1, <4>1, Zenon DEF Ordered
    <3> QED
      BY <3>2, <3>3, Zenon
  <2> QED
    BY <2>1, <2>2, Zenon DEF Ordered
<1>6. GasOf(a, Len(a)) = b.gas + tx.gas
  <2>1. Len(t) \in 0..Len(t) /\ Len(t) <= Len(a) /\ Len(a) \in 1..Len(a) /\ Len(a) - 1 = Len(t)
    BY <1>2, <1>3
  <2>2. GasOf(a, Len(a)) = GasOf(a, Len(a) - 1) + a[Len(a)].gas
    BY <1>3, <2>1, GasOfStep, Zenon
  <2>3. \A i \in 1..Len(t) : t[i] = a[i]
    BY <1>3, Zenon
  <2>4. GasOf(t, Len(t)) = GasOf(a, Len(t))
    BY <1>2, <1>3, <2>1, <2>3, GasOfSame, Zenon
  <2> QED
    BY <1>2, <1>3, <2>1, <2>2, <2>4, Zenon
<1>7. WithinLimits(a, Len(a))
  BY <1>2, <1>3, <1>4, <1>6, BatchAssumption DEF WithinLimits
<1> DEFINE p == [txs |-> a, gas |-> b.gas + tx.gas]
<1>8. p.txs = a /\ p.gas = b.gas + tx.gas /\ p \in [txs : Seq(P), gas : Nat]
  BY <1>2, <1>3, <1>4, SMTT(20)
<1> HIDE DEF p
<1>9. GoodBatch(p, P) /\ Len(p.txs) > 0
  BY <1>2, <1>3, <1>5, <1>6, <1>7, <1>8 DEF GoodBatch
<1> QED
  BY <1>1, <1>9, Zenon DEF p, a

\* A batch cut anywhere is a batch.
LEMMA CutGood ==
  ASSUME NEW P, TxSet(P), NEW b, GoodBatch(b, P), NEW k \in 0..Len(b.txs)
  PROVE  /\ GoodBatch(Prefix(b.txs, k), P) /\ Len(Prefix(b.txs, k).txs) = k
         /\ \A i \in 1..k : Prefix(b.txs, k).txs[i] = b.txs[i]
<1>1. PICK t : t = b.txs
  BY Zenon
<1>2. /\ t \in Seq(P) /\ Ordered(t, Len(t)) /\ WithinLimits(t, Len(t))
      /\ Len(t) \in Nat /\ k \in 0..Len(t)
  BY <1>1 DEF GoodBatch
<1>3. Ordered(t, k)
  <2>1. ASSUME NEW i \in 1..k PROVE t[i].nonce = t[1].nonce + (i - 1)
    <3>1. i \in 1..Len(t)
      BY <1>2
    <3> QED
      BY <1>2, <3>1, Zenon DEF Ordered
  <2>2. ASSUME NEW i \in 1..(k - 1) PROVE t[i].price <= t[i + 1].price
    <3>1. i \in 1..(Len(t) - 1)
      BY <1>2
    <3> QED
      BY <1>2, <3>1, Zenon DEF Ordered
  <2> QED
    BY <2>1, <2>2, Zenon DEF Ordered
<1>4. GasOf(t, k) <= GasOf(t, Len(t)) /\ GasOf(t, k) \in Nat /\ GasOf(t, Len(t)) \in Nat
  <2>1. Len(t) \in k..Len(t) /\ Len(t) \in 0..Len(t)
    BY <1>2
  <2> QED
    BY <1>2, <2>1, GasOfGrows, GasOfStep, Zenon
<1>5. WithinLimits(t, k)
  BY <1>2, <1>4, BatchAssumption DEF WithinLimits
<1> QED
  BY <1>1, <1>2, <1>3, <1>5, PrefixGood, Zenon

\* A transaction takes the place of the one with its nonce.
LEMMA ReplacedGood ==
  ASSUME NEW P, TxSet(P), NEW b, GoodBatch(b, P), NEW i \in 1..Len(b.txs), NEW tx \in P,
         tx.nonce = b.txs[1].nonce + (i - 1),
         i > 1 => b.txs[i - 1].price <= tx.price
  PROVE  LET new == [b.txs EXCEPT ![i] = tx]
             k   == Acceptable(new)
         IN  /\ k \in 1..Len(b.txs)
             /\ k >= i => GoodBatch(Prefix(new, i), P) /\ Len(Prefix(new, i).txs) > 0
             /\ (i < Len(b.txs) => tx.price <= b.txs[i + 1].price) =>
                  GoodBatch(Prefix(new, k), P) /\ Len(Prefix(new, k).txs) > 0
<1>1. PICK t : t = b.txs
  BY Zenon
<1>2. /\ t \in Seq(P) /\ Ordered(t, Len(t)) /\ Len(t) \in Nat /\ i \in 1..Len(t)
      /\ i \in Nat
  BY <1>1 DEF GoodBatch
<1> DEFINE new == [t EXCEPT ![i] = tx]
<1>3. /\ new \in Seq(P) /\ Len(new) = Len(t) /\ new[i] = tx
      /\ \A j \in 1..Len(t) : j # i => new[j] = t[j]
  BY <1>2
<1>4. /\ tx.nonce \in Nat /\ t[1].nonce \in Nat /\ tx.nonce = t[1].nonce + (i - 1)
      /\ i > 1 => t[i - 1].price <= tx.price
  BY <1>1, <1>2 DEF TxSet
<1> HIDE DEF new
<1>5. new[1].nonce = t[1].nonce
  <2>1. CASE i = 1
    BY <1>2, <1>3, <1>4, <2>1
  <2>2. CASE i # 1
    BY <1>2, <1>3, <2>2
  <2> QED
    BY <2>1, <2>2, Zenon
<1>6. ASSUME NEW j \in 1..Len(t) PROVE new[j].nonce = new[1].nonce + (j - 1)
  <2>1. CASE j = i
    BY <1>3, <1>4, <1>5, <2>1, Zenon
  <2>2. CASE j # i
    BY <1>2, <1>3, <1>5, <2>2, Zenon DEF Ordered
  <2> QED
    BY <2>1, <2>2, Zenon
<1>7. ASSUME NEW j \in 1..(Len(t) - 1), j # i PROVE new[j].price <= new[j + 1].price
  <2>1. j \in 1..Len(t) /\ j + 1 \in 1..Len(t) /\ new[j] = t[j]
    BY <1>2, <1>3, <1>7
  <2>2. CASE j + 1 = i
    <3>1. i > 1 /\ i - 1 = j
      BY <1>2, <2>2
    <3> QED
      BY <1>3, <1>4, <2>1, <2>2, <3>1, Zenon
  <2>3. CASE j + 1 # i
    <3>1. new[j + 1] = t[j + 1]
      BY <1>3, <2>1, <2>3, Zenon
    <3>2. t[j].price <= t[j + 1].price
      BY <1>2, Zenon DEF Ordered
    <3> QED
      BY <2>1, <3>1, <3>2, Zenon
  <2> QED
    BY <2>2, <2>3, Zenon
<1>8. PICK k : k = Acceptable(new)
  BY Zenon
<1>9. k \in 1..Len(t) /\ k \in 1..Len(new) /\ WithinLimits(new, k)
  BY <1>2, <1>3, <1>8, AcceptableIs
<1>10. ASSUME k >= i PROVE GoodBatch(Prefix(new, i), P) /\ Len(Prefix(new, i).txs) > 0
  <2>1. Ordered(new, i)
    BY <1>2, <1>6, <1>7 DEF Ordered
  <2>2. i \in 0..Len(new) /\ k \in i..Len(new) /\ k \in 0..Len(new)
    BY <1>2, <1>3, <1>9, <1>10
  <2>3. GasOf(new, i) <= GasOf(new, k) /\ GasOf(new, i) \in Nat /\ GasOf(new, k) \in Nat
    BY <1>3, <2>2, GasOfGrows, GasOfStep, Zenon
  <2>4. WithinLimits(new, i)
    BY <1>2, <1>9, <1>10, <2>3, BatchAssumption DEF WithinLimits
  <2>5. GoodBatch(Prefix(new, i), P) /\ Len(Prefix(new, i).txs) = i
    BY <1>3, <2>1, <2>2, <2>4, PrefixGood, Zenon
  <2> QED
    BY <1>2, <2>5
<1>11. ASSUME i < Len(t) => tx.price <= t[i + 1].price
       PROVE  GoodBatch(Prefix(new, k), P) /\ Len(Prefix(new, k).txs) > 0
  <2>1. ASSUME NEW j \in 1..(k - 1) PROVE new[j].price <= new[j + 1].price
    <3>1. j \in 1..(Len(t) - 1)
      BY <1>2, <1>9
    <3>2. CASE j = i
      <4>1. i < Len(t) /\ i + 1 \in 1..Len(t) /\ i + 1 # i
        BY <1>2, <3>1, <3>2
      <4>2. new[i + 1] = t[i + 1]
        BY <1>3, <4>1, Zenon
      <4> QED
        BY <1>3, <1>11, <3>2, <4>1, <4>2, Zenon
    <3>3. CASE j # i
      BY <1>7, <3>1, <3>3, Zenon
    <3> QED
      BY <3>2, <3>3, Zenon
  <2>2. ASSUME NEW j \in 1..k PROVE new[j].nonce = new[1].nonce + (j - 1)
    <3>1. j \in 1..Len(t)
      BY <1>2, <1>9
    <3> QED
      BY <1>6, <3>1, Zenon
  <2>3. Ordered(new, k)
    BY <2>1, <2>2, Zenon DEF Ordered
  <2>4. k \in 0..Len(new) /\ k > 0
    BY <1>2, <1>3, <1>9
  <2>5. GoodBatch(Prefix(new, k), P) /\ Len(Prefix(new, k).txs) = k
    BY <1>3, <1>9, <2>3, <2>4, PrefixGood, Zenon
  <2> QED
    BY <2>4, <2>5, Zenon
<1> QED
  BY <1>1, <1>8, <1>9, <1>10, <1>11, Zenon DEF new

\* PackingBatch::insert keeps what the packing pool promises.
LEMMA BatchInsertGood ==
  ASSUME NEW P, TxSet(P), NEW b, GoodBatch(b, P), Len(b.txs) > 0, NEW tx \in P
  PROVE  LET res == BatchInsert(b, tx).batch
         IN  /\ GoodBatch(res, P) /\ Len(res.txs) > 0
             /\ BatchInsert(b, tx).ok \in BOOLEAN
<1> DEFINE start == StartNonce(b)
           n     == Len(b.txs)
           i     == tx.nonce - start + 1
           new   == [b.txs EXCEPT ![i] = tx]
           k     == Acceptable(new)
           front == <<tx>> \o b.txs
           far   == [batch |-> NewBatch(tx), ok |-> TRUE]
           joined == [batch |-> Prefix(front, Acceptable(front)), ok |-> TRUE]
           same  == [batch |-> b, ok |-> FALSE]
           next  == IF \/ n >= address_tx_count
                       \/ b.txs[n].price > tx.price
                       \/ address_gas_limit < b.gas + tx.gas
                    THEN [batch |-> b, ok |-> FALSE]
                    ELSE [batch |-> [txs |-> Append(b.txs, tx), gas |-> b.gas + tx.gas],
                          ok |-> TRUE]
           within == IF \/ i > 1 /\ tx.price < b.txs[i - 1].price
                        \/ k < i
                     THEN [batch |-> Prefix(b.txs, i - 1), ok |-> FALSE]
                     ELSE IF i < n /\ b.txs[i + 1].price < tx.price
                          THEN [batch |-> Prefix(new, i), ok |-> TRUE]
                          ELSE [batch |-> Prefix(new, k), ok |-> TRUE]
           IsGood(r) == GoodBatch(r.batch, P) /\ Len(r.batch.txs) > 0 /\ r.ok \in BOOLEAN
<1>1. /\ b.txs \in Seq(P) /\ b.gas \in Nat /\ n \in Nat /\ n > 0 /\ start = b.txs[1].nonce
      /\ start \in Nat /\ tx.nonce \in Nat /\ tx.price \in Nat /\ tx.gas \in Nat
      /\ \A j \in 1..n : b.txs[j].price \in Nat
  BY DEF GoodBatch, TxSet, StartNonce
<1>2. BatchInsert(b, tx) =
        CASE \/ tx.nonce + 1 < start
             \/ tx.nonce + 1 = start /\ tx.price > b.txs[1].price -> far
          [] tx.nonce + 1 = start /\ tx.price <= b.txs[1].price -> joined
          [] tx.nonce > start + n -> same
          [] tx.nonce = start + n -> next
          [] start <= tx.nonce /\ tx.nonce < start + n -> within
  BY Zenon DEF BatchInsert
<1>3. IsGood(far)
  BY NewBatchGood
<1>4. tx.nonce + 1 = start /\ tx.price <= b.txs[1].price => IsGood(joined)
  BY <1>1, FrontGood, Zenon
<1>5. IsGood(same)
  BY Zenon
<1>6. tx.nonce = start + n => IsGood(next)
  <2> SUFFICES ASSUME tx.nonce = start + n PROVE IsGood(next)
    BY Zenon
  <2>1. CASE \/ n >= address_tx_count
             \/ b.txs[n].price > tx.price
             \/ address_gas_limit < b.gas + tx.gas
    <3>1. next = same
      BY <2>1, Zenon
    <3> HIDE DEF next, same, IsGood
    <3> QED
      BY <1>5, <3>1, Zenon
  <2>2. CASE ~ (\/ n >= address_tx_count
                \/ b.txs[n].price > tx.price
                \/ address_gas_limit < b.gas + tx.gas)
    <3> DEFINE p == [txs |-> Append(b.txs, tx), gas |-> b.gas + tx.gas]
    <3>1. next = [batch |-> p, ok |-> TRUE]
      BY <2>2, Zenon
    <3>2. n \in 1..n
      BY <1>1
    <3>3. n < address_tx_count /\ b.txs[n].price <= tx.price
      <4>1. b.txs[n].price \in Nat
        BY <1>1, <3>2, Zenon
      <4>2. n < address_tx_count
        BY <1>1, <2>2, BatchAssumption, SMTT(20)
      <4>3. b.txs[n].price <= tx.price
        BY <1>1, <2>2, <4>1
      <4> QED
        BY <4>2, <4>3, Zenon
    <3>4. b.gas + tx.gas <= address_gas_limit
      BY <1>1, <2>2, BatchAssumption
    <3>5. tx.nonce = b.txs[1].nonce + n
      BY <1>1, Zenon
    <3>6. GoodBatch(p, P) /\ Len(p.txs) > 0
      BY <3>3, <3>4, <3>5, AppendGood, Zenon
    <3> HIDE DEF p, next
    <3> QED
      BY <3>1, <3>6, Zenon
  <2> QED
    BY <2>1, <2>2, Zenon
<1>7. start <= tx.nonce /\ tx.nonce < start + n => IsGood(within)
  <2> SUFFICES ASSUME start <= tx.nonce, tx.nonce < start + n PROVE IsGood(within)
    BY Zenon
  <2>1. i \in 1..n /\ tx.nonce = b.txs[1].nonce + (i - 1) /\ n \in Nat
    BY <1>1, SMTT(20)
  <2>2. PICK x : x = i
    BY Zenon
  <2>3. x \in 1..n /\ x \in Nat /\ tx.nonce = b.txs[1].nonce + (x - 1)
    BY <2>1, <2>2
  <2> DEFINE newx == [b.txs EXCEPT ![x] = tx]
             kx   == Acceptable(newx)
  <2>4. within = IF \/ x > 1 /\ tx.price < b.txs[x - 1].price
                    \/ kx < x
                 THEN [batch |-> Prefix(b.txs, x - 1), ok |-> FALSE]
                 ELSE IF x < n /\ b.txs[x + 1].price < tx.price
                      THEN [batch |-> Prefix(newx, x), ok |-> TRUE]
                      ELSE [batch |-> Prefix(newx, kx), ok |-> TRUE]
    BY <2>2, Zenon
  <2> HIDE DEF i, within
  <2>5. ASSUME x > 1 PROVE GoodBatch(Prefix(b.txs, x - 1), P) /\ Len(Prefix(b.txs, x - 1).txs) > 0
    <3>1. x - 1 \in 0..n /\ x - 1 > 0
      BY <2>3, <2>5
    <3> QED
      BY <3>1, CutGood
  <2>6. CASE x > 1 /\ tx.price < b.txs[x - 1].price
    <3>1. within = [batch |-> Prefix(b.txs, x - 1), ok |-> FALSE]
      BY <2>4, <2>6, Zenon
    <3> QED
      BY <2>5, <2>6, <3>1, Zenon
  <2>7. CASE ~ (x > 1 /\ tx.price < b.txs[x - 1].price)
    <3>1. x > 1 => b.txs[x - 1].price <= tx.price
      <4>1. x > 1 => x - 1 \in 1..n
        BY <2>3
      <4> QED
        BY <1>1, <2>7, <4>1
    <3>2. /\ kx \in 1..n
          /\ kx >= x => GoodBatch(Prefix(newx, x), P) /\ Len(Prefix(newx, x).txs) > 0
          /\ (x < n => tx.price <= b.txs[x + 1].price) =>
               GoodBatch(Prefix(newx, kx), P) /\ Len(Prefix(newx, kx).txs) > 0
      BY <2>3, <3>1, ReplacedGood, Zenon
    <3> HIDE DEF newx, kx
    <3>3. CASE kx < x
      <4>1. x > 1
        BY <2>3, <3>2, <3>3
      <4>2. within = [batch |-> Prefix(b.txs, x - 1), ok |-> FALSE]
        BY <2>4, <3>3, Zenon
      <4> QED
        BY <2>5, <4>1, <4>2, Zenon
    <3>4. CASE ~ (kx < x)
      <4>1. kx >= x
        BY <2>3, <3>2, <3>4
      <4>2. CASE x < n /\ b.txs[x + 1].price < tx.price
        <5>1. within = [batch |-> Prefix(newx, x), ok |-> TRUE]
          BY <2>4, <2>7, <3>4, <4>2, Zenon
        <5> QED
          BY <3>2, <4>1, <5>1, Zenon
      <4>3. CASE ~ (x < n /\ b.txs[x + 1].price < tx.price)
        <5>1. within = [batch |-> Prefix(newx, kx), ok |-> TRUE]
          BY <2>4, <2>7, <3>4, <4>3, Zenon
        <5>2. x < n => x + 1 \in 1..n
          BY <1>1, <2>3, SMTT(20)
        <5>3. x < n => tx.price <= b.txs[x + 1].price
          BY <1>1, <4>3, <5>2
        <5> QED
          BY <3>2, <5>1, <5>3, Zenon
      <4> QED
        BY <4>2, <4>3, Zenon
    <3> QED
      BY <3>3, <3>4, Zenon
  <2> QED
    BY <2>6, <2>7, Zenon
<1>8. b.txs[1].price \in Nat
  BY <1>1
<1> HIDE DEF start, n, far, joined, same, next, within, IsGood
<1>9. IsGood(BatchInsert(b, tx))
  <2>1. CASE tx.nonce + 1 < start
    BY <1>1, <1>2, <1>3, <2>1, SMTT(20)
  <2>2. CASE tx.nonce + 1 = start
    <3>1. CASE tx.price > b.txs[1].price
      BY <1>1, <1>2, <1>3, <1>8, <2>2, <3>1, SMTT(20)
    <3>2. CASE tx.price <= b.txs[1].price
      BY <1>1, <1>2, <1>4, <1>8, <2>2, <3>2, SMTT(20)
    <3> QED
      BY <1>1, <1>8, <3>1, <3>2, SMTT(20)
  <2>3. CASE tx.nonce > start + n
    BY <1>1, <1>2, <1>5, <2>3
  <2>4. CASE tx.nonce = start + n
    BY <1>1, <1>2, <1>6, <2>4
  <2>5. CASE start <= tx.nonce /\ tx.nonce < start + n
    <3>1. /\ ~ (tx.nonce + 1 < start) /\ tx.nonce + 1 # start
          /\ ~ (tx.nonce > start + n) /\ tx.nonce # start + n
      BY <1>1, <2>5, SMTT(20)
    <3>2. BatchInsert(b, tx) = within
      BY <1>2, <2>5, <3>1, Zenon
    <3> QED
      BY <1>7, <2>5, <3>2, Zenon
  <2>6. \/ tx.nonce + 1 < start \/ tx.nonce + 1 = start \/ tx.nonce > start + n
        \/ tx.nonce = start + n \/ (start <= tx.nonce /\ tx.nonce < start + n)
    <3>1. \A x, s, m \in Nat : \/ x + 1 < s \/ x + 1 = s \/ x > s + m \/ x = s + m
                               \/ (s <= x /\ x < s + m)
      OBVIOUS
    <3>2. tx.nonce \in Nat /\ start \in Nat /\ n \in Nat
      BY <1>1, Zenon
    <3> QED
      BY ONLY <3>1, <3>2, Zenon
  <2> QED
    BY <2>1, <2>2, <2>3, <2>4, <2>5, <2>6, Zenon
<1> QED
  BY <1>9, Zenon DEF IsGood

\* A batch may hold what its transactions come from.
LEMMA GoodWithin ==
  ASSUME NEW P, NEW b, GoodBatch(b, P), NEW Q, \A i \in 1..Len(b.txs) : b.txs[i] \in Q
  PROVE  GoodBatch(b, Q)
<1>1. b \in [txs : Seq(P), gas : Nat]
  BY Zenon DEF GoodBatch
<1>2. b.txs \in Seq(P) /\ Len(b.txs) \in Nat
  BY <1>1
<1>3. b.txs \in [1..Len(b.txs) -> Q]
  BY <1>2
<1>4. b.txs \in Seq(Q)
  BY <1>2, <1>3, SeqDef
<1>5. b \in [txs : Seq(Q), gas : Nat]
  BY <1>1, <1>4, Zenon
<1> QED
  BY <1>5, Zenon DEF GoodBatch

\* split_off_by_nonce cuts the batch where its nonces reach the given one.
LEMMA CutIndexIs ==
  ASSUME NEW P, TxSet(P), NEW b, GoodBatch(b, P), b # NoBatch, NEW nonce \in Nat
  PROVE  LET c == CutIndex(b, nonce)
         IN  /\ c \in 0..Len(b.txs)
             /\ \A i \in 1..c : b.txs[i].nonce < nonce
             /\ \A i \in (c + 1)..Len(b.txs) : b.txs[i].nonce >= nonce
<1>1. PICK t : t = b.txs
  BY Zenon
<1>2. PICK n \in Nat, s \in Nat : n = Len(t) /\ n > 0 /\ s = t[1].nonce
  <2>1. Len(t) \in Nat /\ Len(t) > 0 /\ t \in Seq(P)
    BY <1>1, EmptyIsNoBatch DEF GoodBatch
  <2>2. t[1].nonce \in Nat
    BY <2>1 DEF TxSet
  <2> QED
    BY <2>1, <2>2, Zenon
<1>3. ASSUME NEW i \in 1..n PROVE t[i].nonce = s + (i - 1)
  BY <1>1, <1>2, Zenon DEF GoodBatch, Ordered
<1>4. PICK c : c = CutIndex(b, nonce)
  BY Zenon
<1>5. c = IF nonce < s THEN 0 ELSE IF nonce >= s + n THEN n ELSE nonce - s
  BY <1>1, <1>2, <1>4, Zenon DEF CutIndex, StartNonce
<1>6. c \in 0..n
  BY <1>2, <1>5
<1>7. ASSUME NEW i \in 1..c PROVE t[i].nonce < nonce
  <2>1. i \in 1..n /\ i \in Nat
    BY <1>6
  <2>2. s + (i - 1) < nonce
    BY <1>2, <1>5, <1>6, <2>1
  <2> QED
    BY <1>3, <2>1, <2>2, Zenon
<1>8. ASSUME NEW i \in (c + 1)..n PROVE t[i].nonce >= nonce
  <2>1. i \in 1..n /\ i \in Nat
    BY <1>6
  <2>2. s + (i - 1) >= nonce
    <3>1. i >= c + 1 /\ i <= n /\ c \in Nat
      BY <1>2, <1>6, <2>1
    <3>2. CASE nonce < s
      BY <1>2, <2>1, <3>2
    <3>3. CASE ~ (nonce < s)
      <4>1. c # n
        BY <1>2, <2>1, <3>1
      <4>2. c = nonce - s
        BY <1>5, <3>3, <4>1, Zenon
      <4> QED
        BY <1>2, <2>1, <3>1, <4>2
    <3> QED
      BY <3>2, <3>3, Zenon
  <2> QED
    BY <1>3, <2>1, <2>2, Zenon
<1> QED
  BY <1>1, <1>2, <1>4, <1>6, <1>7, <1>8, Zenon

\* split_off_suffix leaves the transactions below the nonce.
LEMMA SuffixGood ==
  ASSUME NEW P, TxSet(P), NEW b, GoodBatch(b, P), NEW nonce \in Nat
  PROVE  GoodBatch(SplitOffSuffix(b, nonce), {t \in P : t.nonce < nonce})
<1> DEFINE Q == {t \in P : t.nonce < nonce}
<1>0. TxSet(Q) /\ b.txs \in Seq(P)
  BY Zenon DEF TxSet, GoodBatch
<1>1. CASE b = NoBatch
  <2>1. SplitOffSuffix(b, nonce) = NoBatch
    BY <1>1, Zenon DEF SplitOffSuffix
  <2> HIDE DEF Q
  <2>2. GoodBatch(NoBatch, Q)
    BY <1>0, NoBatchGood, Zenon
  <2> QED
    BY <2>1, <2>2, Zenon DEF Q
<1>2. CASE b # NoBatch
  <2>1. PICK c : c = CutIndex(b, nonce)
    BY Zenon
  <2>2. /\ c \in 0..Len(b.txs)
        /\ \A i \in 1..c : b.txs[i].nonce < nonce
    BY <1>2, <2>1, CutIndexIs, Zenon
  <2>3. ASSUME NEW i \in 1..c PROVE b.txs[i] \in Q
    <3>1. i \in 1..Len(b.txs)
      BY <2>2
    <3>2. b.txs[i] \in P
      BY <1>0, <3>1
    <3> QED
      BY <2>2, <3>2, Zenon
  <2>4. CASE c = Len(b.txs)
    <3>1. SplitOffSuffix(b, nonce) = b
      BY <2>1, <2>4, Zenon DEF SplitOffSuffix
    <3> HIDE DEF Q
    <3>2. \A i \in 1..Len(b.txs) : b.txs[i] \in Q
      BY <2>3, <2>4, Zenon
    <3>3. GoodBatch(b, Q)
      BY <3>2, GoodWithin, Zenon
    <3> QED
      BY <3>1, <3>3, Zenon DEF Q
  <2>5. CASE c # Len(b.txs)
    <3>1. PICK p : p = Prefix(b.txs, c)
      BY Zenon
    <3>2. SplitOffSuffix(b, nonce) = p
      BY <1>2, <2>1, <2>5, <3>1, Zenon DEF SplitOffSuffix
    <3>3. GoodBatch(p, P) /\ Len(p.txs) = c /\ \A i \in 1..c : p.txs[i] = b.txs[i]
      BY <2>2, <3>1, CutGood, Zenon
    <3> HIDE DEF Q
    <3>4. \A i \in 1..Len(p.txs) : p.txs[i] \in Q
      BY <2>3, <3>3, Zenon
    <3>5. GoodBatch(p, Q)
      BY <3>3, <3>4, GoodWithin, Zenon
    <3> QED
      BY <3>2, <3>5, Zenon DEF Q
  <2> QED
    BY <2>4, <2>5, Zenon
<1> QED
  BY <1>1, <1>2, Zenon

\* split_off_prefix leaves the transactions from the nonce on.
LEMMA RestGood ==
  ASSUME NEW P, TxSet(P), NEW b, GoodBatch(b, P), NEW nonce \in Nat
  PROVE  GoodBatch(SplitOffPrefix(b, nonce), {t \in P : t.nonce >= nonce})
<1> DEFINE Q == {t \in P : t.nonce >= nonce}
<1>0. /\ TxSet(Q) /\ b.txs \in Seq(P) /\ Len(b.txs) \in Nat
      /\ Ordered(b.txs, Len(b.txs)) /\ WithinLimits(b.txs, Len(b.txs))
  BY DEF TxSet, GoodBatch
<1>1. CASE b = NoBatch
  <2>1. SplitOffPrefix(b, nonce) = NoBatch
    BY <1>1, Zenon DEF SplitOffPrefix
  <2> HIDE DEF Q
  <2>2. GoodBatch(NoBatch, Q)
    BY <1>0, NoBatchGood, Zenon
  <2> QED
    BY <2>1, <2>2, Zenon DEF Q
<1>2. CASE b # NoBatch
  <2>1. PICK c : c = CutIndex(b, nonce)
    BY Zenon
  <2>2. /\ c \in 0..Len(b.txs)
        /\ \A i \in (c + 1)..Len(b.txs) : b.txs[i].nonce >= nonce
    BY <1>2, <2>1, CutIndexIs, Zenon
  <2>3. ASSUME NEW i \in (c + 1)..Len(b.txs) PROVE b.txs[i] \in Q
    <3>1. i \in 1..Len(b.txs)
      BY <2>2
    <3>2. b.txs[i] \in P
      BY <1>0, <3>1
    <3> QED
      BY <2>2, <3>2, Zenon
  <2>4. CASE c = 0
    <3>1. SplitOffPrefix(b, nonce) = b
      BY <2>1, <2>4, Zenon DEF SplitOffPrefix
    <3> HIDE DEF Q
    <3>2. \A i \in 1..Len(b.txs) : b.txs[i] \in Q
      BY <2>3, <2>4
    <3>3. GoodBatch(b, Q)
      BY <3>2, GoodWithin, Zenon
    <3> QED
      BY <3>1, <3>3, Zenon DEF Q
  <2>5. CASE c # 0
    <3>1. PICK r : r = SubSeq(b.txs, c + 1, Len(b.txs))
      BY Zenon
    <3>2. /\ r \in Seq(P) /\ Len(r) = Len(b.txs) - c
          /\ \A i \in 1..Len(r) : r[i] = b.txs[c + i]
          /\ GasOf(r, Len(r)) <= GasOf(b.txs, Len(b.txs))
      BY <1>0, <2>2, <3>1, GasOfRest, Zenon
    <3>3. SplitOffPrefix(b, nonce) = Prefix(r, Len(r))
      BY <1>2, <2>1, <2>5, <3>1, Zenon DEF SplitOffPrefix
    <3> HIDE DEF Q
    <3>4. ASSUME NEW i \in 1..Len(r)
          PROVE  /\ c + i \in (c + 1)..Len(b.txs) /\ c + i \in 1..Len(b.txs)
                 /\ r[i] = b.txs[c + i] /\ r[i] \in Q
      BY <1>0, <2>2, <2>3, <3>2
    <3>5. Ordered(r, Len(r))
      <4>1. ASSUME NEW i \in 1..Len(r) PROVE r[i].nonce = r[1].nonce + (i - 1)
        <5>1. 1 \in 1..Len(r) /\ i \in Nat /\ c \in Nat
          BY <1>0, <2>2, <3>2
        <5>2. r[i].nonce = b.txs[1].nonce + ((c + i) - 1)
          BY <1>0, <3>4, Zenon DEF Ordered
        <5>3. r[1].nonce = b.txs[1].nonce + ((c + 1) - 1)
          <6>1. r[1] = b.txs[c + 1] /\ c + 1 \in 1..Len(b.txs)
            BY <3>4, <5>1, Zenon
          <6> QED
            BY <1>0, <6>1, Zenon DEF Ordered
        <5>4. b.txs[1].nonce \in Nat
          BY <1>0, <2>2, <2>5 DEF TxSet
        <5> QED
          BY <5>1, <5>2, <5>3, <5>4, SMTT(20)
      <4>2. ASSUME NEW i \in 1..(Len(r) - 1) PROVE r[i].price <= r[i + 1].price
        <5>1. /\ i \in 1..Len(r) /\ i + 1 \in 1..Len(r) /\ c + (i + 1) = (c + i) + 1
              /\ c + i \in 1..(Len(b.txs) - 1)
          BY <1>0, <2>2, <3>2
        <5>2. b.txs[c + i].price <= b.txs[(c + i) + 1].price
          BY <1>0, <5>1, Zenon DEF Ordered
        <5> QED
          BY <3>4, <5>1, <5>2, Zenon
      <4> QED
        BY <4>1, <4>2, Zenon DEF Ordered
    <3>6. WithinLimits(r, Len(r))
      <4>1. /\ GasOf(r, Len(r)) \in Nat /\ GasOf(b.txs, Len(b.txs)) \in Nat
            /\ Len(r) \in Nat /\ Len(r) <= Len(b.txs)
        <5>1. Len(r) \in 0..Len(r) /\ Len(b.txs) \in 0..Len(b.txs) /\ Len(r) <= Len(b.txs)
          BY <1>0, <2>2, <3>2
        <5> QED
          BY <1>0, <3>2, <5>1, GasOfStep, SMTT(20)
      <4> QED
        BY <1>0, <3>2, <4>1, BatchAssumption, SMTT(20) DEF WithinLimits
    <3>7. /\ GoodBatch(Prefix(r, Len(r)), P) /\ Len(Prefix(r, Len(r)).txs) = Len(r)
          /\ \A i \in 1..Len(r) : Prefix(r, Len(r)).txs[i] = r[i]
      <4>1. Len(r) \in 0..Len(r)
        BY <3>2
      <4> QED
        BY <3>2, <3>5, <3>6, <4>1, PrefixGood, Zenon
    <3>8. PICK p : p = Prefix(r, Len(r))
      BY Zenon
    <3>9. \A i \in 1..Len(p.txs) : p.txs[i] \in Q
      BY <3>4, <3>7, <3>8, Zenon
    <3>10. GoodBatch(p, Q)
      BY <3>7, <3>8, <3>9, GoodWithin, Zenon
    <3> QED
      BY <3>3, <3>8, <3>10, Zenon DEF Q
  <2> QED
    BY <2>4, <2>5, Zenon
<1> QED
  BY <1>1, <1>2, Zenon

\* What an insertion at a nonce takes from the nonce pool.
LEMMA TxAt ==
  ASSUME NEW B, NEW n \in Int, InfoAt(B, n) # {}
  PROVE  LowestInfo(InfoAt(B, n)).tx \in TxsOf(B)
<1>1. PICK i \in InfoAt(B, n) : TRUE
  BY Zenon
<1>2. \A k \in InfoAt(B, n) : i.tx.nonce <= k.tx.nonce
  BY DEF InfoAt
<1>3. LowestInfo(InfoAt(B, n)) \in InfoAt(B, n)
  BY <1>2, Zenon DEF LowestInfo
<1> QED
  BY <1>3, Zenon DEF InfoAt, TxsOf

\* The nonces of a nonce pool are finitely many numbers.
LEMMA Nonces ==
  ASSUME NEW B, IsFiniteSet(B), TxSet(TxsOf(B))
  PROVE  {i.tx.nonce : i \in B} \in SUBSET Nat /\ IsFiniteSet({i.tx.nonce : i \in B})
<1> DEFINE f == [i \in B |-> i.tx.nonce]
<1>1. {i.tx.nonce : i \in B} \in SUBSET Nat
  BY Zenon DEF TxSet, TxsOf
<1>2. f \in Surjection(B, {i.tx.nonce : i \in B})
  BY Zenon DEF Surjection
<1>3. IsFiniteSet({i.tx.nonce : i \in B})
  <2> HIDE DEF f
  <2> QED
    BY <1>2, FS_Surjection, Zenon
<1> QED
  BY <1>1, <1>3, Zenon

\* The batches that a loop of insertions makes, and whether it goes on.
Growing(P, least) ==
  {r \in [batch : [txs : Seq(P), gas : Nat], go : BOOLEAN] :
     GoodBatch(r.batch, P) /\ Len(r.batch.txs) >= least}

\* make_packing_batch makes a batch of what is in the nonce pool.
LEMMA MakeGood ==
  ASSUME NEW B, IsFiniteSet(B), TxSet(TxsOf(B)), NEW first \in TxsOf(B), NEW lastValid \in Int
  PROVE  GoodBatch(MakePackingBatch(B, first, lastValid), TxsOf(B))
<1>1. PICK P : P = TxsOf(B)
  BY Zenon
<1>2. TxSet(P) /\ first \in P
  BY <1>1, Zenon
<1> DEFINE V == Growing(P, 1)
           Step(n, prev) ==
             IF ~prev.go \/ InfoAt(B, n) = {}
             THEN [prev EXCEPT !.go = FALSE]
             ELSE [batch |-> BatchInsert(prev.batch, LowestInfo(InfoAt(B, n)).tx).batch,
                   go |-> /\ BatchInsert(prev.batch, LowestInfo(InfoAt(B, n)).tx).ok
                          /\ n + 1 <= lastValid]
           start == [batch |-> NewBatch(first), go |-> TRUE]
           F == [n \in Int |-> [prev \in V |-> Step(n, prev)]]
<1> DEFINE top == Max({i.tx.nonce : i \in B})
           lo == first.nonce
<1>3. lo \in Int /\ top \in Int /\ lo <= top
  <2> DEFINE S == {i.tx.nonce : i \in B}
  <2>1. first.nonce \in S
    BY Zenon DEF TxsOf
  <2>2. S \in SUBSET Nat /\ IsFiniteSet(S)
    BY Nonces, Zenon
  <2> HIDE DEF S
  <2>3. Max(S) \in S /\ \A y \in S : y <= Max(S)
    BY <2>1, <2>2, MaxIs, Zenon
  <2>4. top = Max(S)
    BY Zenon DEF S
  <2>5. first.nonce \in Nat /\ Max(S) \in Nat /\ first.nonce <= Max(S)
    BY <2>1, <2>2, <2>3, Zenon
  <2> HIDE DEF top
  <2> QED
    BY <2>4, <2>5
<1>4. start \in V
  <2>1. GoodBatch(NewBatch(first), P) /\ Len(NewBatch(first).txs) = 1
    BY <1>2, NewBatchGood, Zenon
  <2>2. NewBatch(first) \in [txs : Seq(P), gas : Nat] /\ Len(NewBatch(first).txs) >= 1
    BY <2>1 DEF GoodBatch
  <2>3. start \in [batch : [txs : Seq(P), gas : Nat], go : BOOLEAN]
    BY <2>2, Zenon
  <2> QED
    BY <2>1, <2>2, <2>3, Zenon DEF Growing
<1>5. ASSUME NEW n \in Int, NEW prev \in V PROVE Step(n, prev) \in V
  <2>1. /\ prev \in [batch : [txs : Seq(P), gas : Nat], go : BOOLEAN]
        /\ GoodBatch(prev.batch, P) /\ Len(prev.batch.txs) >= 1
    BY Zenon DEF Growing
  <2>2. CASE ~prev.go \/ InfoAt(B, n) = {}
    <3>1. Step(n, prev) = [prev EXCEPT !.go = FALSE]
      BY <2>2, Zenon
    <3> HIDE DEF Step
    <3> QED
      BY <2>1, <3>1, Zenon DEF Growing
  <2>3. CASE ~ (~prev.go \/ InfoAt(B, n) = {})
    <3>1. PICK res : res = BatchInsert(prev.batch, LowestInfo(InfoAt(B, n)).tx)
      BY Zenon
    <3>2. LowestInfo(InfoAt(B, n)).tx \in P
      BY <1>1, <2>3, TxAt, Zenon
    <3>3. Len(prev.batch.txs) > 0
      BY <2>1
    <3>4. GoodBatch(res.batch, P) /\ Len(res.batch.txs) > 0 /\ res.ok \in BOOLEAN
      BY <1>2, <2>1, <3>1, <3>2, <3>3, BatchInsertGood, Zenon
    <3>5. Len(res.batch.txs) >= 1 /\ res.batch \in [txs : Seq(P), gas : Nat]
      BY <3>4 DEF GoodBatch
    <3>6. Step(n, prev) = [batch |-> res.batch, go |-> res.ok /\ n + 1 <= lastValid]
      BY <2>3, <3>1, Zenon
    <3>7. (res.ok /\ n + 1 <= lastValid) \in BOOLEAN
      BY <3>4, Zenon
    <3> HIDE DEF Step
    <3> QED
      BY <3>4, <3>5, <3>6, <3>7 DEF Growing
  <2> QED
    BY <2>2, <2>3, Zenon
<1> HIDE DEF V, Step, start, lo, top
<1>6. F \in [Int -> [V -> V]]
  BY <1>5, Zenon
<1>7. PICK g : Loop(lo, top, V, start, F, g)
  <2> HIDE DEF F
  <2> QED
    BY <1>3, <1>4, <1>6, LoopExists, Zenon
<1>8. g = [n \in lo..top |-> IF n = lo THEN start ELSE Step(n, g[n - 1])]
  <2>1. g \in [lo..top -> V] /\ g[lo] = start
    BY <1>7, Zenon DEF Loop
  <2>2. ASSUME NEW n \in lo..top, n # lo PROVE g[n] = Step(n, g[n - 1])
    <3>1. n \in (lo + 1)..top /\ n - 1 \in lo..top /\ n \in Int
      BY <1>3, <2>2
    <3>2. g[n] = F[n][g[n - 1]]
      <4> HIDE DEF F
      <4> QED
        BY <1>7, <3>1, Zenon DEF Loop
    <3>3. g[n - 1] \in V
      BY <2>1, <3>1, Zenon
    <3> QED
      BY <3>1, <3>2, <3>3, Zenon
  <2> HIDE DEF F
  <2>3. \A n \in lo..top : g[n] = IF n = lo THEN start ELSE Step(n, g[n - 1])
    BY <2>1, <2>2, Zenon
  <2> QED
    BY <2>1, <2>3, Zenon
<1> HIDE DEF F
<1> DEFINE h == CHOOSE f : f = [n \in lo..top |-> IF n = lo THEN start ELSE Step(n, f[n - 1])]
<1>9. h = [n \in lo..top |-> IF n = lo THEN start ELSE Step(n, h[n - 1])]
  BY <1>8, Zenon
<1>10. MakePackingBatch(B, first, lastValid) = h[top].batch
  BY Zenon DEF MakePackingBatch, Step, start, lo, top
<1> HIDE DEF h
<1> DEFINE S == {n \in lo..top : h[n] \in V}
<1>11. lo \in S
  BY <1>3, <1>4, <1>9
<1>12. ASSUME NEW n \in (lo + 1)..top, n - 1 \in S PROVE n \in S
  <2>1. n \in lo..top /\ n # lo /\ n \in Int
    BY <1>3
  <2>2. h[n] = Step(n, h[n - 1])
    BY <1>9, <2>1, Zenon
  <2> QED
    BY <1>5, <1>12, <2>1, <2>2, Zenon
<1>13. top \in S
  <2> HIDE DEF S
  <2>1. top \in lo..top
    BY <1>3
  <2> QED
    BY <1>3, <1>11, <1>12, <2>1, Climb, Zenon
<1> QED
  BY <1>1, <1>10, <1>13, Zenon DEF V, Growing

\* PackingPool::insert keeps the rules, for a sender with a batch and for one
\* without.
LEMMA PoolInsertGood ==
  ASSUME NEW P, TxSet(P), NEW b, GoodBatch(b, P), NEW tx \in P
  PROVE  GoodBatch(PoolInsert(b, tx).batch, P) /\ PoolInsert(b, tx).ok \in BOOLEAN
<1>1. CASE b = NoBatch
  <2>1. PoolInsert(b, tx) = [batch |-> NewBatch(tx), ok |-> TRUE]
    BY <1>1, Zenon DEF PoolInsert
  <2> QED
    BY <2>1, NewBatchGood
<1>2. CASE b # NoBatch
  <2>1. PoolInsert(b, tx) = BatchInsert(b, tx)
    BY <1>2, Zenon DEF PoolInsert
  <2>2. Len(b.txs) > 0
    BY <1>2, EmptyIsNoBatch
  <2> QED
    BY <2>1, <2>2, BatchInsertGood, Zenon
<1> QED
  BY <1>1, <1>2, Zenon

\* The insertions that follow a batch keep it one.
LEMMA ExtendGood ==
  ASSUME NEW B, TxSet(TxsOf(B)), NEW b, GoodBatch(b, TxsOf(B)),
         NEW from \in Int, NEW lastValid \in Int, from - 1 <= lastValid
  PROVE  GoodBatch(ExtendBatch(B, b, from, lastValid), TxsOf(B))
<1>1. PICK P : P = TxsOf(B)
  BY Zenon
<1>2. TxSet(P) /\ GoodBatch(b, P)
  BY <1>1, Zenon
<1> DEFINE V == Growing(P, 0)
           Step(n, prev) ==
             IF ~prev.go \/ InfoAt(B, n) = {}
             THEN prev
             ELSE [batch |-> PoolInsert(prev.batch, LowestInfo(InfoAt(B, n)).tx).batch,
                   go |-> PoolInsert(prev.batch, LowestInfo(InfoAt(B, n)).tx).ok]
           start == [batch |-> b, go |-> TRUE]
           F == [n \in Int |-> [prev \in V |-> Step(n, prev)]]
           lo == from - 1
<1>3. lo \in Int /\ lo <= lastValid
  OBVIOUS
<1>4. ASSUME NEW c, GoodBatch(c, P) PROVE c \in [txs : Seq(P), gas : Nat] /\ Len(c.txs) >= 0
  <2>1. c \in [txs : Seq(P), gas : Nat]
    BY <1>4, Zenon DEF GoodBatch
  <2>2. c.txs \in Seq(P)
    BY <2>1, Zenon
  <2> QED
    BY <2>1, <2>2
<1>5. start \in V
  <2>1. b \in [txs : Seq(P), gas : Nat] /\ Len(b.txs) >= 0
    BY <1>2, <1>4, Zenon
  <2>2. start \in [batch : [txs : Seq(P), gas : Nat], go : BOOLEAN]
    BY <2>1, Zenon
  <2> QED
    BY <1>2, <2>1, <2>2, Zenon DEF Growing
<1>6. ASSUME NEW n \in Int, NEW prev \in V PROVE Step(n, prev) \in V
  <2>1. /\ prev \in [batch : [txs : Seq(P), gas : Nat], go : BOOLEAN]
        /\ GoodBatch(prev.batch, P)
    BY Zenon DEF Growing
  <2>2. CASE ~prev.go \/ InfoAt(B, n) = {}
    <3>1. Step(n, prev) = prev
      BY <2>2, Zenon
    <3> HIDE DEF Step
    <3> QED
      BY <3>1, Zenon
  <2>3. CASE ~ (~prev.go \/ InfoAt(B, n) = {})
    <3>1. PICK res : res = PoolInsert(prev.batch, LowestInfo(InfoAt(B, n)).tx)
      BY Zenon
    <3>2. LowestInfo(InfoAt(B, n)).tx \in P
      BY <1>1, <2>3, TxAt, Zenon
    <3>3. GoodBatch(res.batch, P) /\ res.ok \in BOOLEAN
      BY <1>2, <2>1, <3>1, <3>2, PoolInsertGood, Zenon
    <3>4. res.batch \in [txs : Seq(P), gas : Nat] /\ Len(res.batch.txs) >= 0
      BY <1>4, <3>3, Zenon
    <3>5. Step(n, prev) = [batch |-> res.batch, go |-> res.ok]
      BY <2>3, <3>1, Zenon
    <3> HIDE DEF Step
    <3> QED
      BY <3>3, <3>4, <3>5 DEF Growing
  <2> QED
    BY <2>2, <2>3, Zenon
<1> HIDE DEF V, Step, start, lo
<1>7. F \in [Int -> [V -> V]]
  BY <1>6, Zenon
<1>8. PICK g : Loop(lo, lastValid, V, start, F, g)
  <2> HIDE DEF F
  <2> QED
    BY <1>3, <1>5, <1>7, LoopExists, Zenon
<1>9. g = [n \in lo..lastValid |-> IF n = lo THEN start ELSE Step(n, g[n - 1])]
  <2>1. g \in [lo..lastValid -> V] /\ g[lo] = start
    BY <1>8, Zenon DEF Loop
  <2>2. ASSUME NEW n \in lo..lastValid, n # lo PROVE g[n] = Step(n, g[n - 1])
    <3>1. n \in (lo + 1)..lastValid /\ n - 1 \in lo..lastValid /\ n \in Int
      BY <1>3, <2>2
    <3>2. g[n] = F[n][g[n - 1]]
      <4> HIDE DEF F
      <4> QED
        BY <1>8, <3>1, Zenon DEF Loop
    <3>3. g[n - 1] \in V
      BY <2>1, <3>1, Zenon
    <3> QED
      BY <3>1, <3>2, <3>3, Zenon
  <2> HIDE DEF F
  <2>3. \A n \in lo..lastValid : g[n] = IF n = lo THEN start ELSE Step(n, g[n - 1])
    BY <2>1, <2>2, Zenon
  <2> QED
    BY <2>1, <2>3, Zenon
<1> HIDE DEF F
<1> DEFINE h == CHOOSE f : f = [n \in lo..lastValid |->
                                  IF n = lo THEN start ELSE Step(n, f[n - 1])]
<1>10. h = [n \in lo..lastValid |-> IF n = lo THEN start ELSE Step(n, h[n - 1])]
  BY <1>9, Zenon
<1>11. ExtendBatch(B, b, from, lastValid) = h[lastValid].batch
  BY Zenon DEF ExtendBatch, Step, start, lo
<1> HIDE DEF h
<1> DEFINE S == {n \in lo..lastValid : h[n] \in V}
<1>12. lo \in S
  BY <1>3, <1>5, <1>10
<1>13. ASSUME NEW n \in (lo + 1)..lastValid, n - 1 \in S PROVE n \in S
  <2>1. n \in lo..lastValid /\ n # lo /\ n \in Int
    BY <1>3
  <2>2. h[n] = Step(n, h[n - 1])
    BY <1>10, <2>1, Zenon
  <2> QED
    BY <1>6, <1>13, <2>1, <2>2, Zenon
<1>14. lastValid \in S
  <2> HIDE DEF S
  <2>1. lastValid \in lo..lastValid
    BY <1>3
  <2> QED
    BY <1>3, <1>12, <1>13, <2>1, Climb, Zenon
<1> QED
  BY <1>1, <1>11, <1>14, Zenon DEF V, Growing

\* Where recalculate_readiness_with_local_info finds something ready: a
\* transaction of the pool, up to some nonce.
LEMMA ReadinessIs ==
  ASSUME NEW B, IsFiniteSet(B), TxSet(TxsOf(B)), NEW nonce, NEW balance,
         Readiness(B, nonce, balance).ready
  PROVE  /\ Readiness(B, nonce, balance).first \in TxsOf(B)
         /\ Readiness(B, nonce, balance).last \in Nat
<1> DEFINE unpacked == {i \in InfosFrom(B, nonce) : ~i.packed}
           first    == LowestInfo(unpacked).tx
           upTo     == {i \in InfosFrom(B, nonce) : i.tx.nonce <= first.nonce}
           cost     == CostWithin(B, nonce, first.nonce)
           last     == ContinuousReadyNonce(B, first.nonce, balance - cost)
           none     == \/ unpacked = {}
                       \/ Cardinality(upTo) - 1 # first.nonce - nonce
                       \/ cost > balance
<1>1. Readiness(B, nonce, balance) =
        IF none THEN NotReady ELSE [ready |-> TRUE, first |-> first, last |-> last]
  BY Zenon DEF Readiness
<1>2. ~ none
  <2>1. NotReady.ready = FALSE
    BY Zenon DEF NotReady
  <2> HIDE DEF none, first, last
  <2>2. none => Readiness(B, nonce, balance) = NotReady
    BY <1>1, Zenon
  <2> QED
    BY <2>1, <2>2, Zenon
<1>3. unpacked # {}
  BY <1>2, Zenon
<1>4. /\ Readiness(B, nonce, balance).first = first
      /\ Readiness(B, nonce, balance).last = last
  <2> HIDE DEF none, first, last
  <2> QED
    BY <1>1, <1>2
<1> HIDE DEF none
<1>5. first \in TxsOf(B) /\ first.nonce \in Nat
  <2>1. unpacked \subseteq B
    BY Zenon DEF InfosFrom
  <2>2. TxSet(TxsOf(unpacked))
    <3> HIDE DEF unpacked
    <3> QED
      BY <2>1, Zenon DEF TxSet, TxsOf
  <2>3. LowestInfo(unpacked) \in unpacked
    <3> HIDE DEF unpacked
    <3> QED
      BY <1>3, <2>2, LowestIs, Zenon
  <2>4. LowestInfo(unpacked) \in B
    BY <2>1, <2>3, Zenon
  <2> HIDE DEF unpacked
  <2>5. first \in TxsOf(B)
    BY <2>4, Zenon DEF TxsOf
  <2> QED
    BY <2>5, Zenon DEF TxSet
<1> HIDE DEF first, cost
<1>6. last \in Nat
  <2> DEFINE N == {i.tx.nonce : i \in InfosFrom(B, first.nonce)}
             T == {n \in N : /\ \A m \in (first.nonce + 1)..n :
                                  \E i \in InfoAt(B, m) : ~i.packed
                             /\ CostWithin(B, first.nonce + 1, n) <= balance - cost}
             S == {first.nonce} \cup T
  <2>1. last = Max(S)
    BY Zenon DEF ContinuousReadyNonce
  <2>2. N \subseteq {i.tx.nonce : i \in B}
    BY Zenon DEF InfosFrom
  <2>3. {i.tx.nonce : i \in B} \in SUBSET Nat /\ IsFiniteSet({i.tx.nonce : i \in B})
    BY Nonces, Zenon
  <2>4. T \subseteq N
    BY Zenon
  <2> HIDE DEF N, T, last
  <2>5. IsFiniteSet(T) /\ T \subseteq Nat
    BY <2>2, <2>3, <2>4, FS_Subset, Zenon
  <2>6. IsFiniteSet(S)
    BY <2>5, FS_AddElement
  <2>7. S \in SUBSET Nat /\ S # {}
    BY <1>5, <2>5, Zenon
  <2> HIDE DEF S
  <2>8. Max(S) \in S
    BY <2>6, <2>7, MaxIs, Zenon
  <2> QED
    BY <2>1, <2>7, <2>8, Zenon
<1> QED
  BY <1>4, <1>5, <1>6, Zenon

\* recalculate_readiness_with_local_info leaves a batch within the rules
\* whichever of its ways it takes: drop, make, cut at either end, extend.
LEMMA RecalculateGood ==
  ASSUME NEW B, IsFiniteSet(B), TxSet(TxsOf(B)), NEW b, GoodBatch(b, TxsOf(B)),
         NEW r, r.ready => r.first \in TxsOf(B) /\ r.last \in Nat
  PROVE  GoodBatch(RecalculateBatch(B, b, r), TxsOf(B))
<1> DEFINE last == b.txs[Len(b.txs)].nonce
           cut  == IF StartNonce(b) < r.first.nonce
                   THEN SplitOffPrefix(b, r.first.nonce) ELSE b
           rest == CASE last > r.last -> SplitOffSuffix(cut, r.last + 1)
                     [] last < r.last -> ExtendBatch(B, cut, last, r.last)
                     [] last = r.last -> cut
           make == MakePackingBatch(B, r.first, r.last)
           new  == b = NoBatch \/ StartNonce(b) > r.first.nonce
<1>1. RecalculateBatch(B, b, r) =
        IF ~r.ready THEN NoBatch ELSE IF new THEN make ELSE rest
  BY Zenon DEF RecalculateBatch
<1>2. PICK P : P = TxsOf(B)
  BY Zenon
<1>3. TxSet(P) /\ GoodBatch(b, P)
  BY <1>2, Zenon
<1> HIDE DEF make, rest
<1>4. CASE ~r.ready
  BY <1>1, <1>4, NoBatchGood, Zenon
<1>5. CASE r.ready /\ new
  <2>1. RecalculateBatch(B, b, r) = make
    <3> HIDE DEF new
    <3> QED
      BY <1>1, <1>5, Zenon
  <2>2. r.first \in TxsOf(B) /\ r.last \in Int
    BY <1>5
  <2> QED
    BY <2>1, <2>2, MakeGood, Zenon DEF make
<1>6. CASE r.ready /\ ~ new
  <2>1. RecalculateBatch(B, b, r) = rest
    <3> HIDE DEF new
    <3> QED
      BY <1>1, <1>6, Zenon
  <2>2. r.first \in P /\ r.last \in Nat /\ r.first.nonce \in Nat
    BY <1>2, <1>3, <1>6, Zenon DEF TxSet
  <2>3. Len(b.txs) > 0 /\ b.txs \in Seq(P)
    <3>1. Len(b.txs) > 0
      BY <1>3, <1>6, EmptyIsNoBatch
    <3> QED
      BY <1>3, <3>1, Zenon DEF GoodBatch
  <2>4. last \in Nat
    <3>1. b.txs[Len(b.txs)] \in P
      BY <2>3
    <3> QED
      BY <1>3, <3>1, Zenon DEF TxSet
  <2>5. GoodBatch(cut, P)
    <3>1. CASE StartNonce(b) < r.first.nonce
      <4> DEFINE Q == {t \in P : t.nonce >= r.first.nonce}
                 c == SplitOffPrefix(b, r.first.nonce)
      <4>1. GoodBatch(c, Q)
        BY <1>3, <2>2, RestGood, Zenon
      <4>2. Q \subseteq P
        BY Zenon
      <4> HIDE DEF Q, c
      <4>3. \A i \in 1..Len(c.txs) : c.txs[i] \in P
        <5>1. c.txs \in Seq(Q)
          BY <4>1, Zenon DEF GoodBatch
        <5> QED
          BY <4>2, <5>1
      <4>4. GoodBatch(c, P)
        BY <4>1, <4>3, GoodWithin, Zenon
      <4> QED
        BY <3>1, <4>4, Zenon DEF c
    <3>2. CASE ~ (StartNonce(b) < r.first.nonce)
      BY <1>3, <3>2, Zenon
    <3> QED
      BY <3>1, <3>2, Zenon
  <2> HIDE DEF cut, last, new
  <2>6. CASE last > r.last
    <3> DEFINE Q == {t \in P : t.nonce < r.last + 1}
               c == SplitOffSuffix(cut, r.last + 1)
    <3>1. r.last + 1 \in Nat
      BY <2>2
    <3>2. GoodBatch(c, Q)
      BY <1>3, <2>5, <3>1, SuffixGood, Zenon
    <3>3. Q \subseteq P
      BY Zenon
    <3>4. rest = c
      BY <2>2, <2>4, <2>6, SMTT(20) DEF rest
    <3> HIDE DEF Q, c
    <3>5. \A i \in 1..Len(c.txs) : c.txs[i] \in P
      <4>1. c.txs \in Seq(Q)
        BY <3>2, Zenon DEF GoodBatch
      <4> QED
        BY <3>3, <4>1
    <3>6. GoodBatch(c, P)
      BY <3>2, <3>5, GoodWithin, Zenon
    <3> QED
      BY <1>2, <2>1, <3>4, <3>6, Zenon
  <2>7. CASE last < r.last
    <3>1. rest = ExtendBatch(B, cut, last, r.last)
      BY <2>2, <2>4, <2>7, SMTT(20) DEF rest
    <3>2. last \in Int /\ r.last \in Int /\ last - 1 <= r.last
      BY <2>2, <2>4, <2>7
    <3>3. GoodBatch(cut, TxsOf(B))
      BY <1>2, <2>5, Zenon
    <3>4. GoodBatch(ExtendBatch(B, cut, last, r.last), TxsOf(B))
      BY <3>2, <3>3, ExtendGood, Zenon
    <3> QED
      BY <2>1, <3>1, <3>4, Zenon
  <2>8. CASE last = r.last
    <3>1. rest = cut
      BY <2>2, <2>4, <2>8 DEF rest
    <3> QED
      BY <1>2, <2>1, <2>5, <3>1, Zenon
  <2> QED
    BY <2>2, <2>4, <2>6, <2>7, <2>8, SMTT(20)
<1> QED
  BY <1>4, <1>5, <1>6, Zenon
-----------------------------------------------------------------------------
(* Every batch is within its rules, and made of its sender's transactions.  *)
Batches == \A s \in Senders : GoodBatch(packing_pool[s], TxsOf(buckets[s]))

\* The transactions of a bucket have numbers for nonce, price and gas limit.
LEMMA BucketTxs ==
  ASSUME NEW B \in SUBSET Infos
  PROVE  TxSet(TxsOf(B))
BY PoolAssumption, Zenon DEF Infos, TxSet, TxsOf

\* A batch stays one when more transactions join the nonce pool.
LEMMA GoodMore ==
  ASSUME NEW P, NEW Q, P \subseteq Q, NEW b, GoodBatch(b, P)
  PROVE  GoodBatch(b, Q)
<1>1. b.txs \in Seq(P)
  BY Zenon DEF GoodBatch
<1>2. \A i \in 1..Len(b.txs) : b.txs[i] \in Q
  BY <1>1
<1> QED
  BY <1>2, GoodWithin, Zenon

\* recalculate_readiness gives the sender a batch within the rules and leaves
\* the other senders' batches alone.
LEMMA RecalculateBatches ==
  ASSUME TypeOK, NEW s \in Senders, NEW B \in SUBSET Infos, B # {}, IsFiniteSet(B),
         NEW b, GoodBatch(b, TxsOf(B)), NEW account, Recalculate(s, B, b, account)
  PROVE  /\ GoodBatch(packing_pool'[s], TxsOf(B))
         /\ \A x \in Senders : x # s => packing_pool'[x] = packing_pool[x]
<1>1. PICK r : r = Readiness(B, account.nonce, account.balance)
  BY Zenon
<1>2. packing_pool' = [packing_pool EXCEPT ![s] = RecalculateBatch(B, b, r)]
  BY <1>1, Zenon DEF Recalculate
<1>3. TxSet(TxsOf(B))
  BY BucketTxs, Zenon
<1>4. r.ready => r.first \in TxsOf(B) /\ r.last \in Nat
  BY <1>1, <1>3, ReadinessIs, Zenon
<1>5. GoodBatch(RecalculateBatch(B, b, r), TxsOf(B))
  BY <1>3, <1>4, RecalculateGood, Zenon
<1>6. DOMAIN packing_pool = Senders
  BY Zenon DEF TypeOK
<1> QED
  BY <1>2, <1>5, <1>6, Zenon

\* A replacement: the batch loses what is at or above the nonce before the
\* transaction there changes.
LEMMA ReplaceBatches ==
  ASSUME PoolInv, Batches, ReplaceTransaction
  PROVE  Batches'
<1> DEFINE s == Job.tx.sender
           old == CHOOSE i \in SameNonce(Job) : TRUE
           new == [tx |-> Job.tx, packed |-> Job.packed]
           B == (buckets[s] \ {old}) \cup {new}
           P == TxsOf(buckets[s])
           b == SplitOffSuffix(packing_pool[s], Job.tx.nonce)
<1>0. TypeOK
  BY Zenon DEF PoolInv
<1>1. ~Free /\ SameNonce(Job) # {}
  BY Zenon DEF ReplaceTransaction
<1>2. s \in Senders /\ new \in Infos /\ Job.tx \in Transactions
  BY <1>0, <1>1, JobFacts, Zenon
<1>3. CASE UNCHANGED pool
  BY <1>3, Zenon DEF Batches, pool
<1>4. CASE /\ buckets' = [buckets EXCEPT ![s] = B]
           /\ Recalculate(s, B, b, Job.account)
  <2>1. old.tx.nonce = Job.tx.nonce /\ Job.tx.nonce \in Nat
    BY <1>1, <1>2, PoolAssumption, Zenon DEF SameNonce, InfoAt
  <2>2. buckets[s] \in SUBSET Infos /\ IsFiniteSet(buckets[s])
    <3> HIDE DEF s
    <3> QED
      BY <1>0, <1>2, BucketFacts, Zenon DEF PoolInv
  <2>3. B \in SUBSET Infos /\ B # {} /\ IsFiniteSet(B)
    <3>1. IsFiniteSet(buckets[s] \ {old})
      <4> HIDE DEF old
      <4> QED
        BY <2>2, FS_RemoveElement, Zenon
    <3> HIDE DEF s, old, new
    <3>2. IsFiniteSet(B)
      BY <3>1, FS_AddElement, Zenon
    <3> QED
      BY <1>2, <2>2, <3>2, Zenon
  <2>4. GoodBatch(b, TxsOf(B))
    <3> DEFINE Q == {t \in P : t.nonce < Job.tx.nonce}
    <3>1. GoodBatch(packing_pool[s], P)
      BY <1>2, Zenon DEF Batches
    <3>2. TxSet(P)
      BY <2>2, BucketTxs, Zenon
    <3>3. Q \subseteq TxsOf(B)
      <4>1. ASSUME NEW i \in buckets[s], i.tx.nonce < Job.tx.nonce PROVE i \in B
        <5> HIDE DEF s, old, new
        <5>1. i = old => Job.tx.nonce < Job.tx.nonce
          BY <2>1, <4>1, Zenon
        <5>2. ~ (Job.tx.nonce < Job.tx.nonce)
          BY <2>1
        <5> QED
          BY <5>1, <5>2, Zenon
      <4> HIDE DEF B, s
      <4> QED
        BY <4>1, Zenon DEF TxsOf
    <3>4. GoodBatch(b, Q)
      <4> HIDE DEF P
      <4> QED
        BY <2>1, <3>1, <3>2, SuffixGood, Zenon
    <3> HIDE DEF Q, b, B
    <3> QED
      BY <3>3, <3>4, GoodMore, Zenon
  <2> HIDE DEF s, B, b
  <2>5. /\ GoodBatch(packing_pool'[s], TxsOf(B))
        /\ \A x \in Senders : x # s => packing_pool'[x] = packing_pool[x]
    BY <1>0, <1>2, <1>4, <2>3, <2>4, RecalculateBatches, Zenon
  <2>6. buckets'[s] = B /\ \A x \in Senders : x # s => buckets'[x] = buckets[x]
    BY <1>0, <1>2, <1>4, Zenon DEF TypeOK
  <2> QED
    BY <2>5, <2>6, Zenon DEF Batches
<1> QED
  BY <1>3, <1>4, Zenon DEF ReplaceTransaction

\* An insertion under a free nonce: the batch is of transactions that are all
\* still there.
LEMMA AddBatches ==
  ASSUME PoolInv, Batches, AddTransaction
  PROVE  Batches'
<1> DEFINE s == Job.tx.sender
           new == [tx |-> Job.tx, packed |-> Job.packed]
           B == buckets[s] \cup {new}
<1>0. TypeOK
  BY Zenon DEF PoolInv
<1>1. s \in Senders /\ new \in Infos
  BY <1>0, JobFacts, Zenon DEF AddTransaction
<1>2. CASE UNCHANGED <<buckets, packing_pool>>
  BY <1>2, Zenon DEF Batches
<1>3. CASE /\ buckets' = [buckets EXCEPT ![s] = B]
           /\ Recalculate(s, B, packing_pool[s], Job.account)
  <2>1. buckets[s] \in SUBSET Infos /\ IsFiniteSet(buckets[s])
    <3> HIDE DEF s
    <3> QED
      BY <1>0, <1>1, BucketFacts, Zenon DEF PoolInv
  <2>2. B \in SUBSET Infos /\ B # {}
    <3> HIDE DEF s, new
    <3> QED
      BY <1>1, <2>1, Zenon
  <2>3. IsFiniteSet(B)
    <3> HIDE DEF s, new
    <3> QED
      BY <2>1, FS_AddElement, Zenon
  <2>4. GoodBatch(packing_pool[s], TxsOf(B))
    <3>1. GoodBatch(packing_pool[s], TxsOf(buckets[s]))
      BY <1>1, Zenon DEF Batches
    <3>2. TxsOf(buckets[s]) \subseteq TxsOf(B)
      <4> HIDE DEF s, new
      <4> QED
        BY Zenon DEF TxsOf
    <3> HIDE DEF s, B
    <3> QED
      BY <3>1, <3>2, GoodMore, Zenon
  <2> HIDE DEF s, B
  <2>5. /\ GoodBatch(packing_pool'[s], TxsOf(B))
        /\ \A x \in Senders : x # s => packing_pool'[x] = packing_pool[x]
    BY <1>0, <1>1, <1>3, <2>2, <2>3, <2>4, RecalculateBatches, Zenon
  <2>6. buckets'[s] = B /\ \A x \in Senders : x # s => buckets'[x] = buckets[x]
    BY <1>0, <1>1, <1>3, Zenon DEF TypeOK
  <2> QED
    BY <2>5, <2>6, Zenon DEF Batches
<1> QED
  BY <1>2, <1>3, Zenon DEF AddTransaction

\* An eviction: the lowest transaction of the bucket leaves the batch with it.
LEMMA EvictBatches ==
  ASSUME PoolInv, Batches, NEW v \in Senders, Evict(v)
  PROVE  Batches'
<1> DEFINE gone == LowestInfo(buckets[v])
           B == buckets[v] \ {gone}
           b == IF B = {} THEN NoBatch ELSE SplitOffPrefix(packing_pool[v], gone.tx.nonce + 1)
<1>0. TypeOK
  BY Zenon DEF PoolInv
<1>1. CASE UNCHANGED <<buckets, packing_pool>>
  BY <1>1, Zenon DEF Batches
<1>2. CASE /\ buckets[v] # {}
           /\ buckets' = [buckets EXCEPT ![v] = B]
           /\ packing_pool' = [packing_pool EXCEPT ![v] = b]
  <2>1. buckets[v] \in SUBSET Infos
    BY <1>0, BucketFacts, Zenon DEF PoolInv
  <2>2. gone \in buckets[v] /\ gone.tx.nonce \in Nat
    <3>1. gone \in buckets[v]
      BY <1>2, <2>1, LowestInfoIs, Zenon
    <3> QED
      BY <2>1, <3>1, PoolAssumption, Zenon DEF Infos
  <2>3. B \in SUBSET Infos
    BY <2>1, Zenon
  <2>4. GoodBatch(b, TxsOf(B))
    <3>1. CASE B = {}
      <4>1. b = NoBatch
        BY <3>1, Zenon
      <4> HIDE DEF b, B
      <4> QED
        BY <2>3, <4>1, BucketTxs, NoBatchGood, Zenon
    <3>2. CASE B # {}
      <4> DEFINE P == TxsOf(buckets[v])
                 Q == {t \in P : t.nonce >= gone.tx.nonce + 1}
      <4>1. GoodBatch(packing_pool[v], P)
        BY Zenon DEF Batches
      <4>2. TxSet(P)
        BY <2>1, BucketTxs, Zenon
      <4>3. gone.tx.nonce + 1 \in Nat
        <5> HIDE DEF gone
        <5> QED
          BY <2>2
      <4>4. GoodBatch(SplitOffPrefix(packing_pool[v], gone.tx.nonce + 1), Q)
        <5> HIDE DEF P, gone
        <5> QED
          BY <4>1, <4>2, <4>3, RestGood, Zenon
      <4>5. Q \subseteq TxsOf(B)
        <5>1. ASSUME NEW i \in buckets[v], i.tx.nonce >= gone.tx.nonce + 1 PROVE i \in B
          <6> HIDE DEF gone
          <6>1. i # gone
            BY <2>2, <5>1
          <6> QED
            BY <6>1, Zenon
        <5> HIDE DEF B, gone
        <5> QED
          BY <5>1, Zenon DEF TxsOf
      <4>6. b = SplitOffPrefix(packing_pool[v], gone.tx.nonce + 1)
        <5> HIDE DEF B
        <5> QED
          BY <3>2, Zenon
      <4> HIDE DEF Q, b, B, gone
      <4> QED
        BY <4>4, <4>5, <4>6, GoodMore, Zenon
    <3> QED
      BY <3>1, <3>2, Zenon
  <2> HIDE DEF B, b
  <2>5. /\ buckets'[v] = B /\ packing_pool'[v] = b
        /\ \A x \in Senders : x # v => buckets'[x] = buckets[x] /\ packing_pool'[x] = packing_pool[x]
    BY <1>0, <1>2, Zenon DEF TypeOK
  <2> QED
    BY <2>4, <2>5, Zenon DEF Batches
<1> QED
  BY <1>1, <1>2, Zenon DEF Evict

\* The report of a modified account, and the miner's cut of a batch.
LEMMA NotifyAndDropBatches ==
  ASSUME PoolInv, Batches,
         \/ \E n \in notices : NotifyModifiedAccounts(n)
         \/ \E s \in Senders : \E i \in 1..Len(packing_pool[s].txs) : PackingSamplerDrops(s, i)
  PROVE  Batches'
<1>0. TypeOK
  BY Zenon DEF PoolInv
<1>1. ASSUME NEW n \in notices, NotifyModifiedAccounts(n) PROVE Batches'
  <2>1. PICK s \in Senders : s = n.sender
    BY <1>0, Zenon DEF TypeOK
  <2>2. UNCHANGED buckets /\ Recalculate(s, buckets[s], packing_pool[s], n.account)
    BY <1>1, <2>1, Zenon DEF NotifyModifiedAccounts
  <2>3. CASE buckets[s] = {}
    BY <2>2, <2>3, Zenon DEF Recalculate, Batches
  <2>4. CASE buckets[s] # {}
    <3>1. buckets[s] \in SUBSET Infos /\ IsFiniteSet(buckets[s])
      BY <1>0, BucketFacts, Zenon DEF PoolInv
    <3>2. GoodBatch(packing_pool[s], TxsOf(buckets[s]))
      BY Zenon DEF Batches
    <3>3. /\ GoodBatch(packing_pool'[s], TxsOf(buckets[s]))
          /\ \A x \in Senders : x # s => packing_pool'[x] = packing_pool[x]
      BY <1>0, <2>2, <2>4, <3>1, <3>2, RecalculateBatches, Zenon
    <3> QED
      BY <2>2, <3>3, Zenon DEF Batches
  <2> QED
    BY <2>3, <2>4, Zenon
<1>2. ASSUME NEW s \in Senders, NEW i \in 1..Len(packing_pool[s].txs), PackingSamplerDrops(s, i)
      PROVE  Batches'
  <2> DEFINE P == TxsOf(buckets[s])
             nonce == packing_pool[s].txs[i].nonce
             b == SplitOffSuffix(packing_pool[s], nonce)
             Q == {t \in P : t.nonce < nonce}
  <2>1. UNCHANGED buckets /\ packing_pool' = [packing_pool EXCEPT ![s] = b]
    BY <1>2, Zenon DEF PackingSamplerDrops
  <2>2. GoodBatch(packing_pool[s], P)
    BY Zenon DEF Batches
  <2>3. TxSet(P)
    <3>1. buckets[s] \in SUBSET Infos
      BY <1>0, Zenon DEF TypeOK
    <3> QED
      BY <3>1, BucketTxs, Zenon
  <2> HIDE DEF P
  <2>4. nonce \in Nat
    <3>1. packing_pool[s].txs \in Seq(P)
      BY <2>2, Zenon DEF GoodBatch
    <3>2. packing_pool[s].txs[i] \in P
      BY <3>1
    <3> QED
      BY <2>3, <3>2, Zenon DEF TxSet
  <2>5. Q \subseteq P
    BY Zenon
  <2> HIDE DEF nonce
  <2>6. GoodBatch(b, Q)
    BY <2>2, <2>3, <2>4, SuffixGood, Zenon
  <2> HIDE DEF Q, b
  <2>7. GoodBatch(b, P)
    BY <2>5, <2>6, GoodMore, Zenon
  <2>8. packing_pool'[s] = b /\ \A x \in Senders : x # s => packing_pool'[x] = packing_pool[x]
    BY <1>0, <2>1, Zenon DEF TypeOK
  <2> QED
    BY <2>1, <2>7, <2>8, Zenon DEF Batches, P
<1> QED
  BY <1>1, <1>2, Zenon

\* Every step of every party keeps the batches within their rules.
LEMMA BatchesNext ==
  ASSUME PoolInv, Batches, [Next]_vars PROVE Batches'
<1>1. CASE UNCHANGED <<buckets, packing_pool>>
  BY <1>1, Zenon DEF Batches
<1>2. CASE ClearTxPool
  <2>1. ASSUME NEW s \in Senders PROVE GoodBatch(packing_pool'[s], TxsOf(buckets'[s]))
    <3>1. packing_pool'[s] = NoBatch /\ TxSet(TxsOf(buckets'[s]))
      BY <1>2, Zenon DEF ClearTxPool, TxSet, TxsOf
    <3> QED
      BY <3>1, NoBatchGood, Zenon
  <2> QED
    BY <2>1, Zenon DEF Batches
<1>3. CASE UNCHANGED vars
  <2>1. UNCHANGED <<buckets, packing_pool>>
    BY <1>3, Zenon DEF vars, pool
  <2> QED
    BY <1>1, <2>1, Zenon
<1>4. ASSUME \/ \E tx \in Transactions :
                  Snapshot(tx) \/ SetTxPacked(tx) \/ RecycleTransactions(tx)
             \/ \E c \in callers : CallerLocks(c)
             \/ NotifyNewBestInfo \/ NotifierLocks \/ RefuseTransaction
             \/ \E v \in Senders : SkipSelf(v) \/ GiveUp(v)
             \/ \E s \in Senders, account \in Accounts : NotifyTxpool(s, account)
             \/ SetBestExecutedState
             \/ \E state \in executed : UpdateOnSkippedExecution(state)
      PROVE  UNCHANGED <<buckets, packing_pool>>
  BY <1>4, Zenon DEF Snapshot, SetTxPacked, RecycleTransactions, CallerLocks, NotifyNewBestInfo,
     NotifierLocks, RefuseTransaction, SkipSelf, GiveUp, NotifyTxpool, SetBestExecutedState,
     UpdateOnSkippedExecution, pool
<1> QED
  BY <1>1, <1>2, <1>3, <1>4, ReplaceBatches, AddBatches, EvictBatches, NotifyAndDropBatches, Zenon
     DEF Next

\* The batches stay within their rules in every reachable state.
LEMMA BatchesHold == Spec => []Batches
<1>1. Init => Batches
  <2> SUFFICES ASSUME Init, NEW s \in Senders PROVE GoodBatch(packing_pool[s], TxsOf(buckets[s]))
    BY Zenon DEF Batches
  <2>1. packing_pool[s] = NoBatch /\ TxSet(TxsOf(buckets[s]))
    BY Zenon DEF Init, TxSet, TxsOf
  <2> QED
    BY <2>1, NoBatchGood, Zenon
<1> QED
  BY <1>1, BatchesNext, PoolInvariantHolds, PTL DEF Spec

\* A batch is made of its sender's transactions in the nonce pool, though it
\* is cut, extended and made anew by the insertions, replacements, evictions,
\* reports of modified accounts and the miner's cuts in any order (PackingPool
\* and DeferredPool change it apart from the nonce pool).
THEOREM PackingWithinPoolHolds == Spec => []PackingWithinPool
<1>1. Batches => PackingWithinPool
  <2> SUFFICES ASSUME Batches, NEW s \in Senders, NEW i \in 1..Len(packing_pool[s].txs)
               PROVE  \E info \in buckets[s] : info.tx = packing_pool[s].txs[i]
    BY Zenon DEF PackingWithinPool
  <2>1. packing_pool[s].txs \in Seq(TxsOf(buckets[s]))
    BY Zenon DEF Batches, GoodBatch
  <2>2. packing_pool[s].txs[i] \in TxsOf(buckets[s])
    BY <2>1
  <2> QED
    BY <2>2, Zenon DEF TxsOf
<1> QED
  BY <1>1, BatchesHold, PTL

\* Continuous nonces, prices that do not decrease, an exact gas total and both
\* limits of an address, for every sequence of calls on a PackingBatch that
\* the pool makes (insert, split_off_suffix, split_off_prefix).
THEOREM BatchWellFormedHolds == Spec => []BatchWellFormed
<1>1. ASSUME TypeOK, Batches PROVE BatchWellFormed
  <2>1. ASSUME NEW s \in Senders
        PROVE  LET b == packing_pool[s]
                   n == Len(b.txs)
               IN  /\ \A i \in 1..(n - 1) :
                        /\ b.txs[i + 1].nonce = b.txs[i].nonce + 1
                        /\ b.txs[i].price <= b.txs[i + 1].price
                   /\ b.gas = GasOf(b.txs, n)
                   /\ n <= address_tx_count
                   /\ n > 1 => b.gas <= address_gas_limit
    <3>1. PICK P, b, n : P = TxsOf(buckets[s]) /\ b = packing_pool[s] /\ n = Len(b.txs)
      BY Zenon
    <3>2. GoodBatch(b, P)
      BY <1>1, <3>1, Zenon DEF Batches
    <3>3. TxSet(P)
      <4>1. buckets[s] \in SUBSET Infos
        BY <1>1, Zenon DEF TypeOK
      <4> QED
        BY <3>1, <4>1, BucketTxs, Zenon
    <3>4. b.txs \in Seq(P) /\ n \in Nat
      BY <3>1, <3>2, SMTT(20) DEF GoodBatch
    <3>5. ASSUME NEW i \in 1..(n - 1)
          PROVE  b.txs[i + 1].nonce = b.txs[i].nonce + 1 /\ b.txs[i].price <= b.txs[i + 1].price
      <4>1. i \in Nat /\ i \in 1..n /\ i + 1 \in 1..n /\ 1 \in 1..n
        BY <3>4
      <4>2. b.txs[1].nonce \in Nat
        BY <3>1, <3>3, <3>4, <4>1 DEF TxSet
      <4>3. /\ b.txs[i].nonce = b.txs[1].nonce + (i - 1)
            /\ b.txs[i + 1].nonce = b.txs[1].nonce + ((i + 1) - 1)
        BY <3>1, <3>2, <4>1, Zenon DEF GoodBatch, Ordered
      <4>4. b.txs[i].price <= b.txs[i + 1].price
        BY <3>1, <3>2, Zenon DEF GoodBatch, Ordered
      <4> QED
        BY <4>1, <4>2, <4>3, <4>4, SMTT(20)
    <3>6. /\ b.gas = GasOf(b.txs, n) /\ n <= address_tx_count
          /\ n > 1 => b.gas <= address_gas_limit
      BY <3>1, <3>2, Zenon DEF GoodBatch, WithinLimits
    <3> QED
      BY <3>1, <3>5, <3>6, Zenon
  <2> QED
    BY <2>1, Zenon DEF BatchWellFormed
<1>2. PoolInv => TypeOK
  BY Zenon DEF PoolInv
<1> QED
  BY <1>1, <1>2, PoolInvariantHolds, BatchesHold, PTL
=============================================================================
