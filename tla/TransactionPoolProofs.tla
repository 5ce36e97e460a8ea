------------------------ MODULE TransactionPoolProofs ------------------------
(***************************************************************************)
(* The transaction pool keeps its indexes, its counters and its garbage     *)
(* collector consistent, and evicts only for cause, for any senders,        *)
(* transactions, accounts, capacity and number of callers and epochs.       *)
(***************************************************************************)
EXTENDS TransactionPool, FiniteSetTheorems, SequenceTheorems, WellFoundedInduction, TLAPS

\* A non-empty set of naturals has a least element.
LEMMA LowestExists ==
  ASSUME NEW S \in SUBSET Nat, S # {}
  PROVE  \E n \in S : \A m \in S : n <= m
<1> DEFINE R == {p \in Nat \X Nat : p[1] < p[2]}
<1>1. IsWellFoundedOn(R, Nat)
  BY NatLessThanWellFounded, Zenon DEF OpToRel
<1>2. \E n \in S : \A m \in S : ~ (<<m, n>> \in R)
  <2> HIDE DEF R
  <2> QED BY <1>1, WFMin, Zenon
<1>3. PICK n \in S : \A m \in S : ~ (<<m, n>> \in R)
  BY <1>2, Zenon
<1>4. ASSUME NEW m \in S PROVE n <= m
  <2>1. m \in Nat /\ n \in Nat BY Zenon
  <2>2. ~(m < n) BY <1>3, <2>1, Zenon
  <2> QED BY <2>1, <2>2
<1> QED
  BY <1>4, Zenon

\* What a batch is made of: nonces, prices and gas limits are numbers.
TxSet(P) == \A t \in P : t.nonce \in Nat /\ t.price \in Nat /\ t.gas \in Nat

\* The transactions of a nonce pool.
TxsOf(B) == {i.tx : i \in B}

\* The lowest transaction of a nonce pool is one of its transactions.
LEMMA LowestIs ==
  ASSUME NEW B, TxSet(TxsOf(B)), B # {}
  PROVE  /\ LowestInfo(B) \in B
         /\ \A i \in B : LowestInfo(B).tx.nonce <= i.tx.nonce
<1> DEFINE S == {i.tx.nonce : i \in B}
<1>1. S \in SUBSET Nat BY Zenon DEF TxSet, TxsOf
<1>2. S # {} BY Zenon
<1>3. PICK n \in S : \A m \in S : n <= m
  <2> HIDE DEF S
  <2> QED BY <1>1, <1>2, LowestExists, Zenon
<1>4. PICK i \in B : i.tx.nonce = n BY <1>3, Zenon
<1>5. \A k \in B : i.tx.nonce <= k.tx.nonce BY <1>3, <1>4, Zenon
<1> QED BY <1>4, <1>5, Zenon DEF LowestInfo

-----------------------------------------------------------------------------
(* What a node says of an account is true.                                  *)
NodeTrue(s, node) ==
  /\ node.count = CountLess(buckets[s], ready_nonces_and_balances[s].nonce)
  /\ node.price = LowestInfo(buckets[s]).tx.price
  /\ packing_pool[s] # NoBatch => node.ready

(* The node set aside during a collection is the new transaction's sender's *)
(* and stays true: the collection cannot reach that account any more.       *)
SkippedTrue ==
  /\ \A k, l \in skipped : k = l
  /\ \A k \in skipped :
       /\ ~Free
       /\ k.sender = Job.tx.sender
       /\ k.sender \notin DOMAIN garbage_collector
       /\ buckets[k.sender] # {}
       /\ NodeTrue(k.sender, k.node)

(* The inductive invariant.                                                 *)
PoolInv ==
  /\ TypeOK
  /\ IsFiniteSet(Deferred)
  /\ IndexesAgree
  /\ UnpackedCounted
  /\ WithinCapacity
  /\ GcDescribesAccount
  /\ SkippedTrue

\* The lowest transaction of a non-empty bucket, which get_lowest_nonce_tx and
\* remove_lowest_nonce rely on, is one of its transactions.
LEMMA LowestInfoIs ==
  ASSUME NEW B \in SUBSET Infos, B # {}
  PROVE  /\ LowestInfo(B) \in B
         /\ \A i \in B : LowestInfo(B).tx.nonce <= i.tx.nonce
<1>1. TxSet(TxsOf(B))
  BY PoolAssumption, Zenon DEF Infos, TxSet, TxsOf
<1> QED
  BY <1>1, LowestIs, Zenon

\* The number of executed transactions of a bucket after its lowest one is
\* evicted is the one collect_garbage computes from the old node.
LEMMA EvictCount ==
  ASSUME NEW B \in SUBSET Infos, B # {}, IsFiniteSet(B), NEW n \in Nat
  PROVE  /\ CountLess(B, n) \in Nat
         /\ LowestInfo(B).tx.nonce >= n => CountLess(B, n) = 0
         /\ CountLess(B \ {LowestInfo(B)}, n) =
              IF CountLess(B, n) > 0 THEN CountLess(B, n) - 1 ELSE 0
<1> DEFINE g == LowestInfo(B)
           L == {i \in B : i.tx.nonce < n}
           M == {i \in B \ {g} : i.tx.nonce < n}
<1>1. g \in B /\ \A i \in B : g.tx.nonce <= i.tx.nonce
  BY LowestInfoIs, Zenon
<1>2. \A i \in B : i.tx.nonce \in Nat BY PoolAssumption, Zenon DEF Infos
<1>3. IsFiniteSet(L) /\ Cardinality(L) \in Nat
  BY FS_Subset, FS_CardinalityType, Zenon
<1>4. CountLess(B, n) = Cardinality(L) /\ CountLess(B \ {g}, n) = Cardinality(M)
  BY Zenon DEF CountLess
<1>5. CASE L = {}
  <2>1. M = {} BY <1>5, Zenon
  <2>2. Cardinality(L) = 0 /\ Cardinality(M) = 0 BY <1>5, <2>1, FS_EmptySet, Zenon
  <2> QED BY <1>4, <2>2
<1>6. CASE L # {}
  <2>1. g \in L
    <3> HIDE DEF g
    <3> QED BY <1>1, <1>2, <1>6
  <2>2. M = L \ {g} BY Zenon
  <2>3. Cardinality(M) = Cardinality(L) - 1
    <3> HIDE DEF L, M, g
    <3> QED BY <1>3, <2>1, <2>2, FS_RemoveElement, Zenon
  <2>4. Cardinality(L) > 0
    <3> HIDE DEF L
    <3> QED BY <1>3, <1>6, FS_EmptySet
  <2>5. ~ (g.tx.nonce >= n)
    <3> HIDE DEF g
    <3> QED BY <1>1, <1>2, <2>1
  <2> QED BY <1>3, <1>4, <2>3, <2>4, <2>5, Zenon
<1> QED BY <1>5, <1>6, Zenon

\* A bucket's part of the pool.
LEMMA BucketFacts ==
  ASSUME TypeOK, IsFiniteSet(Deferred), NEW s \in Senders
  PROVE  /\ buckets[s] \in SUBSET Infos
         /\ buckets[s] \subseteq Deferred
         /\ IsFiniteSet(buckets[s])
<1>1. buckets[s] \in SUBSET Infos BY Zenon DEF TypeOK
<1>2. buckets[s] \subseteq Deferred BY Zenon DEF Deferred
<1> QED BY <1>1, <1>2, FS_Subset, Zenon

\* Changing one sender's bucket changes only that part of the pool.
LEMMA OneBucketChanges ==
  ASSUME TypeOK, IndexesAgree, NEW s \in Senders, NEW B,
         \A i \in B : i.tx.sender = s,
         buckets' = [buckets EXCEPT ![s] = B]
  PROVE  /\ Deferred' = (Deferred \ buckets[s]) \cup B
         /\ buckets'[s] = B
         /\ \A r \in Senders : r # s => buckets'[r] = buckets[r]
<1>1. /\ buckets'[s] = B
      /\ \A r \in Senders : r # s => buckets'[r] = buckets[r]
  BY Zenon DEF TypeOK
<1>2. ASSUME NEW i PROVE i \in Deferred' <=> i \in (Deferred \ buckets[s]) \cup B
  <2>1. i \in Deferred' <=> \E r \in Senders : i \in buckets'[r] BY Zenon DEF Deferred
  <2>2. i \in Deferred <=> \E r \in Senders : i \in buckets[r] BY Zenon DEF Deferred
  <2>3. \A r \in Senders : i \in buckets[r] => i.tx.sender = r BY Zenon DEF IndexesAgree
  <2> QED BY <1>1, <2>1, <2>2, <2>3, Zenon
<1> QED BY <1>1, <1>2, Zenon

\* recalculate_readiness leaves a true node behind, whatever was there before:
\* the account it is given, the batch and the node are replaced together.
LEMMA RecalculateTrue ==
  ASSUME TypeOK, GcDescribesAccount, IsFiniteSet(Deferred'),
         NEW s \in Senders, NEW batch, NEW account \in Accounts,
         buckets' \in [Senders -> SUBSET Infos],
         buckets'[s] # {},
         \A r \in Senders : r # s => buckets'[r] = buckets[r],
         Recalculate(s, buckets'[s], batch, account)
  PROVE  /\ GcDescribesAccount'
         /\ ready_nonces_and_balances' \in [DOMAIN ready_nonces_and_balances' -> Accounts]
         /\ garbage_collector' \in [DOMAIN garbage_collector' -> Nodes]
         /\ DOMAIN packing_pool' = Senders
<1> DEFINE B == buckets'[s]
           r == Readiness(B, account.nonce, account.balance)
           node == NodeOf(B, account.nonce, r.ready)
<1>1. /\ ready_nonces_and_balances' = Put(ready_nonces_and_balances, s, account)
      /\ packing_pool' = [packing_pool EXCEPT ![s] = RecalculateBatch(B, batch, r)]
      /\ garbage_collector' = Put(garbage_collector, s, node)
  BY Zenon DEF Recalculate
<1>2. r.ready \in BOOLEAN BY Zenon DEF Readiness, NotReady
<1>3. r.ready = FALSE => RecalculateBatch(B, batch, r) = NoBatch
  BY Zenon DEF RecalculateBatch
<1>4. B \in SUBSET Infos /\ B # {} /\ IsFiniteSet(B)
  <2>1. B \subseteq Deferred' BY Zenon DEF Deferred
  <2> QED BY <2>1, FS_Subset, Zenon
<1>5. account.nonce \in Nat BY PoolAssumption, Zenon
<1>6. node \in Nodes
  <2>1. CountLess(B, account.nonce) \in Nat BY <1>4, <1>5, EvictCount, Zenon
  <2>2. LowestInfo(B) \in Infos BY <1>4, LowestInfoIs, Zenon
  <2>3. LowestInfo(B).tx.price \in Nat BY <2>2, PoolAssumption, Zenon DEF Infos
  <2> QED BY <1>2, <2>1, <2>3, Zenon DEF NodeOf, Nodes
<1> HIDE DEF r
<1>7. /\ ready_nonces_and_balances' \in [DOMAIN ready_nonces_and_balances' -> Accounts]
      /\ DOMAIN ready_nonces_and_balances' = DOMAIN ready_nonces_and_balances \cup {s}
      /\ ready_nonces_and_balances'[s] = account
      /\ \A x \in DOMAIN ready_nonces_and_balances :
           x # s => ready_nonces_and_balances'[x] = ready_nonces_and_balances[x]
  BY <1>1, Zenon DEF Put, TypeOK
<1>8. /\ garbage_collector' \in [DOMAIN garbage_collector' -> Nodes]
      /\ DOMAIN garbage_collector' = DOMAIN garbage_collector \cup {s}
      /\ garbage_collector'[s] = node
      /\ \A x \in DOMAIN garbage_collector :
           x # s => garbage_collector'[x] = garbage_collector[x]
  <2> HIDE DEF node
  <2> QED BY <1>1, <1>6, Zenon DEF Put, TypeOK
<1>9. /\ DOMAIN packing_pool' = Senders
      /\ packing_pool'[s] = RecalculateBatch(B, batch, r)
      /\ \A x \in Senders : x # s => packing_pool'[x] = packing_pool[x]
  BY <1>1, Zenon DEF TypeOK
<1>10. DOMAIN ready_nonces_and_balances' = {x \in Senders : buckets'[x] # {}}
  BY <1>7, Zenon DEF GcDescribesAccount
<1>11. ASSUME NEW x \in DOMAIN garbage_collector'
       PROVE  LET n == garbage_collector'[x]
              IN  /\ x \in DOMAIN ready_nonces_and_balances'
                  /\ n.count = CountLess(buckets'[x], ready_nonces_and_balances'[x].nonce)
                  /\ n.price = LowestInfo(buckets'[x]).tx.price
                  /\ packing_pool'[x] # NoBatch => n.ready
  <2>1. CASE x = s
    <3>1. packing_pool'[s] # NoBatch => node.ready
      BY <1>2, <1>3, <1>9, Zenon DEF NodeOf
    <3> QED BY <2>1, <3>1, <1>7, <1>8 DEF NodeOf
  <2>2. CASE x # s
    <3>1. x \in DOMAIN garbage_collector BY <2>2, <1>8, Zenon
    <3>2. x \in DOMAIN ready_nonces_and_balances /\ x \in Senders
      BY <3>1, Zenon DEF GcDescribesAccount
    <3> QED BY <2>2, <3>1, <3>2, <1>7, <1>8, <1>9, Zenon DEF GcDescribesAccount
  <2> QED BY <2>1, <2>2, Zenon
<1> QED BY <1>7, <1>8, <1>9, <1>10, <1>11, Zenon DEF GcDescribesAccount
-----------------------------------------------------------------------------
\* The insertion under way, and what ending it does to the lock.
LEMMA JobFacts ==
  ASSUME TypeOK, ~Free
  PROVE  /\ Job \in Jobs
         /\ Job.tx \in Transactions
         /\ Job.tx.sender \in Senders
         /\ Job.account \in Accounts
         /\ [tx |-> Job.tx, packed |-> Job.packed] \in Infos
         /\ NextJob => /\ jobs' \in Seq(Jobs)
                       /\ owner' \in {"none", "caller", "notifier"}
                       /\ Free' <=> jobs' = <<>>
                       /\ skipped' = {}
<1>1. jobs \in Seq(Jobs) /\ jobs # <<>> /\ owner \in {"caller", "notifier"}
  BY Zenon DEF TypeOK, Free
<1>2. Job \in Jobs BY <1>1 DEF Job
<1>3. /\ Tail(jobs) \in Seq(Jobs)
      /\ Len(jobs) = 1 <=> Tail(jobs) = <<>>
  <2>1. Tail(jobs) \in Seq(Jobs) /\ Len(Tail(jobs)) = Len(jobs) - 1 /\ Len(jobs) \in Nat
    BY <1>1, HeadTailProperties, LenProperties, Zenon
  <2>2. Tail(jobs) = <<>> <=> Len(Tail(jobs)) = 0
    BY <2>1, EmptySeq, Zenon
  <2> QED BY <2>1, <2>2
<1>4. NextJob => /\ jobs' \in Seq(Jobs)
                 /\ owner' \in {"none", "caller", "notifier"}
                 /\ Free' <=> jobs' = <<>>
                 /\ skipped' = {}
  BY <1>1, <1>3, Zenon DEF NextJob, Free
<1> QED BY <1>2, <1>4, PoolAssumption, Zenon DEF Jobs, Infos

\* The steps that leave the pool alone keep what is said of it.
LEMMA PoolUnchanged ==
  ASSUME PoolInv, UNCHANGED pool
  PROVE  /\ IsFiniteSet(Deferred')
         /\ IndexesAgree' /\ UnpackedCounted' /\ WithinCapacity' /\ GcDescribesAccount'
         /\ UNCHANGED <<owner, jobs, skipped>> => SkippedTrue'
         /\ skipped' = {} => SkippedTrue'
         /\ Free /\ UNCHANGED skipped => SkippedTrue'
<1>1. Deferred' = Deferred BY Zenon DEF pool, Deferred
<1>2. /\ IndexesAgree' /\ UnpackedCounted' /\ WithinCapacity'
      /\ IsFiniteSet(Deferred')
  BY <1>1, Zenon DEF PoolInv, pool, IndexesAgree, UnpackedCounted, WithinCapacity
<1>3. GcDescribesAccount' BY Zenon DEF PoolInv, pool, GcDescribesAccount
<1>4. UNCHANGED <<owner, jobs, skipped>> => SkippedTrue'
  BY Zenon DEF PoolInv, pool, SkippedTrue, NodeTrue, Free, Job
<1>5. skipped' = {} => SkippedTrue' BY Zenon DEF SkippedTrue
<1>6. Free => skipped = {} BY Zenon DEF PoolInv, SkippedTrue
<1> QED BY <1>2, <1>3, <1>4, <1>5, <1>6, Zenon

\* The steps outside the lock, and the ones that only take or release it.
LEMMA OutsideKeeps ==
  ASSUME PoolInv,
         \/ \E tx \in Transactions :
              Snapshot(tx) \/ SetTxPacked(tx) \/ RecycleTransactions(tx)
         \/ \E c \in callers : CallerLocks(c)
         \/ NotifyNewBestInfo
         \/ NotifierLocks
         \/ RefuseTransaction
         \/ \E v \in Senders : GiveUp(v)
         \/ \E s \in Senders, account \in Accounts : NotifyTxpool(s, account)
         \/ SetBestExecutedState
         \/ \E state \in executed : UpdateOnSkippedExecution(state)
  PROVE  PoolInv'
<1> USE DEF Event
<1>0. TypeOK BY Zenon DEF PoolInv
<1>1. ASSUME NEW tx \in Transactions, Snapshot(tx) PROVE PoolInv'
  <2>1. [tx |-> tx, packed |-> FALSE, force |-> FALSE,
         account |-> best_executed_state[tx.sender]] \in Jobs
    BY <1>0, PoolAssumption, Zenon DEF TypeOK, Jobs
  <2>2. callers' \in SUBSET Jobs BY <1>0, <1>1, <2>1, Zenon DEF TypeOK, Snapshot
  <2>3. /\ UNCHANGED <<pool, chain, requests, owner, jobs, skipped>>
        /\ events' = events + 1
    BY <1>1, Zenon DEF Snapshot
  <2>4. TypeOK' BY <1>0, <2>2, <2>3 DEF TypeOK, pool, chain, requests, Free
  <2> QED BY <1>1, <2>4, PoolUnchanged, Zenon DEF PoolInv, Snapshot
<1>2. ASSUME NEW tx \in Transactions, SetTxPacked(tx) PROVE PoolInv'
  <2>1. TypeOK' BY <1>0, <1>2 DEF TypeOK, SetTxPacked, pool, chain, Free
  <2> QED BY <1>2, <2>1, PoolUnchanged, Zenon DEF PoolInv, SetTxPacked
<1>3. ASSUME NEW tx \in Transactions, RecycleTransactions(tx) PROVE PoolInv'
  <2>1. TypeOK' BY <1>0, <1>3 DEF TypeOK, RecycleTransactions, pool, chain, Free
  <2> QED BY <1>3, <2>1, PoolUnchanged, Zenon DEF PoolInv, RecycleTransactions
<1>4. ASSUME NEW c \in callers, CallerLocks(c) PROVE PoolInv'
  <2>1. /\ owner' \in {"none", "caller", "notifier"}
        /\ jobs' \in Seq(Jobs)
        /\ Free' <=> jobs' = <<>>
    <3>1. CASE c.tx \in txs
      BY <1>0, <1>4, <3>1, Zenon DEF TypeOK, CallerLocks, Free
    <3>2. CASE c.tx \notin txs
      <4>1. c \in Jobs /\ jobs' = <<c>> /\ owner' = "caller"
        BY <1>0, <1>4, <3>2, Zenon DEF TypeOK, CallerLocks
      <4> QED BY <4>1 DEF Free
    <3> QED BY <3>1, <3>2, Zenon
  <2>2. /\ UNCHANGED <<pool, chain, requests, skipped, events>>
        /\ callers' \subseteq callers
    BY <1>4, Zenon DEF CallerLocks
  <2>3. TypeOK' BY <1>0, <2>1, <2>2, Zenon DEF TypeOK, pool, chain, requests
  <2> QED BY <1>4, <2>3, PoolUnchanged, Zenon DEF PoolInv, CallerLocks
<1>5. ASSUME NotifyNewBestInfo PROVE PoolInv'
  <2>1. ASSUME NEW buffer \in Seq(Transactions), NEW packed \in BOOLEAN
        PROVE  JobsOf(buffer, packed) \in Seq(Jobs)
    <3> DEFINE tx(i) == buffer[Len(buffer) + 1 - i]
               job(i) == [tx |-> tx(i), packed |-> packed, force |-> ~packed,
                          account |-> best_executed_state[tx(i).sender]]
    <3>1. ASSUME NEW i \in 1..Len(buffer) PROVE job(i) \in Jobs
      <4>1. Len(buffer) + 1 - i \in 1..Len(buffer) OBVIOUS
      <4>2. tx(i) \in Transactions BY <4>1
      <4>3. best_executed_state[tx(i).sender] \in Accounts
        BY <1>0, <4>2, PoolAssumption, Zenon DEF TypeOK
      <4>4. (~packed) \in BOOLEAN BY Zenon
      <4> HIDE DEF tx
      <4> QED BY <4>2, <4>3, <4>4, Zenon DEF Jobs
    <3>2. Len(buffer) \in Nat OBVIOUS
    <3>3. JobsOf(buffer, packed) = [i \in 1..Len(buffer) |-> job(i)] BY Zenon DEF JobsOf
    <3> HIDE DEF job
    <3>4. [i \in 1..Len(buffer) |-> job(i)] \in Seq(Jobs) BY <3>1, <3>2
    <3> QED BY <3>3, <3>4, Zenon
  <2>2. notifier' \in Seq(Jobs)
    <3>1. JobsOf(set_tx_requests, TRUE) \in Seq(Jobs) /\ JobsOf(recycle_tx_requests, FALSE) \in Seq(Jobs)
      BY <1>0, <2>1, Zenon DEF TypeOK
    <3>2. JobsOf(set_tx_requests, TRUE) \o JobsOf(recycle_tx_requests, FALSE) \in Seq(Jobs)
      BY <3>1, ConcatProperties, Zenon
    <3> QED BY <1>5, <3>2, Zenon DEF NotifyNewBestInfo
  <2>3. /\ UNCHANGED <<pool, chain, callers, owner, jobs, skipped, events>>
        /\ set_tx_requests' = <<>> /\ recycle_tx_requests' = <<>>
    BY <1>5, Zenon DEF NotifyNewBestInfo
  <2>4. TypeOK' BY <1>0, <2>2, <2>3 DEF TypeOK, pool, chain, Free
  <2> QED BY <1>5, <2>4, PoolUnchanged, Zenon DEF PoolInv, NotifyNewBestInfo
<1>6. ASSUME NotifierLocks PROVE PoolInv'
  <2>1. TypeOK' BY <1>0, <1>6, Zenon DEF TypeOK, NotifierLocks, pool, chain, Free
  <2> QED BY <1>6, <2>1, PoolUnchanged, Zenon DEF PoolInv, NotifierLocks
<1>7. ASSUME RefuseTransaction PROVE PoolInv'
  <2>1. TypeOK' BY <1>0, <1>7, JobFacts, Zenon DEF TypeOK, RefuseTransaction, pool, chain, requests
  <2> QED BY <1>0, <1>7, <2>1, JobFacts, PoolUnchanged, Zenon DEF PoolInv, RefuseTransaction
<1>8. ASSUME NEW v \in Senders, GiveUp(v) PROVE PoolInv'
  <2>0. ~Free BY <1>8, Zenon DEF GiveUp, Collecting
  <2>1. TypeOK' BY <1>0, <1>8, <2>0, JobFacts, Zenon DEF TypeOK, GiveUp, pool, chain, requests
  <2> QED BY <1>0, <1>8, <2>0, <2>1, JobFacts, PoolUnchanged, Zenon DEF PoolInv, GiveUp
<1>9. ASSUME NEW s \in Senders, NEW account \in Accounts, NotifyTxpool(s, account)
      PROVE  PoolInv'
  <2> DEFINE state == [best_executed_state EXCEPT ![s] = account]
             notice == [sender |-> s, account |-> account, epoch |-> events]
  <2>1. /\ state \in [Senders -> Accounts]
        /\ notice \in [sender : Senders, account : Accounts, epoch : Nat]
    BY <1>0, Zenon DEF TypeOK
  <2>2. /\ executor' = <<state>> /\ executed' = executed \cup {state}
        /\ notices' = notices \cup {notice}
    BY <1>9, Zenon DEF NotifyTxpool
  <2> HIDE DEF state, notice
  <2>3. /\ executed' \in SUBSET [Senders -> Accounts] /\ executor' \in Seq(executed')
        /\ notices' \in SUBSET [sender : Senders, account : Accounts, epoch : Nat]
    BY <1>0, <2>1, <2>2 DEF TypeOK
  <2>4. /\ events' = events + 1
        /\ UNCHANGED <<pool, best_executed_state, requests, callers, owner, jobs, skipped>>
    BY <1>9, Zenon DEF NotifyTxpool
  <2>5. TypeOK' BY <1>0, <2>3, <2>4 DEF TypeOK, pool, requests, Free
  <2> QED BY <1>9, <2>5, PoolUnchanged, Zenon DEF PoolInv, NotifyTxpool
<1>10. ASSUME SetBestExecutedState PROVE PoolInv'
  <2>1. TypeOK' BY <1>0, <1>10 DEF TypeOK, SetBestExecutedState, pool, requests, Free
  <2> QED BY <1>10, <2>1, PoolUnchanged, Zenon DEF PoolInv, SetBestExecutedState
<1>11. ASSUME NEW state \in executed, UpdateOnSkippedExecution(state) PROVE PoolInv'
  <2>1. TypeOK' BY <1>0, <1>11 DEF TypeOK, UpdateOnSkippedExecution, pool, requests, Free
  <2> QED BY <1>11, <2>1, PoolUnchanged, Zenon DEF PoolInv, UpdateOnSkippedExecution
<1> QED BY <1>1, <1>2, <1>3, <1>4, <1>5, <1>6, <1>7, <1>8, <1>9, <1>10, <1>11, Zenon
-----------------------------------------------------------------------------
(* The types of the pool proper.                                            *)
PoolTypes ==
  /\ buckets \in [Senders -> SUBSET Infos]
  /\ DOMAIN packing_pool = Senders
  /\ ready_nonces_and_balances \in [DOMAIN ready_nonces_and_balances -> Accounts]
  /\ garbage_collector \in [DOMAIN garbage_collector -> Nodes]
  /\ txs \in SUBSET Transactions
  /\ unpacked_transaction_count \in Nat

(* The types of the lock.                                                   *)
LockTypes ==
  /\ owner \in {"none", "caller", "notifier"}
  /\ jobs \in Seq(Jobs)
  /\ Free <=> jobs = <<>>
  /\ skipped \in SUBSET [sender : Senders, node : Nodes]

\* TypeOK by its parts.
LEMMA TypesHaveParts ==
  ASSUME TypeOK PROVE PoolTypes /\ LockTypes
BY Zenon DEF TypeOK, PoolTypes, LockTypes

\* TypeOK again, after a step that changes nothing outside the lock.
LEMMA TypesByParts ==
  ASSUME TypeOK, PoolTypes', LockTypes', UNCHANGED <<chain, requests, callers>>,
         events' \in Nat
  PROVE  TypeOK'
BY Zenon DEF TypeOK, PoolTypes, LockTypes, chain, requests

\* Clearing the pool, and the miner's cut of a batch.
LEMMA ClearAndDropKeep ==
  ASSUME PoolInv,
         \/ ClearTxPool
         \/ \E s \in Senders : \E i \in 1..Len(packing_pool[s].txs) : PackingSamplerDrops(s, i)
  PROVE  PoolInv'
<1>0. TypeOK /\ PoolTypes /\ LockTypes BY TypesHaveParts, Zenon DEF PoolInv
<1>1. ASSUME ClearTxPool PROVE PoolInv'
  <2>1. /\ buckets' = [s \in Senders |-> {}] /\ packing_pool' = [s \in Senders |-> NoBatch]
        /\ ready_nonces_and_balances' = NoEntries /\ garbage_collector' = NoEntries
        /\ txs' = {} /\ unpacked_transaction_count' = 0
        /\ UNCHANGED <<chain, requests, callers, owner, jobs, skipped>>
        /\ events' = events + 1 /\ Free
    BY <1>1, Zenon DEF ClearTxPool, Event
  <2>2. DOMAIN ready_nonces_and_balances' = {} /\ DOMAIN garbage_collector' = {}
    BY <2>1, Zenon DEF NoEntries
  <2>3. PoolTypes' BY <2>1, <2>2, Zenon DEF PoolTypes, NoEntries
  <2>4. LockTypes' BY <1>0, <2>1, Zenon DEF LockTypes, Free
  <2>5. TypeOK'
    <3>1. events' \in Nat BY <1>0, <2>1 DEF TypeOK
    <3> QED BY <1>0, <2>1, <2>3, <2>4, <3>1, TypesByParts, Zenon
  <2>6. Deferred' = {} BY <2>1, Zenon DEF Deferred
  <2>7. IsFiniteSet(Deferred') /\ Cardinality(Deferred') = 0 BY <2>6, FS_EmptySet, Zenon
  <2>8. IndexesAgree' BY <2>1, <2>6, Zenon DEF IndexesAgree
  <2>9. {j \in Deferred' : ~j.packed} = {} BY <2>6, Zenon
  <2>10. UnpackedCounted'
    <3>1. Cardinality({j \in Deferred' : ~j.packed}) = 0 BY <2>9, FS_EmptySet, Zenon
    <3> QED BY <2>1, <3>1, Zenon DEF UnpackedCounted
  <2>11. WithinCapacity' BY <2>7, PoolAssumption DEF WithinCapacity
  <2>12. GcDescribesAccount' BY <2>1, <2>2, Zenon DEF GcDescribesAccount
  <2>13. skipped' = {} BY <2>1, Zenon DEF PoolInv, SkippedTrue
  <2>14. SkippedTrue' BY <2>13, Zenon DEF SkippedTrue
  <2> QED BY <2>5, <2>7, <2>8, <2>10, <2>11, <2>12, <2>14, Zenon DEF PoolInv
<1>2. ASSUME NEW s \in Senders, NEW i \in 1..Len(packing_pool[s].txs), PackingSamplerDrops(s, i)
      PROVE  PoolInv'
  <2>1. /\ UNCHANGED <<buckets, ready_nonces_and_balances, garbage_collector, txs,
                       unpacked_transaction_count, chain, requests, callers, owner,
                       jobs, skipped, events>>
        /\ Free
    BY <1>2, Zenon DEF PackingSamplerDrops
  <2>2. /\ DOMAIN packing_pool' = Senders
        /\ \A r \in Senders : packing_pool'[r] # NoBatch => packing_pool[r] # NoBatch
    BY <1>0, <1>2, Zenon DEF PackingSamplerDrops, SplitOffSuffix, PoolTypes
  <2>3. TypeOK'
    <3>1. PoolTypes' BY <1>0, <2>1, <2>2, Zenon DEF PoolTypes
    <3>2. LockTypes' BY <1>0, <2>1, Zenon DEF LockTypes, Free
    <3>3. events' \in Nat BY <1>0, <2>1, Zenon DEF TypeOK
    <3> QED BY <1>0, <2>1, <3>1, <3>2, <3>3, TypesByParts, Zenon
  <2>4. Deferred' = Deferred BY <2>1, Zenon DEF Deferred
  <2>5. /\ IndexesAgree' /\ UnpackedCounted' /\ WithinCapacity' /\ IsFiniteSet(Deferred')
    BY <2>1, <2>4, Zenon DEF PoolInv, IndexesAgree, UnpackedCounted, WithinCapacity
  <2>6. GcDescribesAccount' BY <2>1, <2>2, Zenon DEF PoolInv, GcDescribesAccount
  <2>7. SkippedTrue' BY <2>1 DEF PoolInv, SkippedTrue
  <2> QED BY <2>3, <2>5, <2>6, <2>7, Zenon DEF PoolInv
<1> QED BY <1>1, <1>2, Zenon

\* A late or early report of an account only replaces the cached account
\* together with what is computed from it.
LEMMA NotifyKeeps ==
  ASSUME PoolInv, NEW n \in notices, NotifyModifiedAccounts(n)
  PROVE  PoolInv'
<1>0. TypeOK /\ PoolTypes /\ LockTypes BY TypesHaveParts, Zenon DEF PoolInv
<1>1. n.sender \in Senders /\ n.account \in Accounts BY <1>0, Zenon DEF TypeOK
<1>2. /\ UNCHANGED <<buckets, txs, unpacked_transaction_count, best_executed_state, executed,
                     executor, requests, callers, owner, jobs, skipped, events>>
      /\ notices' \subseteq notices
      /\ Free
      /\ Recalculate(n.sender, buckets'[n.sender], packing_pool[n.sender], n.account)
  BY Zenon DEF NotifyModifiedAccounts
<1>3. Deferred' = Deferred BY <1>2, Zenon DEF Deferred
<1>4. /\ GcDescribesAccount'
      /\ ready_nonces_and_balances' \in [DOMAIN ready_nonces_and_balances' -> Accounts]
      /\ garbage_collector' \in [DOMAIN garbage_collector' -> Nodes]
      /\ DOMAIN packing_pool' = Senders
  <2>1. CASE buckets'[n.sender] = {}
    <3>1. UNCHANGED <<packing_pool, ready_nonces_and_balances, garbage_collector>>
      BY <1>2, <2>1, Zenon DEF Recalculate
    <3> QED BY <1>0, <1>2, <3>1, Zenon DEF PoolInv, GcDescribesAccount, PoolTypes
  <2>2. CASE buckets'[n.sender] # {}
    <3>1. IsFiniteSet(Deferred') /\ GcDescribesAccount BY <1>3, Zenon DEF PoolInv
    <3>2. buckets' \in [Senders -> SUBSET Infos] BY <1>0, <1>2, Zenon DEF PoolTypes
    <3> QED BY <1>0, <1>1, <1>2, <2>2, <3>1, <3>2, RecalculateTrue, Zenon
  <2> QED BY <2>1, <2>2, Zenon
<1>5. TypeOK' BY <1>0, <1>2, <1>4, Zenon DEF TypeOK, requests, Free
<1>6. IndexesAgree' /\ UnpackedCounted' /\ WithinCapacity' /\ IsFiniteSet(Deferred')
  BY <1>2, <1>3, Zenon DEF PoolInv, IndexesAgree, UnpackedCounted, WithinCapacity
<1>7. SkippedTrue' BY <1>2, Zenon DEF PoolInv, SkippedTrue
<1> QED BY <1>4, <1>5, <1>6, <1>7, Zenon DEF PoolInv

\* The sender's own node set aside is still true.
LEMMA SkipKeeps ==
  ASSUME PoolInv, NEW v \in Senders, SkipSelf(v)
  PROVE  PoolInv'
<1>0. TypeOK /\ PoolTypes /\ LockTypes BY TypesHaveParts, Zenon DEF PoolInv
<1>1. /\ ~Free /\ v \in DOMAIN garbage_collector /\ v = Job.tx.sender /\ buckets[v] # {}
      /\ skipped' = {[sender |-> v, node |-> garbage_collector[v]]}
      /\ garbage_collector' = Without(garbage_collector, v)
      /\ UNCHANGED <<buckets, packing_pool, ready_nonces_and_balances, txs,
                     unpacked_transaction_count, chain, requests, callers, owner,
                     jobs, events>>
  BY Zenon DEF SkipSelf, Collecting, IsTop
<1>2. /\ DOMAIN garbage_collector' = DOMAIN garbage_collector \ {v}
      /\ \A x \in DOMAIN garbage_collector' : garbage_collector'[x] = garbage_collector[x]
      /\ garbage_collector' \in [DOMAIN garbage_collector' -> Nodes]
      /\ garbage_collector[v] \in Nodes
  BY <1>0, <1>1, Zenon DEF Without, PoolTypes
<1>3. TypeOK'
  <2>1. PoolTypes' BY <1>0, <1>1, <1>2, Zenon DEF PoolTypes
  <2>2. LockTypes' BY <1>0, <1>1, <1>2 DEF LockTypes, Free
  <2>3. events' \in Nat BY <1>0, <1>1, Zenon DEF TypeOK
  <2> QED BY <1>0, <1>1, <2>1, <2>2, <2>3, TypesByParts, Zenon
<1>4. Deferred' = Deferred BY <1>1, Zenon DEF Deferred
<1>5. IndexesAgree' /\ UnpackedCounted' /\ WithinCapacity' /\ IsFiniteSet(Deferred')
  <2>1. IndexesAgree' BY <1>1, <1>4 DEF PoolInv, IndexesAgree
  <2>2. UnpackedCounted' BY <1>1, <1>4, Zenon DEF PoolInv, UnpackedCounted
  <2>3. WithinCapacity' /\ IsFiniteSet(Deferred') BY <1>1, <1>4, Zenon DEF PoolInv, WithinCapacity
  <2> QED BY <2>1, <2>2, <2>3, Zenon
<1>6. GcDescribesAccount' BY <1>1, <1>2 DEF PoolInv, GcDescribesAccount
<1>7. NodeTrue(v, garbage_collector[v]) BY <1>1, Zenon DEF PoolInv, GcDescribesAccount, NodeTrue
<1>8. SkippedTrue'
  <2>1. NodeTrue(v, garbage_collector[v])' <=>
          /\ garbage_collector'[v].count
               = CountLess(buckets[v], ready_nonces_and_balances[v].nonce)
          /\ garbage_collector'[v].price = LowestInfo(buckets[v]).tx.price
          /\ packing_pool[v] # NoBatch => garbage_collector'[v].ready
    BY <1>1, ZenonT(30) DEF NodeTrue
  <2>2. ASSUME NEW k \in skipped'
        PROVE  /\ ~Free' /\ k.sender = Job'.tx.sender
               /\ k.sender \notin DOMAIN garbage_collector'
               /\ buckets'[k.sender] # {} /\ NodeTrue(k.sender, k.node)'
    BY <1>1, <1>2, <1>7 DEF NodeTrue, Free, Job
  <2> QED BY <1>1, <2>2, Zenon DEF SkippedTrue
<1> QED BY <1>3, <1>5, <1>6, <1>8, Zenon DEF PoolInv

\* Evicting the lowest transaction of an account keeps its node true.
LEMMA EvictKeeps ==
  ASSUME PoolInv, NEW v \in Senders, Evict(v)
  PROVE  PoolInv'
<1> DEFINE node == garbage_collector[v]
           gone == LowestInfo(buckets[v])
           B == buckets[v] \ {gone}
           batch == IF B = {} THEN NoBatch ELSE SplitOffPrefix(packing_pool[v], gone.tx.nonce + 1)
           fresh == [count |-> IF node.count > 0 THEN node.count - 1 ELSE 0,
                     ready |-> batch # NoBatch, price |-> LowestInfo(B).tx.price]
           U == {i \in Deferred : ~i.packed}
<1>0. TypeOK /\ PoolTypes /\ LockTypes BY TypesHaveParts, Zenon DEF PoolInv
<1>1. /\ ~Free /\ v \in DOMAIN garbage_collector
      /\ UNCHANGED <<chain, requests, callers, owner, jobs, skipped, events>>
  BY Zenon DEF Evict, Collecting, IsTop
<1>2. /\ v \in DOMAIN ready_nonces_and_balances /\ buckets[v] # {}
      /\ node.count = CountLess(buckets[v], ready_nonces_and_balances[v].nonce)
  BY <1>1, Zenon DEF PoolInv, GcDescribesAccount
<1>3. /\ buckets' = [buckets EXCEPT ![v] = B]
      /\ packing_pool' = [packing_pool EXCEPT ![v] = batch]
      /\ unpacked_transaction_count' = unpacked_transaction_count
           - (IF gone.packed \/ unpacked_transaction_count = 0 THEN 0 ELSE 1)
      /\ ready_nonces_and_balances' =
           IF B = {} THEN Without(ready_nonces_and_balances, v) ELSE ready_nonces_and_balances
      /\ garbage_collector' =
           IF B = {} THEN Without(garbage_collector, v)
           ELSE [garbage_collector EXCEPT ![v] = fresh]
      /\ txs' = txs \ {gone.tx}
  BY <1>2, Zenon DEF Evict, Uncounted
<1>4. /\ gone \in buckets[v] /\ gone \in Deferred /\ gone \in Infos
      /\ IsFiniteSet(buckets[v]) /\ buckets[v] \in SUBSET Infos
  BY <1>0, <1>2, LowestInfoIs, BucketFacts DEF PoolInv
<1>5. /\ \A i \in buckets[v] : i.tx.sender = v
      /\ \A i, k \in Deferred : i.tx = k.tx => i = k
  BY DEF PoolInv, IndexesAgree, Deferred
<1>6. /\ Deferred' = Deferred \ {gone}
      /\ buckets'[v] = B
      /\ \A r \in Senders : r # v => buckets'[r] = buckets[r]
  <2>1. \A i \in B : i.tx.sender = v BY <1>5, Zenon
  <2>2. /\ Deferred' = (Deferred \ buckets[v]) \cup B
        /\ buckets'[v] = B
        /\ \A r \in Senders : r # v => buckets'[r] = buckets[r]
    <3> HIDE DEF B
    <3> QED BY <1>0, <1>3, <2>1, OneBucketChanges, Zenon DEF PoolInv
  <2>3. buckets[v] \subseteq Deferred BY Zenon DEF Deferred
  <2> QED BY <2>2, <2>3, <1>4, Zenon
<1>7. IsFiniteSet(Deferred') /\ Cardinality(Deferred') <= Cardinality(Deferred)
  BY <1>6, FS_Subset, Zenon DEF PoolInv
<1>8. WithinCapacity'
  BY <1>7, FS_CardinalityType, PoolAssumption DEF PoolInv, WithinCapacity
<1>9. UnpackedCounted' /\ unpacked_transaction_count' \in Nat
  <2>1. IsFiniteSet(U) /\ Cardinality(U) \in Nat /\ unpacked_transaction_count = Cardinality(U)
    BY FS_Subset, FS_CardinalityType, Zenon DEF PoolInv, UnpackedCounted
  <2>2. {i \in Deferred' : ~i.packed} = U \ {gone} BY <1>6, Zenon
  <2>3. Cardinality(U \ {gone}) = IF gone \in U THEN Cardinality(U) - 1 ELSE Cardinality(U)
    <3> HIDE DEF U, gone
    <3> QED BY <2>1, FS_RemoveElement, Zenon
  <2>4. gone \in U <=> ~gone.packed BY <1>4, Zenon
  <2>5. gone \in U => Cardinality(U) # 0
    <3> HIDE DEF U, gone
    <3> QED BY <2>1, FS_EmptySet, Zenon
  <2>6. Cardinality(U \ {gone}) \in Nat
    <3> HIDE DEF U, gone
    <3> QED BY <2>1, FS_RemoveElement, FS_CardinalityType, Zenon
  <2>7. unpacked_transaction_count' = Cardinality(U \ {gone})
    <3> HIDE DEF U, gone
    <3>1. unpacked_transaction_count' = unpacked_transaction_count
            - (IF gone.packed \/ unpacked_transaction_count = 0 THEN 0 ELSE 1)
      BY <1>3, Zenon
    <3>2. CASE gone \in U
      <4>1. ~gone.packed /\ unpacked_transaction_count # 0 BY <2>1, <2>4, <2>5, <3>2, Zenon
      <4>2. unpacked_transaction_count' = unpacked_transaction_count - 1 BY <3>1, <4>1, Zenon
      <4> QED BY <2>1, <2>3, <3>2, <4>2, Zenon
    <3>3. CASE gone \notin U
      <4>1. unpacked_transaction_count' = unpacked_transaction_count - 0 BY <2>4, <3>1, <3>3, Zenon
      <4> QED BY <2>1, <2>3, <3>3, <4>1
    <3> QED BY <3>2, <3>3, Zenon
  <2>8. Cardinality({i \in Deferred' : ~i.packed}) = Cardinality(U \ {gone}) BY <2>2, Zenon
  <2> QED BY <2>6, <2>7, <2>8, Zenon DEF UnpackedCounted
<1>10. IndexesAgree'
  <2>1. txs' = {i.tx : i \in Deferred'}
    <3>1. txs = {i.tx : i \in Deferred} BY Zenon DEF PoolInv, IndexesAgree
    <3>2. txs' = txs \ {gone.tx} BY <1>3, Zenon
    <3>3. Deferred' = Deferred \ {gone} /\ gone \in Deferred BY <1>4, <1>6, Zenon
    <3>4. \A i \in Deferred : i.tx = gone.tx => i = gone BY <1>5, <3>3, Zenon
    <3> HIDE DEF gone
    <3> QED BY <3>1, <3>2, <3>3, <3>4, Zenon
  <2>2. \A r \in Senders : buckets'[r] \subseteq buckets[r] BY <1>6, Zenon
  <2> QED BY <2>1, <2>2, Zenon DEF PoolInv, IndexesAgree
<1>11. DOMAIN packing_pool' = Senders /\ packing_pool'[v] = batch
       /\ \A r \in Senders : r # v => packing_pool'[r] = packing_pool[r]
  <2> HIDE DEF batch
  <2> QED BY <1>0, <1>3, Zenon DEF PoolTypes
<1>12. /\ GcDescribesAccount'
       /\ ready_nonces_and_balances' \in [DOMAIN ready_nonces_and_balances' -> Accounts]
       /\ garbage_collector' \in [DOMAIN garbage_collector' -> Nodes]
       /\ DOMAIN garbage_collector' \subseteq DOMAIN garbage_collector
       /\ \A r \in DOMAIN ready_nonces_and_balances : r # v =>
            ready_nonces_and_balances'[r] = ready_nonces_and_balances[r]
  <2>1. CASE B = {}
    <3>1. /\ DOMAIN ready_nonces_and_balances' = DOMAIN ready_nonces_and_balances \ {v}
          /\ DOMAIN garbage_collector' = DOMAIN garbage_collector \ {v}
          /\ \A r \in DOMAIN ready_nonces_and_balances : r # v =>
               ready_nonces_and_balances'[r] = ready_nonces_and_balances[r]
          /\ \A r \in DOMAIN garbage_collector' : garbage_collector'[r] = garbage_collector[r]
          /\ ready_nonces_and_balances' \in [DOMAIN ready_nonces_and_balances' -> Accounts]
          /\ garbage_collector' \in [DOMAIN garbage_collector' -> Nodes]
      <4> HIDE DEF B, fresh
      <4> QED BY <1>0, <1>3, <2>1, Zenon DEF Without, PoolTypes
    <3>2. GcDescribesAccount'
      <4>1. DOMAIN ready_nonces_and_balances' = {r \in Senders : buckets'[r] # {}}
        <5> HIDE DEF B
        <5> QED BY <1>6, <2>1, <3>1, Zenon DEF PoolInv, GcDescribesAccount
      <4>2. \A r \in DOMAIN garbage_collector' : r # v /\ r \in Senders
        BY <3>1, Zenon DEF PoolInv, GcDescribesAccount
      <4> QED BY <1>6, <1>11, <3>1, <4>1, <4>2, Zenon DEF PoolInv, GcDescribesAccount
    <3> QED BY <3>1, <3>2, Zenon
  <2>2. CASE B # {}
    <3>1. ready_nonces_and_balances' = ready_nonces_and_balances
          /\ garbage_collector' = [garbage_collector EXCEPT ![v] = fresh]
      <4> HIDE DEF B, fresh
      <4> QED BY <1>3, <2>2, Zenon
    <3>2. ready_nonces_and_balances[v].nonce \in Nat
      BY <1>0, <1>2, PoolAssumption, Zenon DEF PoolTypes
    <3>3. /\ fresh.count = CountLess(B, ready_nonces_and_balances[v].nonce)
          /\ fresh.count \in Nat
      <4>1. /\ CountLess(buckets[v], ready_nonces_and_balances[v].nonce) \in Nat
            /\ CountLess(B, ready_nonces_and_balances[v].nonce) =
                 IF CountLess(buckets[v], ready_nonces_and_balances[v].nonce) > 0
                 THEN CountLess(buckets[v], ready_nonces_and_balances[v].nonce) - 1 ELSE 0
        BY <1>2, <1>4, <3>2, EvictCount, Zenon
      <4>2. PICK c : c = CountLess(buckets[v], ready_nonces_and_balances[v].nonce) BY Zenon
      <4>3. node.count = c /\ c \in Nat BY <1>2, <4>1, <4>2, Zenon
      <4>4. CountLess(B, ready_nonces_and_balances[v].nonce) = IF c > 0 THEN c - 1 ELSE 0
        BY <4>1, <4>2, Zenon
      <4>5. fresh.count = IF c > 0 THEN c - 1 ELSE 0
        <5> HIDE DEF node, B, batch
        <5> QED BY <4>3, Zenon
      <4> HIDE DEF fresh, B
      <4> QED BY <4>3, <4>4, <4>5
    <3>4. LowestInfo(B).tx.price \in Nat
      <4>1. B \in SUBSET Infos BY <1>4, Zenon
      <4>2. LowestInfo(B) \in Infos
        <5> HIDE DEF B
        <5> QED BY <2>2, <4>1, LowestInfoIs, Zenon
      <4> QED BY <4>2, PoolAssumption, Zenon DEF Infos
    <3>5. /\ fresh \in Nodes
          /\ fresh.price = LowestInfo(B).tx.price
          /\ batch # NoBatch => fresh.ready
      <4>1. (batch # NoBatch) \in BOOLEAN BY Zenon
      <4> HIDE DEF B, batch
      <4> QED BY <3>3, <3>4, <4>1, Zenon DEF Nodes
    <3>6. /\ garbage_collector' \in [DOMAIN garbage_collector' -> Nodes]
          /\ DOMAIN garbage_collector' = DOMAIN garbage_collector
          /\ garbage_collector'[v] = fresh
          /\ \A r \in DOMAIN garbage_collector : r # v =>
               garbage_collector'[r] = garbage_collector[r]
      <4> HIDE DEF fresh
      <4> QED BY <1>0, <1>1, <3>1, <3>5, Zenon DEF PoolTypes
    <3>7. DOMAIN ready_nonces_and_balances' = {r \in Senders : buckets'[r] # {}}
      <4> HIDE DEF B
      <4> QED BY <1>2, <1>6, <2>2, <3>1, Zenon DEF PoolInv, GcDescribesAccount
    <3>8. GcDescribesAccount'
      <4> HIDE DEF B, fresh, batch
      <4>1. ASSUME NEW x \in DOMAIN garbage_collector'
            PROVE  LET n == garbage_collector'[x]
                   IN  /\ x \in DOMAIN ready_nonces_and_balances'
                       /\ n.count = CountLess(buckets'[x], ready_nonces_and_balances'[x].nonce)
                       /\ n.price = LowestInfo(buckets'[x]).tx.price
                       /\ packing_pool'[x] # NoBatch => n.ready
        <5>1. CASE x = v
          BY <1>2, <1>6, <1>11, <3>1, <3>3, <3>5, <3>6, <5>1, Zenon
        <5>2. CASE x # v
          <6>1. x \in DOMAIN garbage_collector /\ x \in Senders
            BY <3>6, Zenon DEF PoolInv, GcDescribesAccount
          <6> QED BY <1>6, <1>11, <3>1, <3>6, <5>2, <6>1, Zenon DEF PoolInv, GcDescribesAccount
        <5> QED BY <5>1, <5>2, Zenon
      <4> QED BY <3>7, <4>1, Zenon DEF GcDescribesAccount
    <3> QED BY <1>0, <3>1, <3>6, <3>8, Zenon DEF PoolTypes
  <2> QED BY <2>1, <2>2, Zenon
<1>13. TypeOK'
  <2>1. buckets' \in [Senders -> SUBSET Infos] BY <1>0, <1>3, <1>4, Zenon DEF PoolTypes
  <2>2. txs' \in SUBSET Transactions BY <1>0, <1>3, Zenon DEF PoolTypes
  <2>3. PoolTypes' BY <1>9, <1>11, <1>12, <2>1, <2>2, Zenon DEF PoolTypes
  <2>4. LockTypes' BY <1>0, <1>1, Zenon DEF LockTypes, Free
  <2>5. events' \in Nat BY <1>0, <1>1, Zenon DEF TypeOK
  <2> QED BY <1>0, <1>1, <2>3, <2>4, <2>5, TypesByParts, Zenon
<1>14. SkippedTrue'
  <2>1. ASSUME NEW k \in skipped
        PROVE  /\ ~Free' /\ k.sender = Job'.tx.sender
               /\ k.sender \notin DOMAIN garbage_collector'
               /\ buckets'[k.sender] # {} /\ NodeTrue(k.sender, k.node)'
    <3>1. /\ k.sender = Job.tx.sender /\ k.sender \notin DOMAIN garbage_collector
          /\ buckets[k.sender] # {} /\ NodeTrue(k.sender, k.node)
      BY Zenon DEF PoolInv, SkippedTrue
    <3>2. k.sender \in Senders /\ k.sender # v BY <1>0, <1>1, <3>1, Zenon DEF LockTypes
    <3>3. k.sender \in DOMAIN ready_nonces_and_balances
      BY <3>1, <3>2, Zenon DEF PoolInv, GcDescribesAccount
    <3> QED BY <1>1, <1>6, <1>11, <1>12, <3>1, <3>2, <3>3, Zenon DEF NodeTrue, Free, Job
  <2> QED BY <1>1, <2>1, Zenon DEF PoolInv, SkippedTrue
<1> QED BY <1>7, <1>8, <1>9, <1>10, <1>12, <1>13, <1>14, Zenon DEF PoolInv

\* A successful replacement or refusal to replace.
LEMMA ReplaceKeeps ==
  ASSUME PoolInv, ReplaceTransaction
  PROVE  PoolInv'
<1> DEFINE s == Job.tx.sender
           old == CHOOSE i \in SameNonce(Job) : TRUE
           new == [tx |-> Job.tx, packed |-> Job.packed]
           B == (buckets[s] \ {old}) \cup {new}
           U == {i \in Deferred : ~i.packed}
<1>0. TypeOK /\ PoolTypes /\ LockTypes BY TypesHaveParts, Zenon DEF PoolInv
<1>1. /\ ~Free /\ NextJob /\ SameNonce(Job) # {}
      /\ UNCHANGED <<chain, requests, callers, events>>
  BY Zenon DEF ReplaceTransaction
<1>2. /\ s \in Senders /\ new \in Infos /\ Job.account \in Accounts
      /\ Job.tx \in Transactions /\ Job \in Jobs
      /\ LockTypes' /\ skipped' = {}
  BY <1>0, <1>1, JobFacts, Zenon DEF LockTypes
<1>3. SkippedTrue' BY <1>2, Zenon DEF SkippedTrue
<1>4. CASE UNCHANGED pool
  <2>1. PoolTypes' BY <1>0, <1>4, Zenon DEF PoolTypes, pool
  <2>2. events' \in Nat BY <1>0, <1>1, Zenon DEF TypeOK
  <2>3. TypeOK' BY <1>0, <1>1, <1>2, <2>1, <2>2, TypesByParts, Zenon
  <2> QED BY <1>3, <1>4, <2>3, PoolUnchanged, Zenon DEF PoolInv
<1>5. CASE /\ buckets' = [buckets EXCEPT ![s] = B]
           /\ txs' = (txs \ {old.tx}) \cup {Job.tx}
           /\ unpacked_transaction_count' = unpacked_transaction_count
                - (IF old.packed \/ unpacked_transaction_count = 0 THEN 0 ELSE 1)
                + (IF Job.packed THEN 0 ELSE 1)
           /\ Recalculate(s, B, SplitOffSuffix(packing_pool[s], Job.tx.nonce), Job.account)
  <2>1. old \in buckets[s] /\ old.tx.nonce = Job.tx.nonce
    BY <1>1, Zenon DEF SameNonce, InfoAt
  <2>2. /\ old \in Deferred
        /\ \A i \in buckets[s] : i.tx.sender = s
        /\ \A i \in Deferred : i.tx.sender = s /\ i.tx.nonce = Job.tx.nonce => i = old
        /\ \A i, k \in Deferred : i.tx = k.tx => i = k
    <3>1. \A i \in Deferred : i.tx.sender \in Senders /\ i \in buckets[i.tx.sender]
      BY DEF PoolInv, IndexesAgree, Deferred
    <3>2. \A r \in Senders : \A i, k \in buckets[r] :
            i.tx.sender = r /\ (i.tx.nonce = k.tx.nonce => i = k)
      BY Zenon DEF PoolInv, IndexesAgree
    <3>3. old \in Deferred BY <1>2, <2>1, Zenon DEF Deferred
    <3> HIDE DEF old, s
    <3> QED BY <1>2, <2>1, <3>1, <3>2, <3>3
  <2>3. /\ Deferred' = (Deferred \ {old}) \cup {new}
        /\ buckets'[s] = B
        /\ \A r \in Senders : r # s => buckets'[r] = buckets[r]
    <3>1. \A i \in B : i.tx.sender = s
      <4> HIDE DEF old
      <4> QED BY <2>2
    <3>2. /\ Deferred' = (Deferred \ buckets[s]) \cup B
          /\ buckets'[s] = B
          /\ \A r \in Senders : r # s => buckets'[r] = buckets[r]
      <4> HIDE DEF B, s, old, new
      <4> QED BY <1>0, <1>2, <1>5, <3>1, OneBucketChanges, Zenon DEF PoolInv
    <3>3. buckets[s] \subseteq Deferred BY <1>2, Zenon DEF Deferred
    <3> HIDE DEF s, old, new
    <3> QED BY <2>1, <3>2, <3>3, Zenon
  <2>4. \A i \in Deferred \ {old} : i # new /\ i.tx # Job.tx
    <3>1. new.tx = Job.tx BY Zenon
    <3> HIDE DEF old, new
    <3> QED BY <2>2, <3>1, Zenon
  <2>5. IsFiniteSet(Deferred) /\ IsFiniteSet(Deferred') /\ Cardinality(Deferred') = Cardinality(Deferred)
    <3>1. IsFiniteSet(Deferred) BY Zenon DEF PoolInv
    <3>2. /\ IsFiniteSet(Deferred \ {old})
          /\ Cardinality(Deferred \ {old}) = Cardinality(Deferred) - 1
          /\ Cardinality(Deferred) \in Nat
      <4> HIDE DEF old
      <4> QED BY <2>2, <3>1, FS_RemoveElement, FS_CardinalityType, Zenon
    <3>3. new \notin Deferred \ {old} BY <2>4, Zenon
    <3> HIDE DEF old, new
    <3> QED BY <2>3, <3>1, <3>2, <3>3, FS_AddElement
  <2>6. WithinCapacity' BY <2>5, Zenon DEF PoolInv, WithinCapacity
  <2>7. IndexesAgree'
    <3>1. txs' = {i.tx : i \in Deferred'}
      <4>1. new.tx = Job.tx BY Zenon
      <4>2. txs = {i.tx : i \in Deferred} BY Zenon DEF PoolInv, IndexesAgree
      <4> HIDE DEF old, new
      <4>3. txs' = (txs \ {old.tx}) \cup {Job.tx} BY <1>5, Zenon
      <4>4. \A i \in Deferred' : i.tx \in txs' BY <2>2, <2>3, <4>1, <4>2, <4>3, Zenon
      <4>5. ASSUME NEW t \in txs' PROVE \E i \in Deferred' : i.tx = t
        <5>1. CASE t = Job.tx BY <2>3, <4>1, <5>1, Zenon
        <5>2. CASE t # Job.tx
          <6>1. PICK i \in Deferred : i.tx = t /\ t # old.tx BY <4>2, <4>3, <5>2, Zenon
          <6> QED BY <2>3, <6>1, Zenon
        <5> QED BY <5>1, <5>2, Zenon
      <4> QED BY <4>4, <4>5, Zenon
    <3>2. \A i, k \in B : i.tx.sender = s /\ (i.tx.nonce = k.tx.nonce => i = k)
      <4>1. new.tx.sender = s /\ new.tx.nonce = Job.tx.nonce BY Zenon
      <4>2. \A i \in buckets[s] : i \in Deferred BY <1>2, Zenon DEF Deferred
      <4>3. \A i, k \in buckets[s] : i.tx.nonce = k.tx.nonce => i = k
        BY <1>2 DEF PoolInv, IndexesAgree
      <4> HIDE DEF old, new, s
      <4> QED BY <2>2, <4>1, <4>2, <4>3
    <3>3. \A r \in Senders : \A i, k \in buckets'[r] :
            i.tx.sender = r /\ (i.tx.nonce = k.tx.nonce => i = k)
      <4> HIDE DEF B, s
      <4> QED BY <2>3, <3>2 DEF PoolInv, IndexesAgree
    <3> QED BY <3>1, <3>3, Zenon DEF IndexesAgree
  <2>8. UnpackedCounted' /\ unpacked_transaction_count' \in Nat
    <3> DEFINE V == {i \in Deferred' : ~i.packed}
    <3>1. IsFiniteSet(U) /\ Cardinality(U) \in Nat /\ unpacked_transaction_count = Cardinality(U)
      BY FS_Subset, FS_CardinalityType, Zenon DEF PoolInv, UnpackedCounted
    <3>2. /\ old \in U <=> ~old.packed
          /\ new.packed = Job.packed
          /\ Job.packed \in BOOLEAN
          /\ new \notin U \ {old}
          /\ V = (U \ {old}) \cup (IF Job.packed THEN {} ELSE {new})
      <4>1. new.packed = Job.packed BY Zenon
      <4>2. Job.packed \in BOOLEAN BY <1>2, Zenon DEF Jobs
      <4>3. Job.packed = TRUE => V = U \ {old}
        <5> HIDE DEF old, new
        <5> QED BY <2>3, <4>1, Zenon
      <4>4. Job.packed = FALSE => V = (U \ {old}) \cup {new}
        <5> HIDE DEF old, new
        <5> QED BY <2>3, <4>1, Zenon
      <4> HIDE DEF V, new, old
      <4>5. new \notin U \ {old} BY <2>4, Zenon
      <4>6. old \in U <=> ~old.packed BY <2>2, Zenon
      <4> HIDE DEF U
      <4> QED BY <4>1, <4>2, <4>3, <4>4, <4>5, <4>6, Zenon
    <3> HIDE DEF U, V, old, new
    <3>3. /\ IsFiniteSet(U \ {old})
          /\ Cardinality(U \ {old}) = IF old \in U THEN Cardinality(U) - 1 ELSE Cardinality(U)
          /\ Cardinality(U \ {old}) \in Nat
      BY <3>1, FS_RemoveElement, FS_CardinalityType, Zenon
    <3>4. old \in U => Cardinality(U) # 0 BY <3>1, FS_EmptySet, Zenon
    <3>5. Cardinality(V) = Cardinality(U \ {old}) + (IF Job.packed THEN 0 ELSE 1)
      <4>1. CASE Job.packed BY <3>2, <3>3, <4>1
      <4>2. CASE ~Job.packed
        <5>1. V = (U \ {old}) \cup {new} BY <3>2, <4>2, Zenon
        <5>2. Cardinality((U \ {old}) \cup {new}) = Cardinality(U \ {old}) + 1
          BY <3>2, <3>3, FS_AddElement, Zenon
        <5> QED BY <4>2, <5>1, <5>2, Zenon
      <4> QED BY <4>1, <4>2, Zenon
    <3>6. unpacked_transaction_count' = Cardinality(V) /\ Cardinality(V) \in Nat
      <4>1. PICK u : u = Cardinality(U) BY Zenon
      <4>2. PICK w : w = Cardinality(U \ {old}) BY Zenon
      <4>3. u \in Nat /\ w \in Nat /\ unpacked_transaction_count = u BY <3>1, <3>3, <4>1, <4>2, Zenon
      <4>4. w = u - (IF old.packed \/ u = 0 THEN 0 ELSE 1)
        <5>1. CASE old.packed
          <6>1. w = u BY <3>2, <3>3, <4>1, <4>2, <5>1, Zenon
          <6> QED BY <4>3, <5>1, <6>1
        <5>2. CASE ~old.packed
          <6>1. w = u - 1 /\ u # 0 BY <3>2, <3>3, <3>4, <4>1, <4>2, <5>2, Zenon
          <6> QED BY <5>2, <6>1, Zenon
        <5> QED BY <5>1, <5>2, Zenon
      <4>5. unpacked_transaction_count' =
              u - (IF old.packed \/ u = 0 THEN 0 ELSE 1) + (IF Job.packed THEN 0 ELSE 1)
        BY <1>5, <4>3, Zenon
      <4>6. Cardinality(V) = w + (IF Job.packed THEN 0 ELSE 1) BY <3>5, <4>2, Zenon
      <4>7. Cardinality(V) \in Nat
        <5>1. CASE Job.packed
          <6>1. Cardinality(V) = w + 0 BY <4>6, <5>1, Zenon
          <6> QED BY <4>3, <6>1
        <5>2. CASE ~Job.packed
          <6>1. Cardinality(V) = w + 1 BY <4>6, <5>2, Zenon
          <6> QED BY <4>3, <6>1
        <5> QED BY <5>1, <5>2, Zenon
      <4> QED BY <4>4, <4>5, <4>6, <4>7, Zenon
    <3> QED BY <3>6, Zenon DEF UnpackedCounted, V
  <2>9. buckets' \in [Senders -> SUBSET Infos]
    <3>1. B \in SUBSET Infos BY <1>0, <1>2, Zenon DEF PoolTypes
    <3> HIDE DEF B, s
    <3> QED BY <1>0, <1>5, <3>1, Zenon DEF PoolTypes
  <2>10. /\ GcDescribesAccount'
         /\ ready_nonces_and_balances' \in [DOMAIN ready_nonces_and_balances' -> Accounts]
         /\ garbage_collector' \in [DOMAIN garbage_collector' -> Nodes]
         /\ DOMAIN packing_pool' = Senders
    <3>1. B # {} BY Zenon
    <3>2. GcDescribesAccount BY Zenon DEF PoolInv
    <3> HIDE DEF B, s, old
    <3> QED BY <1>0, <1>2, <1>5, <2>3, <2>5, <2>9, <3>1, <3>2, RecalculateTrue, Zenon
  <2>11. TypeOK'
    <3>1. txs' \in SUBSET Transactions BY <1>0, <1>2, <1>5, Zenon DEF PoolTypes
    <3>2. PoolTypes' BY <2>8, <2>9, <2>10, <3>1, Zenon DEF PoolTypes
    <3>3. events' \in Nat BY <1>0, <1>1, Zenon DEF TypeOK
    <3> QED BY <1>0, <1>1, <1>2, <3>2, <3>3, TypesByParts, Zenon
  <2> QED BY <1>3, <2>5, <2>6, <2>7, <2>8, <2>10, <2>11, Zenon DEF PoolInv
<1> QED BY <1>4, <1>5, Zenon DEF ReplaceTransaction, Uncounted

\* An insertion under a nonce that is free: it fails on a full pool, after the
\* node set aside is put back, or adds the transaction.
LEMMA AddKeeps ==
  ASSUME PoolInv, AddTransaction
  PROVE  PoolInv'
<1> DEFINE s == Job.tx.sender
           new == [tx |-> Job.tx, packed |-> Job.packed]
           B == buckets[s] \cup {new}
           back == [x \in DOMAIN garbage_collector \cup {k.sender : k \in skipped} |->
                      IF x \in DOMAIN garbage_collector THEN garbage_collector[x]
                      ELSE (CHOOSE k \in skipped : k.sender = x).node]
           U == {i \in Deferred : ~i.packed}
<1>0. TypeOK /\ PoolTypes /\ LockTypes BY TypesHaveParts, Zenon DEF PoolInv
<1>1. /\ ~Free /\ NextJob /\ SameNonce(Job) = {}
      /\ UNCHANGED <<chain, requests, callers, events>>
  BY DEF AddTransaction
<1>2. /\ s \in Senders /\ new \in Infos /\ Job.account \in Accounts
      /\ Job.tx \in Transactions /\ Job \in Jobs
      /\ LockTypes' /\ skipped' = {}
  BY <1>0, <1>1, JobFacts, Zenon DEF LockTypes
<1>3. SkippedTrue' BY <1>2 DEF SkippedTrue
<1>4. CASE /\ garbage_collector' = back
           /\ UNCHANGED <<buckets, packing_pool, ready_nonces_and_balances, txs,
                          unpacked_transaction_count>>
  <2>1. Deferred' = Deferred BY <1>4, Zenon DEF Deferred
  <2>2. IndexesAgree' /\ UnpackedCounted' /\ WithinCapacity' /\ IsFiniteSet(Deferred')
    BY <1>4, <2>1, Zenon DEF PoolInv, IndexesAgree, UnpackedCounted, WithinCapacity
  <2>3. ASSUME NEW x \in DOMAIN back
        PROVE  /\ back[x] \in Nodes
               /\ x \in DOMAIN ready_nonces_and_balances
               /\ NodeTrue(x, back[x])
    <3>1. CASE x \in DOMAIN garbage_collector
      <4>1. back[x] = garbage_collector[x] BY <3>1, Zenon
      <4>2. /\ garbage_collector[x] \in Nodes /\ x \in DOMAIN ready_nonces_and_balances
            /\ NodeTrue(x, garbage_collector[x])
        BY <1>0, <3>1, Zenon DEF PoolInv, GcDescribesAccount, NodeTrue, PoolTypes
      <4> HIDE DEF back
      <4> QED BY <4>1, <4>2, Zenon
    <3>2. CASE x \notin DOMAIN garbage_collector
      <4> DEFINE k == CHOOSE l \in skipped : l.sender = x
      <4>1. back[x] = k.node BY <3>2, Zenon
      <4>2. \E l \in skipped : l.sender = x BY <3>2, Zenon
      <4>3. k \in skipped /\ k.sender = x BY <4>2, Zenon
      <4> HIDE DEF k, back
      <4>4. /\ k.node \in Nodes /\ x \in Senders
            /\ buckets[x] # {} /\ NodeTrue(x, k.node)
        BY <1>0, <4>3, Zenon DEF LockTypes, PoolInv, SkippedTrue
      <4>5. x \in DOMAIN ready_nonces_and_balances BY <4>4, Zenon DEF PoolInv, GcDescribesAccount
      <4> QED BY <4>1, <4>4, <4>5, Zenon
    <3> QED BY <3>1, <3>2, Zenon
  <2>4. back \in [DOMAIN back -> Nodes]
    <3>1. back = [x \in DOMAIN back |-> back[x]] OBVIOUS
    <3> HIDE DEF back
    <3> QED BY <2>3, <3>1, Zenon
  <2>5. GcDescribesAccount'
    <3>1. DOMAIN ready_nonces_and_balances = {r \in Senders : buckets[r] # {}}
      BY Zenon DEF PoolInv, GcDescribesAccount
    <3> HIDE DEF back
    <3> QED BY <1>4, <2>3, <3>1, Zenon DEF GcDescribesAccount, NodeTrue
  <2>6. TypeOK'
    <3>1. PoolTypes'
      <4> HIDE DEF back
      <4> QED BY <1>0, <1>4, <2>4, Zenon DEF PoolTypes
    <3>2. events' \in Nat BY <1>0, <1>1, Zenon DEF TypeOK
    <3> QED BY <1>0, <1>1, <1>2, <3>1, <3>2, TypesByParts, Zenon
  <2> QED BY <1>3, <2>2, <2>5, <2>6, Zenon DEF PoolInv
<1>5. CASE /\ ~IsFull
           /\ buckets' = [buckets EXCEPT ![s] = B]
           /\ txs' = txs \cup {Job.tx}
           /\ unpacked_transaction_count' =
                unpacked_transaction_count + (IF Job.packed THEN 0 ELSE 1)
           /\ Recalculate(s, B, packing_pool[s], Job.account)
  <2>1. \A i \in buckets[s] : i.tx.sender = s /\ i.tx.nonce # Job.tx.nonce
    BY <1>1, <1>2, Zenon DEF PoolInv, IndexesAgree, SameNonce, InfoAt
  <2>2. new \notin Deferred
    <3>1. \A i \in Deferred : i \in buckets[i.tx.sender] BY DEF PoolInv, IndexesAgree, Deferred
    <3>2. new.tx.sender = s /\ new.tx.nonce = Job.tx.nonce BY Zenon
    <3> HIDE DEF new, s
    <3> QED BY <2>1, <3>1, <3>2, Zenon
  <2>3. /\ Deferred' = Deferred \cup {new}
        /\ buckets'[s] = B
        /\ \A r \in Senders : r # s => buckets'[r] = buckets[r]
    <3>1. \A i \in B : i.tx.sender = s BY <2>1
    <3>2. /\ Deferred' = (Deferred \ buckets[s]) \cup B
          /\ buckets'[s] = B
          /\ \A r \in Senders : r # s => buckets'[r] = buckets[r]
      <4> HIDE DEF B, s, new
      <4> QED BY <1>0, <1>2, <1>5, <3>1, OneBucketChanges, Zenon DEF PoolInv
    <3>3. buckets[s] \subseteq Deferred BY <1>2, Zenon DEF Deferred
    <3> HIDE DEF s, new
    <3> QED BY <3>2, <3>3, Zenon
  <2>4. /\ IsFiniteSet(Deferred') /\ WithinCapacity'
    <3>1. IsFiniteSet(Deferred) /\ Cardinality(Deferred) \in Nat
      BY FS_CardinalityType, Zenon DEF PoolInv
    <3>2. IsFiniteSet(Deferred') /\ Cardinality(Deferred') = Cardinality(Deferred) + 1
      <4> HIDE DEF new
      <4> QED BY <2>2, <2>3, <3>1, FS_AddElement, Zenon
    <3>3. Cardinality(Deferred) < capacity
      <4>1. ~IsFull BY <1>5, Zenon
      <4> QED BY <3>1, <4>1, PoolAssumption DEF IsFull
    <3>4. Cardinality(Deferred') <= capacity BY <3>1, <3>2, <3>3, PoolAssumption, SMTT(20)
    <3> QED BY <3>2, <3>4, Zenon DEF WithinCapacity
  <2>5. IndexesAgree'
    <3>1. txs' = {i.tx : i \in Deferred'}
      <4>1. new.tx = Job.tx BY Zenon
      <4>2. txs = {i.tx : i \in Deferred} BY Zenon DEF PoolInv, IndexesAgree
      <4> HIDE DEF new
      <4> QED BY <1>5, <2>3, <4>1, <4>2
    <3>2. \A i, k \in B : i.tx.sender = s /\ (i.tx.nonce = k.tx.nonce => i = k)
      <4>1. new.tx.sender = s /\ new.tx.nonce = Job.tx.nonce BY Zenon
      <4>2. \A i, k \in buckets[s] : i.tx.nonce = k.tx.nonce => i = k
        BY <1>2 DEF PoolInv, IndexesAgree
      <4> HIDE DEF new, s
      <4> QED BY <2>1, <4>1, <4>2
    <3>3. \A r \in Senders : \A i, k \in buckets'[r] :
            i.tx.sender = r /\ (i.tx.nonce = k.tx.nonce => i = k)
      <4> HIDE DEF B, s
      <4> QED BY <2>3, <3>2 DEF PoolInv, IndexesAgree
    <3> QED BY <3>1, <3>3, Zenon DEF IndexesAgree
  <2>6. UnpackedCounted' /\ unpacked_transaction_count' \in Nat
    <3> DEFINE V == {i \in Deferred' : ~i.packed}
    <3>1. IsFiniteSet(U) /\ Cardinality(U) \in Nat /\ unpacked_transaction_count = Cardinality(U)
      BY FS_Subset, FS_CardinalityType, Zenon DEF PoolInv, UnpackedCounted
    <3>2. new.packed = Job.packed /\ Job.packed \in BOOLEAN BY <1>2, Zenon DEF Jobs
    <3>3. CASE Job.packed
      <4>1. V = U
        <5> HIDE DEF new
        <5> QED BY <2>3, <3>2, <3>3, Zenon
      <4> HIDE DEF U, V
      <4>2. unpacked_transaction_count' = Cardinality(V) /\ Cardinality(V) \in Nat
        BY <1>5, <3>1, <3>3, <4>1, SMTT(20)
      <4> QED BY <4>2, Zenon DEF UnpackedCounted, V
    <3>4. CASE ~Job.packed
      <4>1. V = U \cup {new} /\ new \notin U
        <5> HIDE DEF new
        <5> QED BY <2>2, <2>3, <3>2, <3>4, Zenon
      <4> HIDE DEF U, V, new
      <4>2. Cardinality(V) = Cardinality(U) + 1 BY <3>1, <4>1, FS_AddElement, Zenon
      <4>3. unpacked_transaction_count' = Cardinality(V) /\ Cardinality(V) \in Nat
        BY <1>5, <3>1, <3>4, <4>2, SMTT(20)
      <4> QED BY <4>3, Zenon DEF UnpackedCounted, V
    <3> QED BY <3>3, <3>4, Zenon
  <2>7. buckets' \in [Senders -> SUBSET Infos]
    <3>1. B \in SUBSET Infos BY <1>0, <1>2, Zenon DEF PoolTypes
    <3> HIDE DEF B, s
    <3> QED BY <1>0, <1>5, <3>1, Zenon DEF PoolTypes
  <2>8. /\ GcDescribesAccount'
        /\ ready_nonces_and_balances' \in [DOMAIN ready_nonces_and_balances' -> Accounts]
        /\ garbage_collector' \in [DOMAIN garbage_collector' -> Nodes]
        /\ DOMAIN packing_pool' = Senders
    <3>1. B # {} BY Zenon
    <3>2. GcDescribesAccount BY Zenon DEF PoolInv
    <3> HIDE DEF B, s
    <3> QED BY <1>0, <1>2, <1>5, <2>3, <2>4, <2>7, <3>1, <3>2, RecalculateTrue, Zenon
  <2>9. TypeOK'
    <3>1. txs' \in SUBSET Transactions BY <1>0, <1>2, <1>5, Zenon DEF PoolTypes
    <3>2. PoolTypes' BY <2>6, <2>7, <2>8, <3>1, Zenon DEF PoolTypes
    <3>3. events' \in Nat BY <1>0, <1>1, Zenon DEF TypeOK
    <3> QED BY <1>0, <1>1, <1>2, <3>2, <3>3, TypesByParts, Zenon
  <2> QED BY <1>3, <2>4, <2>5, <2>6, <2>8, <2>9, Zenon DEF PoolInv
<1> QED BY <1>4, <1>5, Zenon DEF AddTransaction
-----------------------------------------------------------------------------
\* The empty pool satisfies the invariant.
LEMMA PoolInvInit ==
  ASSUME Init PROVE PoolInv
<1>1. DOMAIN ready_nonces_and_balances = {} /\ DOMAIN garbage_collector = {}
  BY Zenon DEF Init, NoEntries
<1>2. TypeOK BY <1>1, PoolAssumption DEF Init, TypeOK, Free, NoEntries
<1>3. Deferred = {} BY Zenon DEF Init, Deferred
<1>4. IsFiniteSet(Deferred) /\ Cardinality(Deferred) = 0 BY <1>3, FS_EmptySet, Zenon
<1>5. IndexesAgree BY <1>3, Zenon DEF Init, IndexesAgree
<1>6. {i \in Deferred : ~i.packed} = {} BY <1>3, Zenon
<1>7. UnpackedCounted BY <1>6, FS_EmptySet, Zenon DEF Init, UnpackedCounted
<1>8. WithinCapacity BY <1>4, PoolAssumption DEF WithinCapacity
<1>9. GcDescribesAccount BY <1>1, Zenon DEF Init, GcDescribesAccount
<1>10. SkippedTrue BY Zenon DEF Init, SkippedTrue
<1> QED BY <1>2, <1>4, <1>5, <1>7, <1>8, <1>9, <1>10, Zenon DEF PoolInv

\* Every step of every party keeps the invariant.
LEMMA PoolInvNext ==
  ASSUME PoolInv, [Next]_vars PROVE PoolInv'
<1>1. CASE UNCHANGED vars
  <2>1. UNCHANGED <<pool, chain, requests, callers, owner, jobs, skipped, events>>
    BY <1>1, Zenon DEF vars
  <2>2. TypeOK' BY <2>1, Zenon DEF PoolInv, TypeOK, pool, chain, requests, Free
  <2> QED BY <2>1, <2>2, PoolUnchanged, Zenon DEF PoolInv
<1>2. CASE Next
  BY <1>2, OutsideKeeps, ClearAndDropKeep, NotifyKeeps, SkipKeeps, EvictKeeps, ReplaceKeeps,
     AddKeeps, Zenon DEF Next
<1> QED BY <1>1, <1>2, Zenon

\* The inductive invariant of the transaction pool.
THEOREM PoolInvariantHolds == Spec => []PoolInv
BY PoolInvInit, PoolInvNext, PTL DEF Spec

\* `txs` and the nonce pools hold the same transactions, whatever the
\* interleaving of insertions, packed and recycled transactions, reports of
\* modified accounts and evictions (insert_transaction_without_readiness_check
\* and collect_garbage maintain the two separately).
THEOREM IndexesAgreeHolds == Spec => []IndexesAgree
<1>1. PoolInv => IndexesAgree BY Zenon DEF PoolInv
<1> QED BY <1>1, PoolInvariantHolds, PTL

\* unpacked_transaction_count is exact, so checked_sub never underflows.
THEOREM UnpackedCountedHolds == Spec => []UnpackedCounted
<1>1. PoolInv => UnpackedCounted BY Zenon DEF PoolInv
<1> QED BY <1>1, PoolInvariantHolds, PTL

\* The pool is never larger than its capacity, forced insertions included.
THEOREM WithinCapacityHolds == Spec => []WithinCapacity
<1>1. PoolInv => WithinCapacity BY Zenon DEF PoolInv
<1> QED BY <1>1, PoolInvariantHolds, PTL

\* The garbage collector's nodes are true of their accounts; with it the
\* assertion of collect_garbage about a victim's count cannot fail.
THEOREM GcDescribesAccountHolds == Spec => []GcDescribesAccount
<1>1. PoolInv => GcDescribesAccount BY Zenon DEF PoolInv
<1> QED BY <1>1, PoolInvariantHolds, PTL

\* A transaction leaves the pool only for a replacement, or from a full pool
\* when it is executed, not ready or cheaper than the one that comes.
THEOREM EvictedForCauseHolds == Spec => EvictedForCause
<1> DEFINE Cause ==
      ~ClearTxPool =>
        \A t \in txs \ txs' :
          LET new == Job.tx
          IN  /\ ~Free
              /\ \/ t.sender = new.sender /\ t.nonce = new.nonce
                 \/ /\ IsFull
                    /\ \/ t.nonce < ready_nonces_and_balances[t.sender].nonce
                       \/ /\ t.sender # new.sender
                          /\ \/ packing_pool[t.sender] = NoBatch
                             \/ t.price < new.price
<1>1. ASSUME PoolInv, [Next]_vars PROVE [Cause]_vars
  <2>0. TypeOK BY <1>1, Zenon DEF PoolInv
  <2>1. CASE txs \subseteq txs' BY <2>1, Zenon
  <2>2. CASE ReplaceTransaction
    <3> DEFINE old == CHOOSE i \in SameNonce(Job) : TRUE
    <3>1. ~Free /\ SameNonce(Job) # {} /\ (txs \ txs') \subseteq {old.tx}
      BY <2>2, Zenon DEF ReplaceTransaction, pool
    <3>2. old \in buckets[Job.tx.sender] /\ old.tx.nonce = Job.tx.nonce
      BY <3>1, Zenon DEF SameNonce, InfoAt
    <3>3. Job.tx.sender \in Senders BY <2>0, <3>1, JobFacts, Zenon
    <3>4. old.tx.sender = Job.tx.sender BY <1>1, <3>2, <3>3, Zenon DEF PoolInv, IndexesAgree
    <3> HIDE DEF old
    <3> QED BY <3>1, <3>2, <3>4, Zenon
  <2>3. ASSUME NEW v \in Senders, Evict(v) PROVE Cause
    <3> DEFINE gone == LowestInfo(buckets[v])
               node == garbage_collector[v]
    <3>1. ~Free /\ IsFull /\ v \in DOMAIN garbage_collector
      BY <2>3 DEF Evict, Collecting, IsTop
    <3>2. /\ v \in DOMAIN ready_nonces_and_balances /\ buckets[v] # {}
          /\ node.count = CountLess(buckets[v], ready_nonces_and_balances[v].nonce)
          /\ node.price = gone.tx.price
          /\ packing_pool[v] # NoBatch => node.ready
      BY <1>1, <3>1, Zenon DEF PoolInv, GcDescribesAccount
    <3>3. /\ txs' = txs \ {gone.tx}
          /\ node.count = 0 => v # Job.tx.sender /\ (~node.ready \/ node.price < Job.tx.price)
      BY <2>3, <3>2, Zenon DEF Evict
    <3>4. /\ gone \in buckets[v] /\ buckets[v] \in SUBSET Infos /\ IsFiniteSet(buckets[v])
      BY <1>1, <2>0, <3>2, LowestInfoIs, BucketFacts, Zenon DEF PoolInv
    <3>5. gone.tx.sender = v BY <1>1, <3>4, Zenon DEF PoolInv, IndexesAgree
    <3>6. ready_nonces_and_balances[v].nonce \in Nat /\ gone.tx.nonce \in Nat
      BY <2>0, <3>2, <3>4, PoolAssumption, Zenon DEF TypeOK, Infos
    <3>7. gone.tx.nonce >= ready_nonces_and_balances[v].nonce => node.count = 0
      BY <3>2, <3>4, <3>6, EvictCount, Zenon
    <3> HIDE DEF gone, node
    <3>8. \/ gone.tx.nonce < ready_nonces_and_balances[v].nonce
          \/ /\ v # Job.tx.sender
             /\ \/ packing_pool[v] = NoBatch
                \/ gone.tx.price < Job.tx.price
      <4>1. CASE gone.tx.nonce >= ready_nonces_and_balances[v].nonce
        <5>1. node.count = 0 BY <3>7, <4>1, Zenon
        <5>2. v # Job.tx.sender /\ (~node.ready \/ node.price < Job.tx.price)
          BY <3>3, <5>1, Zenon
        <5> QED BY <3>2, <5>2, Zenon
      <4>2. CASE ~ (gone.tx.nonce >= ready_nonces_and_balances[v].nonce) BY <3>6, <4>2
      <4> QED BY <4>1, <4>2
    <3> QED BY <3>1, <3>3, <3>5, <3>8, Zenon
  <2>4. CASE ClearTxPool BY <2>4, Zenon
  <2>5. ASSUME \/ \E tx \in Transactions :
                    Snapshot(tx) \/ SetTxPacked(tx) \/ RecycleTransactions(tx)
               \/ \E c \in callers : CallerLocks(c)
               \/ NotifyNewBestInfo \/ NotifierLocks \/ RefuseTransaction
               \/ \E v \in Senders : SkipSelf(v) \/ GiveUp(v)
               \/ AddTransaction
               \/ \E s \in Senders, account \in Accounts : NotifyTxpool(s, account)
               \/ SetBestExecutedState
               \/ \E state \in executed : UpdateOnSkippedExecution(state)
               \/ \E n \in notices : NotifyModifiedAccounts(n)
               \/ \E s \in Senders : \E i \in 1..Len(packing_pool[s].txs) :
                    PackingSamplerDrops(s, i)
        PROVE  txs \subseteq txs'
    BY <2>5, Zenon DEF Snapshot, SetTxPacked, RecycleTransactions, CallerLocks, NotifyNewBestInfo,
       NotifierLocks, RefuseTransaction, SkipSelf, GiveUp, AddTransaction, NotifyTxpool,
       SetBestExecutedState, UpdateOnSkippedExecution, NotifyModifiedAccounts,
       PackingSamplerDrops, pool
  <2>6. CASE UNCHANGED vars BY <2>6, Zenon
  <2> HIDE DEF Cause
  <2> QED BY <1>1, <2>1, <2>2, <2>3, <2>4, <2>5, <2>6, Zenon DEF Next
<1>2. EvictedForCause <=> [][Cause]_vars BY Zenon DEF EvictedForCause
<1> HIDE DEF Cause
<1> QED BY <1>1, <1>2, PoolInvariantHolds, PTL DEF Spec
=============================================================================
