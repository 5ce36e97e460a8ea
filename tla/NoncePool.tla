------------------------------ MODULE NoncePool ------------------------------
(***************************************************************************)
(* The nonce pool of one sender (transaction_pool/nonce_pool): its          *)
(* transactions, at most one for a nonce, each with the tag `packed`.  A    *)
(* pool is a set of records [tx, packed].  The treap the code keeps them in *)
(* answers range queries; the operators give the answers.                   *)
(***************************************************************************)
EXTENDS PackingBatch

CONSTANT TRANSACTION_DEFAULT_EPOCH_BOUND

\* The result of recalculate_readiness_with_local_info when nothing is ready.
NotReady == [ready |-> FALSE]

InfosFrom(pool, nonce) == {i \in pool : i.tx.nonce >= nonce}

InfoAt(pool, nonce) == {i \in pool : i.tx.nonce = nonce}

LowestInfo(pool) ==
  CHOOSE i \in pool : \A k \in pool : i.tx.nonce <= k.tx.nonce

CountLess(pool, nonce) == Cardinality({i \in pool : i.tx.nonce < nonce})

\* The cost of the transactions with nonces lo to hi.
CostWithin(pool, lo, hi) ==
  MapThenSumSet(LAMBDA i : i.tx.cost,
                {i \in pool : lo <= i.tx.nonce /\ i.tx.nonce <= hi})

\* TxWithReadyInfo::compute_next_price: what a replacement has to offer.
NextPrice(price) ==
  IF price < 100 THEN price + 1 ELSE price + (price \div 100) * 2

\* TxWithReadyInfo::should_replace.
ShouldReplace(new, old, force) ==
  \/ force
  \/ /\ ~old.packed
     /\ \/ new.packed
        \/ new.tx.epoch > old.tx.epoch + TRANSACTION_DEFAULT_EPOCH_BOUND
        \/ new.tx.price >= NextPrice(old.tx.price)

\* NoncePoolMap::continous_ready_nonce: the last nonce of the unbroken run of
\* unpacked transactions behind `start` that the rest of the balance pays for.
ContinuousReadyNonce(pool, start, rest) ==
  Max({start} \cup
      {n \in {i.tx.nonce : i \in InfosFrom(pool, start)} :
         /\ \A m \in (start + 1)..n : \E i \in InfoAt(pool, m) : ~i.packed
         /\ CostWithin(pool, start + 1, n) <= rest})

\* NoncePool::recalculate_readiness_with_local_info: the first unpacked
\* transaction from the account's nonce on and the last nonce that is ready
\* with it; nothing if a nonce before it is missing or the balance is short.
Readiness(pool, nonce, balance) ==
  LET unpacked == {i \in InfosFrom(pool, nonce) : ~i.packed}
      first    == LowestInfo(unpacked).tx
      upTo     == {i \in InfosFrom(pool, nonce) : i.tx.nonce <= first.nonce}
      cost     == CostWithin(pool, nonce, first.nonce)
  IN  IF \/ unpacked = {}
         \/ Cardinality(upTo) - 1 # first.nonce - nonce
         \/ cost > balance
      THEN NotReady
      ELSE [ready |-> TRUE, first |-> first,
            last  |-> ContinuousReadyNonce(pool, first.nonce, balance - cost)]

\* NoncePool::make_packing_batch: the loop looks at last_valid_nonce after the
\* insertion, for the nonce that would follow.
MakePackingBatch(pool, first, lastValid) ==
  LET top == Max({i.tx.nonce : i \in pool})
      batch[n \in first.nonce..top] ==
        IF n = first.nonce THEN [batch |-> NewBatch(first), go |-> TRUE]
        ELSE LET prev == batch[n - 1]
                 here == InfoAt(pool, n)
                 res  == BatchInsert(prev.batch, LowestInfo(here).tx)
             IN  IF ~prev.go \/ here = {}
                 THEN [prev EXCEPT !.go = FALSE]
                 ELSE [batch |-> res.batch, go |-> res.ok /\ n + 1 <= lastValid]
  IN  batch[top].batch

\* The loop of DeferredPool::recalculate_readiness_with_local_info that puts
\* the transactions with nonces from..lastValid into the packing pool.
ExtendBatch(pool, b, from, lastValid) ==
  LET grown[n \in (from - 1)..lastValid] ==
        IF n = from - 1 THEN [batch |-> b, go |-> TRUE]
        ELSE LET prev == grown[n - 1]
                 here == InfoAt(pool, n)
                 res  == PoolInsert(prev.batch, LowestInfo(here).tx)
             IN  IF ~prev.go \/ here = {} THEN prev
                 ELSE [batch |-> res.batch, go |-> res.ok]
  IN  grown[lastValid].batch

\* DeferredPool::recalculate_readiness_with_local_info: the sender's batch
\* after the call; r is the readiness of its pool.
RecalculateBatch(pool, b, r) ==
  IF ~r.ready THEN NoBatch
  ELSE IF b = NoBatch \/ StartNonce(b) > r.first.nonce
  THEN MakePackingBatch(pool, r.first, r.last)
  ELSE LET last == b.txs[Len(b.txs)].nonce
           cut  == IF StartNonce(b) < r.first.nonce
                   THEN SplitOffPrefix(b, r.first.nonce) ELSE b
       IN  CASE last > r.last -> SplitOffSuffix(cut, r.last + 1)
             [] last < r.last -> ExtendBatch(pool, cut, last, r.last)
             [] last = r.last -> cut
=============================================================================
