--------------------------- MODULE TransactionPool ---------------------------
(***************************************************************************)
(* The transaction pool (transaction_pool/mod.rs, transaction_pool_inner.rs, *)
(* deferred_pool, garbage_collector.rs) of one space.  Five parties share   *)
(* it: RPC and network threads that insert transactions, the consensus      *)
(* worker that reports packed and orphaned ones, the threads the executor   *)
(* spawns to report the accounts an epoch modified, the miner, and an       *)
(* operator who may clear the pool.                                         *)
(*                                                                          *)
(* The pool proper is guarded by one lock (inner).  What makes it hard is   *)
(* outside the lock: the state a caller reads is taken before the lock, the *)
(* executor's threads run in any order, and the two request buffers have    *)
(* locks of their own.  Under the lock an insertion into a full pool runs   *)
(* the garbage collector, one victim a step here; `owner` holds the lock    *)
(* meanwhile and no other action touches what it guards.                    *)
(***************************************************************************)
EXTENDS NoncePool

CONSTANTS Senders,           \* accounts that send transactions
          Transactions,      \* the transactions of the instance
          Accounts,          \* the [nonce, balance] pairs the state can hold
          Genesis,           \* the state at the start, in [Senders -> Accounts]
          capacity,          \* most transactions the pool keeps
          FURTHEST_FUTURE_TRANSACTION_NONCE_OFFSET,
          MaxCallers,        \* bound: insertions between snapshot and lock
          MaxBuffer,         \* bound: requests in each of the two buffers
          MaxEvents          \* bound: calls from outside, of whatever kind

ASSUME PoolAssumption ==
  /\ \A t \in Transactions :
       /\ t.sender \in Senders
       /\ t.nonce \in Nat /\ t.price \in Nat /\ t.gas \in Nat
  /\ \A a \in Accounts : a.nonce \in Nat
  /\ capacity \in Nat
  /\ Genesis \in [Senders -> Accounts]

VARIABLES buckets,                    \* deferred_pool.buckets: {} for no bucket
          packing_pool,               \* deferred_pool.packing_pool
          ready_nonces_and_balances,  \* the cached account of a sender
          garbage_collector,          \* its nodes, without the timestamps
          txs,                        \* TransactionSet
          unpacked_transaction_count,
          best_executed_state,        \* what get_best_state_provider returns
          executed,                   \* the states executed so far
          set_tx_requests, recycle_tx_requests,
          callers,                    \* insertions that hold a snapshot
          notifier,                   \* notify_new_best_info before the lock
          notices,                    \* spawned notify_modified_accounts calls
          executor,                   \* the state to become the best one, if any
          owner,                      \* who holds `inner`
          jobs,                       \* what is left for the holder to insert
          skipped,                    \* skipped_self_node
          events                      \* calls from outside so far

pool == <<buckets, packing_pool, ready_nonces_and_balances, garbage_collector,
          txs, unpacked_transaction_count>>
chain == <<best_executed_state, executed, notices, executor>>
requests == <<set_tx_requests, recycle_tx_requests, notifier>>
vars == <<pool, chain, requests, callers, owner, jobs, skipped, events>>

Infos == [tx : Transactions, packed : BOOLEAN]
Jobs == [tx : Transactions, packed : BOOLEAN, force : BOOLEAN, account : Accounts]
Nodes == [count : Nat, ready : BOOLEAN, price : Nat]
Free == owner = "none"

Put(f, k, v) == [x \in DOMAIN f \cup {k} |-> IF x = k THEN v ELSE f[x]]
Without(f, k) == [x \in DOMAIN f \ {k} |-> f[x]]
NoEntries == [x \in {} |-> x]

Deferred == UNION {buckets[s] : s \in Senders}

\* Mutant of IsFull: the pool is full only beyond its capacity.
IsOverfull == Cardinality(Deferred) > capacity

IsFull == Cardinality(Deferred) >= capacity

Init ==
  /\ buckets = [s \in Senders |-> {}]
  /\ packing_pool = [s \in Senders |-> NoBatch]
  /\ ready_nonces_and_balances = NoEntries
  /\ garbage_collector = NoEntries
  /\ txs = {}
  /\ unpacked_transaction_count = 0
  /\ best_executed_state = Genesis
  /\ executed = {Genesis}
  /\ set_tx_requests = <<>>
  /\ recycle_tx_requests = <<>>
  /\ callers = {}
  /\ notifier = <<>>
  /\ notices = {}
  /\ executor = <<>>
  /\ owner = "none"
  /\ jobs = <<>>
  /\ skipped = {}
  /\ events = 0
-----------------------------------------------------------------------------
\* Mutant of NodeOf: the transaction at the account's nonce counts as executed.
NodeOfInclusive(bucket, nonce, ready) ==
  [count |-> CountLess(bucket, nonce + 1), ready |-> ready,
   price |-> LowestInfo(bucket).tx.price]

\* Mutant of NodeOf: the flag of a ready account is not set.
NodeOfNotReady(bucket, nonce, ready) ==
  [count |-> CountLess(bucket, nonce), ready |-> FALSE,
   price |-> LowestInfo(bucket).tx.price]

(* The node of an account in the garbage collector, as                      *)
(* recalculate_readiness computes it.                                       *)
NodeOf(bucket, nonce, ready) ==
  [count |-> CountLess(bucket, nonce), ready |-> ready,
   price |-> LowestInfo(bucket).tx.price]

(* update_nonce_and_balance and recalculate_readiness for a sender whose    *)
(* bucket is `bucket` and whose batch is `batch`: the cached account, the   *)
(* batch and the node of the sender are computed anew.  Nothing happens to  *)
(* a sender the pool does not know.                                         *)
Recalculate(s, bucket, batch, account) ==
  LET r == Readiness(bucket, account.nonce, account.balance)
  IN  IF bucket = {}
      THEN UNCHANGED <<packing_pool, ready_nonces_and_balances, garbage_collector>>
      ELSE /\ ready_nonces_and_balances' = Put(ready_nonces_and_balances, s, account)
           /\ packing_pool' = [packing_pool EXCEPT ![s] = RecalculateBatch(bucket, batch, r)]
           /\ garbage_collector' =
                Put(garbage_collector, s, NodeOf(bucket, account.nonce, r.ready))

(* The holder of the lock is done with the first of its jobs.               *)
NextJob ==
  /\ jobs' = Tail(jobs)
  /\ owner' = IF Len(jobs) = 1 THEN "none" ELSE owner
  /\ skipped' = {}

Job == Head(jobs)

(* The early returns of insert_transaction_with_readiness_check.            *)
Refused(j) ==
  \/ j.tx.nonce >= j.account.nonce + FURTHEST_FUTURE_TRANSACTION_NONCE_OFFSET
  \/ ~j.packed /\ j.tx.nonce < j.account.nonce
  \/ ~j.packed /\ ~j.force /\ j.tx.cost > j.account.balance

\* Mutant of SameNonce: packed transactions are overlooked.
SameNonceUnpacked(j) ==
  {i \in InfoAt(buckets[j.tx.sender], j.tx.nonce) : ~i.packed}

SameNonce(j) == InfoAt(buckets[j.tx.sender], j.tx.nonce)

\* Mutant of Uncounted: packed transactions are subtracted too.
UncountedAlways(info) == IF unpacked_transaction_count = 0 THEN 0 ELSE 1

(* The checked_sub of a transaction that leaves the pool.                   *)
Uncounted(info) == IF info.packed \/ unpacked_transaction_count = 0 THEN 0 ELSE 1

(* insert_transaction_with_readiness_check refuses the transaction.         *)
RefuseTransaction ==
  /\ ~Free
  /\ Refused(Job)
  /\ NextJob
  /\ UNCHANGED <<pool, chain, requests, callers, events>>

(* A transaction with the sender and the nonce is there already: should_    *)
(* replace decides; the batch loses what is at or above the nonce.          *)
ReplaceTransaction ==
  LET j      == Job
      s      == j.tx.sender
      old    == CHOOSE i \in SameNonce(j) : TRUE
      new    == [tx |-> j.tx, packed |-> j.packed]
      bucket == (buckets[s] \ {old}) \cup {new}
  IN  /\ ~Free
      /\ ~Refused(j)
      /\ SameNonce(j) # {}
      /\ NextJob
      /\ IF ShouldReplace(new, old, j.force)
         THEN /\ buckets' = [buckets EXCEPT ![s] = bucket]
              /\ txs' = (txs \ {old.tx}) \cup {j.tx}
              /\ unpacked_transaction_count' =
                   unpacked_transaction_count - Uncounted(old)
                     + (IF j.packed THEN 0 ELSE 1)
              /\ Recalculate(s, bucket,
                             SplitOffSuffix(packing_pool[s], j.tx.nonce), j.account)
         ELSE UNCHANGED pool
      /\ UNCHANGED <<chain, requests, callers, events>>

(* The nodes top() may return: most executed transactions first, then the   *)
(* accounts without a ready transaction, then the lowest first price.  The  *)
(* timestamps that break the remaining ties are abstracted to a choice.     *)
Before(m, n) ==
  \/ m.count > n.count
  \/ m.count = n.count /\ ~m.ready /\ n.ready
  \/ m.count = n.count /\ m.ready = n.ready /\ m.price < n.price

IsTop(v) ==
  /\ v \in DOMAIN garbage_collector
  /\ \A s \in DOMAIN garbage_collector :
       ~Before(garbage_collector[s], garbage_collector[v])

(* The loop of collect_garbage goes on: the pool is full and a node is left *)
Collecting ==
  /\ ~Free
  /\ ~Refused(Job)
  /\ SameNonce(Job) = {}
  /\ IsFull
  /\ DOMAIN garbage_collector # {}

(* The node of the new transaction's own sender, nothing of which has been  *)
(* executed, is set aside.                                                  *)
SkipSelf(v) ==
  /\ Collecting
  /\ IsTop(v)
  /\ buckets[v] # {}
  /\ garbage_collector[v].count = 0
  /\ v = Job.tx.sender
  /\ skipped' = {[sender |-> v, node |-> garbage_collector[v]]}
  /\ garbage_collector' = Without(garbage_collector, v)
  /\ UNCHANGED <<buckets, packing_pool, ready_nonces_and_balances, txs,
                 unpacked_transaction_count, chain, requests, callers, owner,
                 jobs, events>>

(* The best victim is ready and pays no less than the new transaction: the  *)
(* loop returns, and the insertion fails because the pool is still full.    *)
GiveUp(v) ==
  /\ Collecting
  /\ IsTop(v)
  /\ buckets[v] # {}
  /\ garbage_collector[v].count = 0
  /\ v # Job.tx.sender
  /\ garbage_collector[v].ready
  /\ garbage_collector[v].price >= Job.tx.price
  /\ NextJob
  /\ UNCHANGED <<pool, chain, requests, callers, events>>

(* The lowest transaction of the victim is evicted; a node whose account is *)
(* not in the pool is only removed.                                         *)
Evict(v) ==
  LET node   == garbage_collector[v]
      gone   == LowestInfo(buckets[v])
      bucket == buckets[v] \ {gone}
      batch  == IF bucket = {} THEN NoBatch
                ELSE SplitOffPrefix(packing_pool[v], gone.tx.nonce + 1)
  IN  /\ Collecting
      /\ IsTop(v)
      /\ buckets[v] # {} /\ node.count = 0 =>
           /\ v # Job.tx.sender
           /\ ~node.ready \/ node.price < Job.tx.price
      /\ IF buckets[v] = {}
         THEN /\ garbage_collector' = Without(garbage_collector, v)
              /\ UNCHANGED <<buckets, packing_pool, ready_nonces_and_balances, txs,
                             unpacked_transaction_count>>
         ELSE /\ buckets' = [buckets EXCEPT ![v] = bucket]
              /\ packing_pool' = [packing_pool EXCEPT ![v] = batch]
              /\ unpacked_transaction_count' =
                   unpacked_transaction_count - Uncounted(gone)
              /\ ready_nonces_and_balances' =
                   IF bucket = {} THEN Without(ready_nonces_and_balances, v)
                   ELSE ready_nonces_and_balances
              /\ garbage_collector' =
                   IF bucket = {} THEN Without(garbage_collector, v)
                   ELSE [garbage_collector EXCEPT ![v] =
                           [count |-> IF node.count > 0 THEN node.count - 1 ELSE 0,
                            ready |-> batch # NoBatch,
                            price |-> LowestInfo(bucket).tx.price]]
              /\ txs' = txs \ {gone.tx}
      /\ UNCHANGED <<chain, requests, callers, owner, jobs, skipped, events>>

(* The loop is over without a return: the node set aside is put back; the   *)
(* insertion fails if the pool is full, and is carried out otherwise.       *)
AddTransaction ==
  LET j      == Job
      s      == j.tx.sender
      bucket == buckets[s] \cup {[tx |-> j.tx, packed |-> j.packed]}
      back   == [x \in DOMAIN garbage_collector \cup {k.sender : k \in skipped} |->
                   IF x \in DOMAIN garbage_collector THEN garbage_collector[x]
                   ELSE (CHOOSE k \in skipped : k.sender = x).node]
  IN  /\ ~Free
      /\ ~Refused(j)
      /\ SameNonce(j) = {}
      /\ ~IsFull \/ DOMAIN garbage_collector = {}
      /\ NextJob
      /\ IF IsFull
         THEN /\ garbage_collector' = back
              /\ UNCHANGED <<buckets, packing_pool, ready_nonces_and_balances, txs,
                             unpacked_transaction_count>>
         ELSE /\ buckets' = [buckets EXCEPT ![s] = bucket]
              /\ txs' = txs \cup {j.tx}
              /\ unpacked_transaction_count' =
                   unpacked_transaction_count + (IF j.packed THEN 0 ELSE 1)
              /\ Recalculate(s, bucket, packing_pool[s], j.account)
      /\ UNCHANGED <<chain, requests, callers, events>>
-----------------------------------------------------------------------------
(* A call from outside: every call counts against the bound.                *)
Event == events < MaxEvents /\ events' = events + 1

(* insert_new_transactions up to get_best_state_provider: what it will know *)
(* of the sender's account is fixed before it has the lock.                 *)
Snapshot(tx) ==
  /\ Cardinality(callers) < MaxCallers
  /\ Event
  /\ callers' = callers \cup
       {[tx |-> tx, packed |-> FALSE, force |-> FALSE,
         account |-> best_executed_state[tx.sender]]}
  /\ UNCHANGED <<pool, chain, requests, owner, jobs, skipped>>

(* The insertion gets the lock; a transaction already in the pool is left.  *)
CallerLocks(c) ==
  /\ Free
  /\ callers' = callers \ {c}
  /\ IF c.tx \in txs THEN UNCHANGED <<owner, jobs>>
     ELSE owner' = "caller" /\ jobs' = <<c>>
  /\ UNCHANGED <<pool, chain, requests, skipped, events>>

(* set_tx_packed and recycle_transactions push to their buffers; neither    *)
(* gets the buffer's lock while notify_new_best_info holds it.              *)
Notifying == notifier # <<>> \/ owner = "notifier"

SetTxPacked(tx) ==
  /\ ~Notifying
  /\ Event
  /\ Len(set_tx_requests) < MaxBuffer
  /\ set_tx_requests' = Append(set_tx_requests, tx)
  /\ UNCHANGED <<pool, chain, recycle_tx_requests, notifier, callers, owner, jobs,
                 skipped>>

RecycleTransactions(tx) ==
  /\ ~Notifying
  /\ Event
  /\ Len(recycle_tx_requests) < MaxBuffer
  /\ recycle_tx_requests' = Append(recycle_tx_requests, tx)
  /\ UNCHANGED <<pool, chain, set_tx_requests, notifier, callers, owner, jobs, skipped>>

(* The jobs notify_new_best_info makes of a buffer it pops to the end.      *)
JobsOf(buffer, packed) ==
  [i \in 1..Len(buffer) |->
     LET tx == buffer[Len(buffer) + 1 - i]
     IN  [tx |-> tx, packed |-> packed, force |-> ~packed,
          account |-> best_executed_state[tx.sender]]]

(* notify_new_best_info up to its snapshot of the state.                    *)
NotifyNewBestInfo ==
  /\ ~Notifying
  /\ set_tx_requests \o recycle_tx_requests # <<>>
  /\ notifier' = JobsOf(set_tx_requests, TRUE) \o JobsOf(recycle_tx_requests, FALSE)
  /\ set_tx_requests' = <<>>
  /\ recycle_tx_requests' = <<>>
  /\ UNCHANGED <<pool, chain, callers, owner, jobs, skipped, events>>

NotifierLocks ==
  /\ Free
  /\ notifier # <<>>
  /\ owner' = "notifier"
  /\ jobs' = notifier
  /\ notifier' = <<>>
  /\ UNCHANGED <<pool, chain, set_tx_requests, recycle_tx_requests, callers,
                 skipped, events>>
-----------------------------------------------------------------------------
(* notify_txpool of the executor: the thread that will report the modified  *)
(* accounts is spawned, then the state becomes the best executed one.       *)
NotifyTxpool(s, account) ==
  LET state == [best_executed_state EXCEPT ![s] = account]
  IN  /\ executor = <<>>
      /\ Event
      /\ account # best_executed_state[s]
      /\ notices' = notices \cup {[sender |-> s, account |-> account, epoch |-> events]}
      /\ executor' = <<state>>
      /\ executed' = executed \cup {state}
      /\ UNCHANGED <<pool, best_executed_state, requests, callers, owner, jobs,
                     skipped>>

SetBestExecutedState ==
  /\ executor # <<>>
  /\ best_executed_state' = executor[1]
  /\ executor' = <<>>
  /\ UNCHANGED <<pool, executed, notices, requests, callers, owner, jobs, skipped,
                 events>>

(* update_on_skipped_execution: the pivot chain has switched to an epoch    *)
(* executed before; the pool gets its state and no report of the accounts.  *)
UpdateOnSkippedExecution(state) ==
  /\ executor = <<>>
  /\ Event
  /\ best_executed_state' = state
  /\ UNCHANGED <<pool, executed, notices, executor, requests, callers, owner, jobs,
                 skipped>>

(* A spawned thread runs notify_modified_accounts, whichever gets the lock. *)
NotifyModifiedAccounts(n) ==
  /\ Free
  /\ notices' = notices \ {n}
  /\ Recalculate(n.sender, buckets[n.sender], packing_pool[n.sender], n.account)
  /\ UNCHANGED <<buckets, txs, unpacked_transaction_count, best_executed_state,
                 executed, executor, requests, callers, owner, jobs, skipped, events>>

(* packing_sampler finds a transaction that can never be packed: its batch  *)
(* is cut before it.                                                        *)
PackingSamplerDrops(s, i) ==
  /\ Free
  /\ packing_pool' = [packing_pool EXCEPT ![s] =
                        SplitOffSuffix(@, packing_pool[s].txs[i].nonce)]
  /\ UNCHANGED <<buckets, ready_nonces_and_balances, garbage_collector, txs,
                 unpacked_transaction_count, chain, requests, callers, owner, jobs,
                 skipped, events>>

ClearTxPool ==
  /\ Free
  /\ Event
  /\ buckets' = [s \in Senders |-> {}]
  /\ packing_pool' = [s \in Senders |-> NoBatch]
  /\ ready_nonces_and_balances' = NoEntries
  /\ garbage_collector' = NoEntries
  /\ txs' = {}
  /\ unpacked_transaction_count' = 0
  /\ UNCHANGED <<chain, requests, callers, owner, jobs, skipped>>

Next ==
  \/ \E tx \in Transactions :
       Snapshot(tx) \/ SetTxPacked(tx) \/ RecycleTransactions(tx)
  \/ \E c \in callers : CallerLocks(c)
  \/ NotifyNewBestInfo
  \/ NotifierLocks
  \/ RefuseTransaction
  \/ ReplaceTransaction
  \/ \E v \in Senders : SkipSelf(v) \/ GiveUp(v) \/ Evict(v)
  \/ AddTransaction
  \/ \E s \in Senders, account \in Accounts : NotifyTxpool(s, account)
  \/ SetBestExecutedState
  \/ \E state \in executed : UpdateOnSkippedExecution(state)
  \/ \E n \in notices : NotifyModifiedAccounts(n)
  \/ \E s \in Senders : \E i \in 1..Len(packing_pool[s].txs) : PackingSamplerDrops(s, i)
  \/ ClearTxPool

Spec == Init /\ [][Next]_vars
-----------------------------------------------------------------------------
TypeOK ==
  /\ buckets \in [Senders -> SUBSET Infos]
  /\ DOMAIN packing_pool = Senders
  /\ ready_nonces_and_balances \in
       [DOMAIN ready_nonces_and_balances -> Accounts]
  /\ garbage_collector \in [DOMAIN garbage_collector -> Nodes]
  /\ txs \in SUBSET Transactions
  /\ unpacked_transaction_count \in Nat
  /\ best_executed_state \in [Senders -> Accounts]
  /\ executed \in SUBSET [Senders -> Accounts]
  /\ executor \in Seq(executed)
  /\ set_tx_requests \in Seq(Transactions)
  /\ recycle_tx_requests \in Seq(Transactions)
  /\ callers \in SUBSET Jobs
  /\ notifier \in Seq(Jobs)
  /\ notices \in SUBSET [sender : Senders, account : Accounts, epoch : Nat]
  /\ owner \in {"none", "caller", "notifier"}
  /\ jobs \in Seq(Jobs)
  /\ Free <=> jobs = <<>>
  /\ skipped \in SUBSET [sender : Senders, node : Nodes]
  /\ events \in Nat

\* The two indexes never part: the hash map `txs` holds exactly the
\* transactions of the nonce pools, each under its sender and at most one for
\* a nonce, whatever insertions, replacements, evictions and failed insertions
\* came before (transaction_pool_inner.rs: "It should contain the same
\* transaction set as `deferred_pool`.").
IndexesAgree ==
  /\ txs = {i.tx : i \in Deferred}
  /\ \A s \in Senders : \A i, k \in buckets[s] :
       /\ i.tx.sender = s
       /\ i.tx.nonce = k.tx.nonce => i = k

\* The counter behind the pool's load metrics and checked_sub never drifts
\* from the transactions it counts, though five places adjust it.
UnpackedCounted ==
  unpacked_transaction_count = Cardinality({i \in Deferred : ~i.packed})

\* Whatever the miner can pack is in the nonce pools, as the same transaction
\* (deferred_pool/mod.rs: "The transactions in the `packing_pool` should always
\* be a subset of the transactions in the nonce pools for all addresses.").
PackingWithinPool ==
  \A s \in Senders : \A i \in 1..Len(packing_pool[s].txs) :
    \E info \in buckets[s] : info.tx = packing_pool[s].txs[i]

\* Every batch keeps the assumptions of PackingBatch through all insertions,
\* replacements and cuts: continuous nonces, prices that do not decrease, the
\* cached gas total exact, and both limits of an address respected.
BatchWellFormed ==
  \A s \in Senders :
    LET b == packing_pool[s]
        n == Len(b.txs)
    IN  /\ \A i \in 1..(n - 1) :
             /\ b.txs[i + 1].nonce = b.txs[i].nonce + 1
             /\ b.txs[i].price <= b.txs[i + 1].price
        /\ b.gas = GasOf(b.txs, n)
        /\ n <= address_tx_count
        /\ n > 1 => b.gas <= address_gas_limit

\* A node of the garbage collector tells the truth about its account when it is
\* used, between two recalculations and across evictions: how many of its
\* transactions lie below the cached nonce, the price of its lowest one, and
\* that it has something ready if the miner may pack anything of it.  The
\* assertion `assert_eq!(victim.count, 0)` of collect_garbage rests on it.
GcDescribesAccount ==
  /\ DOMAIN ready_nonces_and_balances = {s \in Senders : buckets[s] # {}}
  /\ \A s \in DOMAIN garbage_collector :
       LET node == garbage_collector[s]
       IN  /\ s \in DOMAIN ready_nonces_and_balances
           /\ node.count = CountLess(buckets[s], ready_nonces_and_balances[s].nonce)
           /\ node.price = LowestInfo(buckets[s]).tx.price
           /\ packing_pool[s] # NoBatch => node.ready

\* The pool never holds more than its capacity, recycled and packed
\* transactions included (the comment of
\* insert_transaction_without_readiness_check: "the new inserting will fail if
\* tx_pool is full (even if `force` is true)").
WithinCapacity == Cardinality(Deferred) <= capacity

\* A transaction leaves the pool only for cause.  Unless the operator clears
\* the pool, the step that removes it has the lock for a new transaction, and
\* either that one takes its nonce, or the pool was full and the removed one is
\* already executed as far as the pool knows, or it belongs to somebody else
\* and either nothing of that account is ready or it pays less.
EvictedForCause ==
  [][~ClearTxPool =>
       \A t \in txs \ txs' :
         LET new == Job.tx
         IN  /\ ~Free
             /\ \/ t.sender = new.sender /\ t.nonce = new.nonce
                \/ /\ IsFull
                   /\ \/ t.nonce < ready_nonces_and_balances[t.sender].nonce
                      \/ /\ t.sender # new.sender
                         /\ \/ packing_pool[t.sender] = NoBatch
                            \/ t.price < new.price]_vars

\* Between two operations every account with transactions has a node in the
\* garbage collector, so that its transactions can be collected when the pool
\* is full (transaction_pool_inner.rs: "Insert back skipped nodes to keep
\* `garbage_collector` unchanged.").
AccountsCollectable ==
  Free => \A s \in Senders : buckets[s] # {} => s \in DOMAIN garbage_collector
=============================================================================
