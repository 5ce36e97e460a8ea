---------------------------- MODULE PackingBatch ----------------------------
(***************************************************************************)
(* The packing batch of one sender (crate cfx-packing-pool): transactions   *)
(* with continuous nonces that may go into one block, and the total of      *)
(* their gas limits, which the batch caches.  A transaction is a record     *)
(* with the fields sender, nonce, price, gas, cost and epoch.  The pool     *)
(* keeps one batch for a sender, NoBatch where it keeps none.               *)
(***************************************************************************)
EXTENDS Integers, Sequences, FiniteSetsExt

CONSTANTS address_gas_limit,   \* most gas of a batch of several transactions
          address_tx_count     \* most transactions of a batch

ASSUME BatchAssumption ==
  /\ address_gas_limit \in Nat
  /\ address_tx_count \in Nat \ {0}

NoBatch == [txs |-> <<>>, gas |-> 0]

\* The sum of the gas limits of the first n transactions.
GasOf(txs, n) ==
  LET sum[i \in 0..n] == IF i = 0 THEN 0 ELSE sum[i - 1] + txs[i].gas
  IN  sum[n]

\* Mutant of Prefix: the total is not updated when the batch is cut.
PrefixStaleGas(txs, n) == [txs |-> SubSeq(txs, 1, n), gas |-> GasOf(txs, Len(txs))]

Prefix(txs, n) == [txs |-> SubSeq(txs, 1, n), gas |-> GasOf(txs, n)]

NewBatch(tx) == [txs |-> <<tx>>, gas |-> tx.gas]

StartNonce(b) == b.txs[1].nonce

\* PackingPoolConfig::check_acceptable_batch: the length of the longest prefix
\* within both limits; a single transaction is acceptable whatever its gas.
Acceptable(txs) ==
  Max({k \in 1..Len(txs) : /\ k <= address_tx_count
                           /\ k = 1 \/ GasOf(txs, k) <= address_gas_limit})

\* PackingBatch::insert: the batch after the call, and whether it returned Ok.
BatchInsert(b, tx) ==
  LET start == StartNonce(b)
      n     == Len(b.txs)
      i     == tx.nonce - start + 1
      new   == [b.txs EXCEPT ![i] = tx]
      k     == Acceptable(new)
      front == <<tx>> \o b.txs
  IN  CASE \/ tx.nonce + 1 < start
           \/ tx.nonce + 1 = start /\ tx.price > b.txs[1].price
             -> [batch |-> NewBatch(tx), ok |-> TRUE]
        [] tx.nonce + 1 = start /\ tx.price <= b.txs[1].price
             -> [batch |-> Prefix(front, Acceptable(front)), ok |-> TRUE]
        [] tx.nonce > start + n
             -> [batch |-> b, ok |-> FALSE]
        [] tx.nonce = start + n
             -> IF \/ n >= address_tx_count
                   \/ b.txs[n].price > tx.price
                   \/ address_gas_limit < b.gas + tx.gas
                THEN [batch |-> b, ok |-> FALSE]
                ELSE [batch |-> [txs |-> Append(b.txs, tx), gas |-> b.gas + tx.gas],
                      ok |-> TRUE]
        [] start <= tx.nonce /\ tx.nonce < start + n
             -> IF \/ i > 1 /\ tx.price < b.txs[i - 1].price
                   \/ k < i
                THEN [batch |-> Prefix(b.txs, i - 1), ok |-> FALSE]
                ELSE IF i < n /\ b.txs[i + 1].price < tx.price
                     THEN [batch |-> Prefix(new, i), ok |-> TRUE]
                     ELSE [batch |-> Prefix(new, k), ok |-> TRUE]

\* PackingPool::insert for the sender whose batch is b.
PoolInsert(b, tx) ==
  IF b = NoBatch THEN [batch |-> NewBatch(tx), ok |-> TRUE] ELSE BatchInsert(b, tx)

\* PackingBatch::split_off_by_nonce: where the batch is cut; it works on
\* indices, not on the nonces of the transactions.
CutIndex(b, nonce) ==
  IF nonce < StartNonce(b) THEN 0
  ELSE IF nonce >= StartNonce(b) + Len(b.txs) THEN Len(b.txs)
  ELSE nonce - StartNonce(b)

\* Mutant of SplitOffSuffix: the transaction at the nonce stays.
SplitOffAfter(b, nonce) ==
  IF b = NoBatch \/ CutIndex(b, nonce + 1) = Len(b.txs) THEN b
  ELSE Prefix(b.txs, CutIndex(b, nonce + 1))

\* PackingPool::split_off_suffix: only the transactions below the nonce stay.
SplitOffSuffix(b, nonce) ==
  IF b = NoBatch \/ CutIndex(b, nonce) = Len(b.txs) THEN b
  ELSE Prefix(b.txs, CutIndex(b, nonce))

\* PackingPool::split_off_prefix: only the transactions from the nonce on stay.
SplitOffPrefix(b, nonce) ==
  IF b = NoBatch \/ CutIndex(b, nonce) = 0 THEN b
  ELSE LET rest == SubSeq(b.txs, CutIndex(b, nonce) + 1, Len(b.txs))
       IN  Prefix(rest, Len(rest))
=============================================================================
