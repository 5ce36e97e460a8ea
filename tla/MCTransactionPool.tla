-------------------------- MODULE MCTransactionPool --------------------------
(***************************************************************************)
(* The transaction pool for TLC: two senders, a pool of two transactions,   *)
(* and transactions chosen so that batches grow, shrink and are replaced,   *)
(* accounts run out of balance and the pool overflows.                      *)
(***************************************************************************)
EXTENDS TransactionPool

Tx(s, n, p) == [sender |-> s, nonce |-> n, price |-> p, gas |-> 1, cost |-> 1, epoch |-> 0]

MCTransactions == {Tx("a", 0, 2), Tx("a", 0, 3), Tx("a", 1, 2), Tx("a", 2, 1), Tx("b", 0, 2)}
MCAccounts == {[nonce |-> 0, balance |-> 2], [nonce |-> 1, balance |-> 1]}
MCGenesis == [s \in {"a", "b"} |-> [nonce |-> 0, balance |-> 2]]
=============================================================================
