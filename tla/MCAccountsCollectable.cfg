SPECIFICATION Spec
CONSTANTS
  Senders = {"a", "b"}
  Transactions <- MCTransactions
  Accounts <- MCAccounts
  Genesis <- MCGenesis
  capacity = 2
  address_gas_limit = 2
  address_tx_count = 2
  TRANSACTION_DEFAULT_EPOCH_BOUND = 1
  FURTHEST_FUTURE_TRANSACTION_NONCE_OFFSET = 2
  MaxCallers = 1
  MaxBuffer = 1
  MaxEvents = 4
INVARIANT AccountsCollectable
CHECK_DEADLOCK FALSE
