SPECIFICATION Spec
CONSTANTS
  Blocks = {1, 2, 3, 4, 5, 6, 7, 8, 9, 10}
  Genesis = 1
  Round <- MCRound
  Parent <- MCParent
  Ancestors <- MCAncestors
  TimeoutRounds = {1, 3}
  MaxPruned = 1
INVARIANTS
  TypeOK
  AlwaysRecoverable
  CommitNeverPanics
  RestartKeepsCertificates
  TreeExecuted
  HqcOnTree
  CanServeChain
