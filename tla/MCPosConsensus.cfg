CONSTANTS
  Validators = {v1, v2, v3, v4}
  Byzantine = {v4}
  Votes <- MCVotes
  Nodes = {n1, n2}
  Genesis = 1
  Blocks <- MCBlocks
  Round <- MCRound
  Parent <- MCParent
  Ancestors <- MCAncestors
SPECIFICATION Spec
SYMMETRY Symmetry
CHECK_DEADLOCK FALSE
INVARIANTS OneCertificatePerRound CommitIsFinal LedgersAgree
PROPERTY LedgerGrows
