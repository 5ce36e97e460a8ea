CONSTANTS
  n1 = n1
  n2 = n2
  p2 = p2
  p3 = p3
  Nil = Nil
  Validators = {n1, p2, p3}
  Votes <- OneNodeVotes
  Node = {n1}
  Peer = {p2, p3}
  Proposers = {n1, p2}
  Vrf <- BothVrf
  MaxRound = 2
  MaxCrashes = 2
SPECIFICATION Spec
INVARIANTS TypeOK KnowsItsVotes NewRoundTimerHasCertificate CertificateIsUsed OneQuorumPending LocalTimerSet
PROPERTY NodesKeepPromise
