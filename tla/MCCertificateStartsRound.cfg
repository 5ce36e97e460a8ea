CONSTANTS
  n1 = n1
  n2 = n2
  p2 = p2
  p3 = p3
  Nil = Nil
  Validators = {n1, n2, p2}
  Votes <- UnevenVotes
  Node = {n1, n2}
  Peer = {p2}
  Proposers = {}
  Vrf <- NoVrf
  MaxRound = 2
  MaxCrashes = 0
SPECIFICATION FairSpec
PROPERTY CertificateStartsRound
