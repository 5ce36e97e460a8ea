CONSTANTS
  n1 = n1
  n2 = n2
  p2 = p2
  p3 = p3
  Nil = Nil
  Validators = {n1, n2}
  Votes <- TwoNodeVotes
  Node = {n1, n2}
  Peer = {}
  Proposers = {}
  Vrf <- NoVrf
  MaxRound = 3
  MaxCrashes = 1
SPECIFICATION FairSpec
PROPERTY RoundsAdvance
