CONSTANTS
  Host = {h1}
  FirstVoter = h1
  NoHost = NoHost
  ProposalId = {a, b}
  MaxEpoch = 1
  MaxRound = 4
  MinTimeout = 3
  MaxTimeout = 3
  MaxRival = 3
  Epochs <- MCEpochs
  ElectedEpochs <- MCEpochs
  TimeoutRounds <- MCTimeoutRounds
  Proposals <- MCRivals
SPECIFICATION Spec
INVARIANTS DiskRemembers NoEquivocation
PROPERTIES TimeoutNotBelowVote VoteAboveTimeout KeepsPromise
