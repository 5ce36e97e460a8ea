CONSTANTS
  Host = {h1, h2}
  FirstVoter = h1
  NoHost = NoHost
  ProposalId = {a, b}
  MaxEpoch = 2
  MaxRound = 1
  MinTimeout = 1
  MaxTimeout = 1
  MaxRival = 1
  Epochs <- MCEpochs
  ElectedEpochs <- MCEpochs
  TimeoutRounds <- MCTimeoutRounds
  Proposals <- MCProposals
SPECIFICATION Spec
SYMMETRY Symmetry
INVARIANTS SignsFromDisk OneVoter
PROPERTIES KeepsPromise
