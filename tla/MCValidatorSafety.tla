------------------------- MODULE MCValidatorSafety -------------------------
(* Finite instances of ValidatorSafety for TLC.                            *)
EXTENDS ValidatorSafety, TLC

CONSTANTS MaxEpoch, MaxRound, MinTimeout, MaxTimeout, MaxRival

MCEpochs == 1 .. MaxEpoch
MCRounds == 1 .. MaxRound
MCTimeoutRounds == MinTimeout .. MaxTimeout

\* The rounds of the well-formed requests up to round 4: of the block, of the
\* block it extends and of the one that extends.  TLC evaluates the set at every
\* use, and is much faster with the set written out.
Chains ==
  {<<1, 0, 0>>, <<2, 0, 0>>, <<2, 1, 0>>, <<3, 0, 0>>, <<3, 1, 0>>, <<3, 2, 0>>,
   <<3, 2, 1>>, <<4, 0, 0>>, <<4, 1, 0>>, <<4, 2, 0>>, <<4, 2, 1>>, <<4, 3, 0>>,
   <<4, 3, 1>>, <<4, 3, 2>>}
Request(epoch, chain, id) ==
  [epoch |-> epoch, round |-> chain[1], one_chain_round |-> chain[2],
   two_chain_round |-> chain[3], id |-> id]

ASSUME ChainsComplete ==
  /\ MaxRound <= 4
  /\ Chains = {c \in (1 .. 4) \X (0 .. 4) \X (0 .. 4) :
                 WellFormed(Request(1, c, CHOOSE id \in ProposalId : TRUE))}

\* Every well-formed request with rounds up to MaxRound.
MCProposals ==
  {Request(e, c, id) : e \in MCEpochs, c \in {d \in Chains : d[1] <= MaxRound},
                       id \in ProposalId}

\* The same with rivals, requests for other blocks, up to round MaxRival only.
MCRivals ==
  {p \in MCProposals : p.round <= MaxRival \/ p.id = CHOOSE id \in ProposalId : TRUE}

Symmetry == Permutations(ProposalId)
=============================================================================
