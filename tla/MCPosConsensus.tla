--------------------------- MODULE MCPosConsensus ---------------------------
(* A finite instance of PosConsensus: every block whose path from genesis  *)
(* is some set of rounds up to 4, so every fork and every gap of rounds.   *)
(* Block 1 is genesis; the blocks of round r are 2^(r-1) + k, one for each *)
(* possible parent k of a lower round.                                     *)
EXTENDS PosConsensus, TLC

MCBlocks == 1 .. 16

MCRound == <<0, 1, 2, 2, 3, 3, 3, 3, 4, 4, 4, 4, 4, 4, 4, 4>>

MCParent == <<1, 1, 1, 2, 1, 2, 3, 4, 1, 2, 3, 4, 5, 6, 7, 8>>

MCAncestors ==
  <<{1}, {1, 2}, {1, 3}, {1, 2, 4},
    {1, 5}, {1, 2, 6}, {1, 3, 7}, {1, 2, 4, 8},
    {1, 9}, {1, 2, 10}, {1, 3, 11}, {1, 2, 4, 12},
    {1, 5, 13}, {1, 2, 6, 14}, {1, 3, 7, 15}, {1, 2, 4, 8, 16}>>

\* One vote each, the vote being the validator itself.
MCVotes == [v \in Validators |-> {v}]

Symmetry == Permutations(Honest) \cup Permutations(Nodes)
=============================================================================
