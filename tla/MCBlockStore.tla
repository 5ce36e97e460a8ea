---------------------------- MODULE MCBlockStore ----------------------------
(***************************************************************************)
(* A chain 1 - 2 - 3 - 4 - 5 - 9 of consecutive rounds, the blocks 6 and 8 *)
(* of a fork from genesis that skips round 1, the rival 7 of block 5 that  *)
(* skips round 3, and the rival 10 of block 4 that skips round 2.          *)
(***************************************************************************)
EXTENDS BlockStore

MCRound     == <<0, 1, 2, 3, 4, 2, 4, 3, 5, 3>>
MCParent    == <<1, 1, 2, 3, 4, 1, 3, 6, 5, 2>>
MCAncestors == <<{1}, {1, 2}, {1, 2, 3}, {1, 2, 3, 4}, {1, 2, 3, 4, 5},
                 {1, 6}, {1, 2, 3, 7}, {1, 6, 8}, {1, 2, 3, 4, 5, 9},
                 {1, 2, 10}>>

=============================================================================
