--------------------------- MODULE VotingPromise ---------------------------
(***************************************************************************)
(* What one validator key promises to the rest of the PoS network, with no *)
(* word about files, caches, crashes or hosts: the votes it lets out of    *)
(* the process go up in (epoch, round), and inside an epoch each of them   *)
(* respects the lock taken by the ones before it.                          *)
(***************************************************************************)
EXTENDS SafetyRules

CONSTANT Proposals      \* the proposals the key may be asked to vote for

VARIABLE votes          \* the votes released so far

vars == votes

Init == votes = {}

MayRelease(p) ==
  \A v \in votes :
    \/ v.epoch < p.epoch
    \/ /\ v.epoch = p.epoch
       /\ v.round < p.round
       /\ p.one_chain_round >= v.two_chain_round

Release(p) ==
  /\ MayRelease(p)
  /\ votes' = votes \cup {p}

Next == \E p \in Proposals : Release(p)

Spec == Init /\ [][Next]_vars

-----------------------------------------------------------------------------
\* One vote per round: two released votes of an epoch and round are the same
\* vote (what pending_votes.rs reports as an equivocation never comes from a
\* validator that runs this code).
NoEquivocation ==
  \A v, w \in votes : v.epoch = w.epoch /\ v.round = w.round => v = w

\* The lock: a later vote extends a certified block at least as high as the
\* grandparent of every earlier vote.  The agreement proof of PosConsensus
\* rests on this and on NoEquivocation.
LockRespected ==
  \A v, w \in votes :
    v.epoch = w.epoch /\ v.round < w.round
      => w.one_chain_round >= v.two_chain_round

=============================================================================
