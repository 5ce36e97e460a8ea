---------------------------- MODULE PosConsensus ----------------------------
(***************************************************************************)
(* One epoch of the PoS chain: the validators, the blocks they vote for,   *)
(* the certificates their votes form and the ledgers that commit by the    *)
(* 3-chain rule.                                                           *)
(*                                                                         *)
(* An honest validator is known by the promise of its key (VotingPromise,  *)
(* which ValidatorSafety implements): it adds to its own votes only what   *)
(* MayRelease allows, and only for a well-formed block whose certificate   *)
(* it has verified.  A Byzantine validator votes for anything at any time: *)
(* its vote is counted for every block from the start.  Messages may be    *)
(* lost, late, repeated or out of order: a vote once cast may be in a      *)
(* certificate any node holds at any later time, or never.                 *)
(*                                                                         *)
(* Timeouts, rounds and leaders decide when a vote is asked for, never     *)
(* whether it is allowed, so the safety of the chain does not read them.   *)
(***************************************************************************)
EXTENDS SafetyRules, ValidatorVerifier

CONSTANTS Blocks,       \* the blocks of the epoch anyone may ever propose
          Genesis,
          Round,        \* of each block
          Parent,       \* of each block: the block its quorum_cert certifies
          Ancestors,    \* of each block: itself and its parents to genesis
          Byzantine,    \* the validators that do not follow the code
          Nodes         \* ledgers

ASSUME BlocksAssumption ==
  /\ Genesis \in Blocks
  /\ Round \in [Blocks -> Nat]
  /\ Parent \in [Blocks -> Blocks]
  /\ Round[Genesis] = 0
  /\ Parent[Genesis] = Genesis
  /\ \A b \in Blocks \ {Genesis} : Round[Parent[b]] < Round[b]

ASSUME AncestorsAssumption ==
  /\ Ancestors \in [Blocks -> SUBSET Blocks]
  /\ Ancestors[Genesis] = {Genesis}
  /\ \A b \in Blocks \ {Genesis} :
       Ancestors[b] = {b} \cup Ancestors[Parent[b]]

Honest == Validators \ Byzantine

\* Less than a third of the voting power of the epoch is Byzantine.
ASSUME ByzantineAssumption ==
  /\ Byzantine \subseteq Validators
  /\ 3 * SumVotingPower(Byzantine) < SumVotingPower(Validators)

\* The sets of signers that ValidatorVerifier accepts.
Quorums == {Q \in SUBSET Validators : CheckVotingPower(Q)}

VARIABLES votes,        \* votes[v]: the blocks honest v has voted for
          root          \* root[n]: the last block committed by node n

vars == <<votes, root>>

Init ==
  /\ votes = [v \in Honest |-> {}]
  /\ root = [n \in Nodes |-> Genesis]

\* What the voting rules read of a block.
Request(b) ==
  [epoch |-> 1, round |-> Round[b], one_chain_round |-> Round[Parent[b]],
   two_chain_round |-> Round[Parent[Parent[b]]], id |-> b]

Promise(v) ==
  INSTANCE VotingPromise WITH votes <- {Request(b) : b \in votes[v]},
                              Proposals <- {Request(b) : b \in Blocks}

\* Mutant of Certified: one honest signature makes a certificate.
CertifiedByOne(b) == b = Genesis \/ \E v \in Honest : b \in votes[v]

\* QuorumCert::verify, and the genesis certificate that needs no signature.
Certified(b) ==
  \/ b = Genesis
  \/ \E Q \in Quorums : \A v \in Q \cap Honest : b \in votes[v]

\* Mutant of Commits: the older two rounds need not be consecutive.
CommitsTwoChain(b) == Round[Parent[b]] + 1 = Round[b]

\* construct_ledger_info: the vote for b carries a commit of b's grandparent
\* if the three rounds are consecutive.
Commits(b) ==
  /\ Round[Parent[Parent[b]]] + 1 = Round[Parent[b]]
  /\ Round[Parent[b]] + 1 = Round[b]

CommitInfo(b) == Parent[Parent[b]]

\* execute_and_vote and construct_and_sign_vote
Vote(v, b) ==
  /\ b # Genesis
  /\ Certified(Parent[b])
  /\ Promise(v)!MayRelease(Request(b))
  /\ votes' = [votes EXCEPT ![v] = @ \cup {b}]
  /\ UNCHANGED root

\* Mutant of Commit: an old certificate commits again.
CommitAgain(n, b) ==
  /\ Certified(b) /\ Commits(b)
  /\ root' = [root EXCEPT ![n] = CommitInfo(b)]
  /\ UNCHANGED votes

\* BlockStore::commit, reached from a certificate by insert_quorum_cert
Commit(n, b) ==
  /\ Certified(b)
  /\ Commits(b)
  /\ Round[CommitInfo(b)] > Round[root[n]]
  /\ root' = [root EXCEPT ![n] = CommitInfo(b)]
  /\ UNCHANGED votes

Next ==
  \/ \E v \in Honest, b \in Blocks : Vote(v, b)
  \/ \E n \in Nodes, b \in Blocks : Commit(n, b)

Spec == Init /\ [][Next]_vars

-----------------------------------------------------------------------------
\* Type invariant.
TypeOK ==
  /\ votes \in [Honest -> SUBSET Blocks]
  /\ root \in [Nodes -> Blocks]

Extends(b, g) == g \in Ancestors[b]

Certificates == {b \in Blocks : Certified(b)}

Committed == {CommitInfo(b) : b \in {c \in Certificates : Commits(c)}}

\* Blocks of a round compete: at most one of them is ever certified
\* (BlockTree::insert_quorum_cert asserts it).
OneCertificatePerRound ==
  \A b, c \in Certificates : Round[b] = Round[c] => b = c

\* Finality: every certified block at or above the round of a committed block
\* descends from it, so no later certificate can commit around it.
CommitIsFinal ==
  \A g \in Committed, b \in Certificates :
    Round[b] >= Round[g] => Extends(b, g)

\* The ledgers of two nodes are prefixes of one another at every moment.
LedgersAgree ==
  \A m, n \in Nodes :
    Extends(root[m], root[n]) \/ Extends(root[n], root[m])

\* A node commits only descendants of what it has committed: the path from
\* its root to the new block, which BlockStore::commit asks for with
\* path_from_root(..).unwrap_or_else(Vec::new), always exists.
LedgerGrows == [][\A n \in Nodes : Extends(root'[n], root[n])]_vars

=============================================================================
