-------------------------- MODULE ValidatorVerifier --------------------------
(***************************************************************************)
(* Voting power and quorums (validator_verifier.rs).                       *)
(*                                                                         *)
(* The voting power of a validator is the number of votes it was elected   *)
(* with.  Votes[v] is the set of these votes, so the power of a set of     *)
(* validators is the number of votes they hold together.  A validator set  *)
(* of an epoch is not empty.                                               *)
(***************************************************************************)
EXTENDS Naturals, FiniteSets

CONSTANTS Validators, Votes

VotesOf(S) == UNION {Votes[v] : v \in S}

\* Every vote has one holder, and there are finitely many.
ASSUME VotesAssumption ==
  /\ Validators # {}
  /\ IsFiniteSet(VotesOf(Validators))
  /\ \A v, w \in Validators : v # w => Votes[v] \cap Votes[w] = {}

SumVotingPower(S) == Cardinality(VotesOf(S))

\* Mutant of QuorumVotingPower: two thirds, rounded down, are enough.
TwoThirdsVotingPower == (SumVotingPower(Validators) * 2) \div 3

QuorumVotingPower == (SumVotingPower(Validators) * 2) \div 3 + 1

CheckVotingPower(S) == SumVotingPower(S) >= QuorumVotingPower

=============================================================================
