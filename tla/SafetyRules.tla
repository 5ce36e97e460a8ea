---------------------------- MODULE SafetyRules ----------------------------
(***************************************************************************)
(* The voting rules of a PoS validator, as operators on the SafetyData     *)
(* record it persists (crates/pos/consensus/safety-rules).                 *)
(*                                                                         *)
(* A proposal p is reduced to what the rules read of it: its epoch and     *)
(* round, the rounds of the block its quorum certificate certifies         *)
(* (one_chain_round) and of that block's parent (two_chain_round), and an  *)
(* id that tells two proposals with the same rounds apart.  The vote for p *)
(* (VoteData and LedgerInfo) is a function of p, so it is p itself.        *)
(* An Option is a set with at most one element.                            *)
(***************************************************************************)
EXTENDS Naturals

Proposal(Id) ==
  [epoch : Nat, round : Nat, one_chain_round : Nat, two_chain_round : Nat,
   id : Id]

SafetyData(Voted) ==
  [epoch : Nat, last_voted_round : Nat, preferred_round : Nat,
   last_vote : SUBSET Voted]

\* Block::verify_well_formed and VoteData::verify: rounds grow along the
\* chain, and the certificate of the genesis block names it twice.
WellFormed(p) ==
  /\ p.one_chain_round < p.round
  /\ \/ p.two_chain_round < p.one_chain_round
     \/ p.two_chain_round = 0 /\ p.one_chain_round = 0

\* SafetyData::new(epoch, 0, 0, None)
NewSafetyData(epoch) ==
  [epoch |-> epoch, last_voted_round |-> 0, preferred_round |-> 0,
   last_vote |-> {}]

\* The second voting rule.  Checked by every request that carries a
\* certificate; the update is the one-way ratchet of preferred_round.
VerifyPreferredRound(p, sd) == p.one_chain_round >= sd.preferred_round

UpdatePreferredRound(p, sd) ==
  [sd EXCEPT !.preferred_round =
     IF p.two_chain_round > @ THEN p.two_chain_round ELSE @]

\* Mutant of VerifyLastVoteRound: an off-by-one lets a round that was timed out be voted in.
LastVoteRoundReached(round, sd) == round >= sd.last_voted_round

\* The first voting rule.
VerifyLastVoteRound(round, sd) == round > sd.last_voted_round

UpdateLastVoteRound(round, sd) == [sd EXCEPT !.last_voted_round = round]

-----------------------------------------------------------------------------
(***************************************************************************)
(* guarded_construct_and_sign_vote: a second request for the round of the  *)
(* last vote is answered with that vote, before any other rule is tried.   *)
(***************************************************************************)
RepeatsLastVote(p, sd) ==
  /\ p.epoch = sd.epoch
  /\ \E v \in sd.last_vote : v.round = p.round

MayVote(p, sd) ==
  /\ p.epoch = sd.epoch
  /\ ~ \E v \in sd.last_vote : v.round = p.round
  /\ VerifyPreferredRound(p, sd)
  /\ VerifyLastVoteRound(p.round, sd)

\* Mutant of AfterVote: the lock is not raised by a vote.
AfterVoteUnlocked(p, sd) ==
  [UpdateLastVoteRound(p.round, sd) EXCEPT !.last_vote = {p}]

AfterVote(p, sd) ==
  [UpdateLastVoteRound(p.round, UpdatePreferredRound(p, sd))
     EXCEPT !.last_vote = {p}]

\* guarded_sign_proposal: the round is compared with last_voted_round but
\* does not advance it.
MayPropose(p, sd) ==
  /\ p.epoch = sd.epoch
  /\ p.round > sd.last_voted_round
  /\ VerifyPreferredRound(p, sd)

AfterPropose(p, sd) == UpdatePreferredRound(p, sd)

\* Mutant of MayTimeout: a timeout may be signed below the last vote.
MayTimeoutBelowVote(epoch, round, sd) ==
  epoch = sd.epoch /\ round > sd.preferred_round

\* guarded_sign_timeout: the round last voted in may still be timed out.
MayTimeout(epoch, round, sd) ==
  /\ epoch = sd.epoch
  /\ round > sd.preferred_round
  /\ round >= sd.last_voted_round

AfterTimeout(round, sd) ==
  IF round > sd.last_voted_round THEN UpdateLastVoteRound(round, sd) ELSE sd

=============================================================================
