------------------------- MODULE PosConsensusProofs -------------------------
(***************************************************************************)
(* Agreement of the PoS chain for any block tree, any number of validators *)
(* and any distribution of votes with less than a third of them Byzantine. *)
(***************************************************************************)
EXTENDS PosConsensus, FiniteSetTheorems, WellFoundedInduction, TLAPS

-----------------------------------------------------------------------------
(* Quorums of ValidatorVerifier                                            *)

\* The votes of any validators are finitely many.
LEMMA VotesFinite ==
  ASSUME NEW S \in SUBSET Validators
  PROVE  /\ IsFiniteSet(VotesOf(S))
         /\ SumVotingPower(S) \in Nat
<1>1. VotesOf(S) \subseteq VotesOf(Validators)
  BY DEF VotesOf
<1>2. IsFiniteSet(VotesOf(S))
  BY <1>1, VotesAssumption, FS_Subset
<1> QED
  BY <1>2, FS_CardinalityType DEF SumVotingPower

\* A vote that two sets of validators hold is held by one they share.
LEMMA SharedVotes ==
  ASSUME NEW Q \in SUBSET Validators, NEW R \in SUBSET Validators
  PROVE  VotesOf(Q) \cap VotesOf(R) \subseteq VotesOf(Q \cap R)
  BY VotesAssumption DEF VotesOf

\* With less than a third of the votes Byzantine, two sets of signers that
\* check_voting_power accepts have an honest validator in common: what
\* PosConsensus assumes of its quorums.
THEOREM QuorumsShareHonest ==
  ASSUME NEW Faulty \in SUBSET Validators,
         3 * SumVotingPower(Faulty) < SumVotingPower(Validators),
         NEW Q \in SUBSET Validators, CheckVotingPower(Q),
         NEW R \in SUBSET Validators, CheckVotingPower(R)
  PROVE  Q \cap R \cap (Validators \ Faulty) # {}
<1> SUFFICES ASSUME Q \cap R \cap (Validators \ Faulty) = {}
             PROVE  FALSE
  OBVIOUS
<1> DEFINE all == VotesOf(Q) \cup VotesOf(R)
<1> DEFINE both == VotesOf(Q) \cap VotesOf(R)
<1>1. Q \cap R \in SUBSET Faulty
  OBVIOUS
<1>2. both \subseteq VotesOf(Faulty)
  BY <1>1, SharedVotes DEF VotesOf
<1>3. all \subseteq VotesOf(Validators)
  BY DEF VotesOf
<1>4. /\ IsFiniteSet(VotesOf(Q)) /\ IsFiniteSet(VotesOf(R))
      /\ IsFiniteSet(VotesOf(Faulty)) /\ IsFiniteSet(VotesOf(Validators))
  BY VotesFinite
<1>5. Cardinality(both) <= SumVotingPower(Faulty)
  BY <1>2, <1>4, FS_Subset DEF SumVotingPower
<1>6. Cardinality(all) <= SumVotingPower(Validators)
  BY <1>3, <1>4, FS_Subset DEF SumVotingPower
<1>7. Cardinality(all)
        = SumVotingPower(Q) + SumVotingPower(R) - Cardinality(both)
  BY <1>4, FS_Union DEF SumVotingPower
<1>8. Cardinality(both) \in Nat
  BY <1>2, <1>4, FS_Subset, FS_CardinalityType
<1>9. /\ SumVotingPower(Q) \in Nat /\ SumVotingPower(R) \in Nat
      /\ SumVotingPower(Faulty) \in Nat /\ SumVotingPower(Validators) \in Nat
  BY VotesFinite
<1> HIDE DEF all, both
<1>10. SumVotingPower(Q) + SumVotingPower(R)
         <= SumVotingPower(Validators) + SumVotingPower(Faulty)
  BY <1>5, <1>6, <1>7, <1>8, <1>9
<1>11. /\ 3 * SumVotingPower(Q) > 2 * SumVotingPower(Validators)
       /\ 3 * SumVotingPower(R) > 2 * SumVotingPower(Validators)
  BY <1>9 DEF CheckVotingPower, QuorumVotingPower
<1> QED
  BY <1>9, <1>10, <1>11

\* The honest validators alone are a quorum, so a Byzantine minority cannot
\* stop certificates from being formed by staying silent.
THEOREM HonestAreQuorum ==
  ASSUME NEW Faulty \in SUBSET Validators,
         3 * SumVotingPower(Faulty) < SumVotingPower(Validators)
  PROVE  CheckVotingPower(Validators \ Faulty)
<1> DEFINE honest == Validators \ Faulty
<1>1. VotesOf(Validators) = VotesOf(honest) \cup VotesOf(Faulty)
  BY DEF VotesOf
<1>2. IsFiniteSet(VotesOf(honest)) /\ IsFiniteSet(VotesOf(Faulty))
  BY VotesFinite
<1>3. SumVotingPower(honest) \in Nat /\ SumVotingPower(Faulty) \in Nat
      /\ SumVotingPower(Validators) \in Nat
  BY VotesFinite
<1>4. Cardinality(VotesOf(honest) \cap VotesOf(Faulty)) \in Nat
  BY <1>2, FS_Intersection, FS_CardinalityType, Zenon
<1>5. SumVotingPower(Validators)
        <= SumVotingPower(honest) + SumVotingPower(Faulty)
  <2> DEFINE shared == VotesOf(honest) \cap VotesOf(Faulty)
  <2>1. SumVotingPower(Validators)
          = SumVotingPower(honest) + SumVotingPower(Faulty) - Cardinality(shared)
    BY <1>1, <1>2, FS_Union, Zenon DEF SumVotingPower
  <2>2. Cardinality(shared) \in Nat
    BY <1>4
  <2> HIDE DEF shared, honest
  <2> QED
    BY <2>1, <2>2, <1>3
<1> HIDE DEF honest
<1>6. 3 * SumVotingPower(honest) > 2 * SumVotingPower(Validators)
  BY <1>3, <1>5
<1>7. SumVotingPower(honest) >= QuorumVotingPower
  BY <1>3, <1>6 DEF QuorumVotingPower
<1> QED
  BY <1>7 DEF CheckVotingPower, honest

-----------------------------------------------------------------------------
(* Facts about the block tree                                              *)

\* Only the genesis block has round 0.
LEMMA RoundPositive == \A b \in Blocks \ {Genesis} : Round[b] > 0
BY BlocksAssumption

\* A block is its own ancestor, as path_from_root counts it.
LEMMA ExtendsSelf == \A b \in Blocks : Extends(b, b)
BY AncestorsAssumption DEF Extends

\* What the parent descends from, the block descends from.
LEMMA ExtendsParent ==
  ASSUME NEW b \in Blocks, b # Genesis, NEW g \in Blocks, Extends(Parent[b], g)
  PROVE  Extends(b, g)
BY AncestorsAssumption DEF Extends

\* A non-empty set of blocks has a block of least round.
LEMMA LeastRound ==
  ASSUME NEW T, T \subseteq Blocks, T # {}
  PROVE  \E m \in T : \A b \in T : Round[m] <= Round[b]
<1> DEFINE N == {Round[b] : b \in T}
<1>1. N \subseteq Nat /\ N # {}
  BY BlocksAssumption
<1>2. IsWellFoundedOn(OpToRel(<, Nat), Nat)
  BY NatLessThanWellFounded, Zenon
<1>3. PICK n \in N : \A k \in N : ~ (<<k, n>> \in OpToRel(<, Nat))
  <2> HIDE DEF N
  <2> QED
    BY <1>1, <1>2, WFMin, Zenon
<1>4. \A k \in N : ~ (k < n)
  BY <1>1, <1>3, Zenon DEF OpToRel
<1>5. PICK m \in T : n = Round[m]
  OBVIOUS
<1>6. ASSUME NEW b \in T PROVE Round[m] <= Round[b]
  <2>1. Round[b] \in N /\ Round[b] \in Nat /\ n \in Nat
    BY <1>1
  <2>2. ~ (Round[b] < n)
    BY <1>4, <2>1
  <2> QED
    BY <1>5, <2>1, <2>2
<1> QED
  BY <1>6

-----------------------------------------------------------------------------
(* The inductive invariant: what the votes of each honest validator say.   *)

\* Every block voted for has a certified parent; the votes of a validator are
\* for different rounds and each respects the lock of the earlier ones; a
\* ledger's root is genesis or committed by a certificate.
HonestVotes ==
  \A v \in Honest :
    /\ \A b \in votes[v] : b # Genesis /\ Certified(Parent[b])
    /\ \A b, c \in votes[v] : Round[b] = Round[c] => b = c
    /\ \A b, c \in votes[v] :
         Round[c] < Round[b] => Round[Parent[b]] >= Round[Parent[Parent[c]]]

RootsCommitted == \A n \in Nodes : root[n] = Genesis \/ root[n] \in Committed

ConsensusInvariant == TypeOK /\ HonestVotes /\ RootsCommitted

\* Certificates are never lost: votes only grow.
LEMMA CertifiedStays ==
  ASSUME \A v \in Honest : votes[v] \subseteq votes'[v],
         NEW b \in Blocks, Certified(b)
  PROVE  Certified(b)'
BY DEF Certified, Honest

\* The genesis ledger, with no vote cast, satisfies the invariant.
LEMMA InitConsensus == Init => ConsensusInvariant
BY BlocksAssumption
   DEF Init, ConsensusInvariant, TypeOK, HonestVotes, RootsCommitted

\* MayRelease, read on blocks.
LEMMA ReleaseOnBlocks ==
  ASSUME TypeOK, NEW v \in Honest, NEW b \in Blocks,
         Promise(v)!MayRelease(Request(b)), NEW c \in votes[v]
  PROVE  /\ Round[c] < Round[b]
         /\ Round[Parent[b]] >= Round[Parent[Parent[c]]]
<1>1. c \in Blocks
  BY DEF TypeOK
<1>2. Request(c) \in {Request(d) : d \in votes[v]}
  OBVIOUS
<1>3. \/ Request(c).epoch < Request(b).epoch
      \/ /\ Request(c).round < Request(b).round
         /\ Request(b).one_chain_round >= Request(c).two_chain_round
  BY <1>2 DEF Promise!MayRelease
<1> QED
  BY <1>1, <1>3, BlocksAssumption DEF Request

\* A vote (execute_and_vote) keeps the invariant: the promise is kept and the
\* roots stay committed.
LEMMA VoteKeepsConsensus ==
  ASSUME ConsensusInvariant, NEW v \in Honest, NEW b \in Blocks, Vote(v, b)
  PROVE  ConsensusInvariant'
<1>1. /\ b # Genesis /\ Certified(Parent[b])
      /\ votes' = [votes EXCEPT ![v] = @ \cup {b}]
      /\ root' = root
  BY DEF Vote
<1>2. \A c \in votes[v] : /\ Round[c] < Round[b]
                          /\ Round[Parent[b]] >= Round[Parent[Parent[c]]]
  BY ReleaseOnBlocks DEF Vote, ConsensusInvariant
<1>3. TypeOK'
  BY <1>1 DEF ConsensusInvariant, TypeOK
<1>4. \A w \in Honest : votes[w] \subseteq votes'[w]
  BY <1>1 DEF ConsensusInvariant, TypeOK
<1>5. ASSUME NEW w \in Honest
      PROVE  /\ \A x \in votes'[w] : x # Genesis /\ Certified(Parent[x])'
             /\ \A x, y \in votes'[w] : Round[x] = Round[y] => x = y
             /\ \A x, y \in votes'[w] :
                  Round[y] < Round[x]
                    => Round[Parent[x]] >= Round[Parent[Parent[y]]]
  <2>1. votes'[w] = IF w = v THEN votes[w] \cup {b} ELSE votes[w]
    BY <1>1 DEF ConsensusInvariant, TypeOK
  <2>2. votes[w] \subseteq Blocks
    BY DEF ConsensusInvariant, TypeOK
  <2>3. ASSUME NEW x \in votes'[w]
        PROVE  x # Genesis /\ Certified(Parent[x])'
    <3>1. x \in Blocks /\ x # Genesis /\ Certified(Parent[x])
      BY <1>1, <2>1, <2>2 DEF ConsensusInvariant, HonestVotes
    <3> QED
      BY <1>4, <3>1, CertifiedStays, BlocksAssumption
  <2>4. ASSUME NEW x \in votes'[w], NEW y \in votes'[w], Round[x] = Round[y]
        PROVE  x = y
    BY <1>2, <2>1, <2>2, <2>4, BlocksAssumption
       DEF ConsensusInvariant, HonestVotes
  <2>5. ASSUME NEW x \in votes'[w], NEW y \in votes'[w], Round[y] < Round[x]
        PROVE  Round[Parent[x]] >= Round[Parent[Parent[y]]]
    BY <1>2, <2>1, <2>2, <2>5, BlocksAssumption
       DEF ConsensusInvariant, HonestVotes
  <2> QED
    BY <2>3, <2>4, <2>5
<1>6. HonestVotes'
  BY <1>5 DEF HonestVotes
<1>7. RootsCommitted'
  <2>1. \A c \in Blocks : Certified(c) => Certified(c)'
    BY <1>4, CertifiedStays
  <2>2. Committed \subseteq Committed'
    BY <2>1 DEF Committed, Certificates
  <2> QED
    BY <1>1, <2>2 DEF ConsensusInvariant, RootsCommitted
<1> QED
  BY <1>3, <1>6, <1>7 DEF ConsensusInvariant

\* A commit (BlockStore::commit) keeps the invariant.
LEMMA CommitKeepsConsensus ==
  ASSUME ConsensusInvariant, NEW n \in Nodes, NEW b \in Blocks, Commit(n, b)
  PROVE  ConsensusInvariant'
<1>1. /\ Certified(b) /\ Commits(b) /\ votes' = votes
      /\ root' = [root EXCEPT ![n] = CommitInfo(b)]
  BY DEF Commit
<1>2. CommitInfo(b) \in Committed /\ CommitInfo(b) \in Blocks
  BY <1>1, BlocksAssumption DEF Committed, Certificates, CommitInfo
<1>3. TypeOK'
  BY <1>1, <1>2 DEF ConsensusInvariant, TypeOK
<1>4. \A c : Certified(c)' <=> Certified(c)
  BY <1>1 DEF Certified
<1>5. HonestVotes'
  BY <1>1, <1>4 DEF ConsensusInvariant, HonestVotes
<1>6. Committed' = Committed
  BY <1>4 DEF Committed, Certificates
<1>7. RootsCommitted'
  BY <1>1, <1>2, <1>6 DEF ConsensusInvariant, TypeOK, RootsCommitted
<1> QED
  BY <1>3, <1>5, <1>7 DEF ConsensusInvariant

\* The invariant holds for every tree and every distribution of votes.
THEOREM ConsensusInvariantHolds == Spec => []ConsensusInvariant
<1>1. ConsensusInvariant /\ UNCHANGED vars => ConsensusInvariant'
  BY DEF ConsensusInvariant, TypeOK, HonestVotes, RootsCommitted, Certified,
         Committed, Certificates, vars
<1>2. ConsensusInvariant /\ [Next]_vars => ConsensusInvariant'
  BY <1>1, VoteKeepsConsensus, CommitKeepsConsensus DEF Next
<1> QED
  BY <1>2, InitConsensus, PTL DEF Spec

-----------------------------------------------------------------------------
(* Consequences                                                            *)

\* An honest validator stands behind any two certificates.
LEMMA CommonVoter ==
  ASSUME NEW b \in Blocks, NEW c \in Blocks, b # Genesis, c # Genesis,
         Certified(b), Certified(c)
  PROVE  \E v \in Honest : b \in votes[v] /\ c \in votes[v]
<1>1. PICK Q \in Quorums : \A v \in Q \cap Honest : b \in votes[v]
  BY DEF Certified
<1>2. PICK R \in Quorums : \A v \in R \cap Honest : c \in votes[v]
  BY DEF Certified
<1>3. Q \cap R \cap Honest # {}
  BY ByzantineAssumption, QuorumsShareHonest DEF Quorums, Honest
<1> QED
  BY <1>1, <1>2, <1>3

\* The parent of a certified block is certified.
LEMMA ParentCertified ==
  ASSUME HonestVotes, NEW b \in Blocks, Certified(b)
  PROVE  Certified(Parent[b])
<1>1. CASE b = Genesis
  BY <1>1, BlocksAssumption DEF Certified
<1>2. CASE b # Genesis
  BY <1>2, CommonVoter DEF HonestVotes
<1> QED
  BY <1>1, <1>2

\* Two certificates of a round share an honest voter, who voted once in it.
LEMMA UniqueCertificates == ConsensusInvariant => OneCertificatePerRound
<1> SUFFICES ASSUME ConsensusInvariant, NEW b \in Certificates,
                    NEW c \in Certificates, Round[b] = Round[c]
             PROVE  b = c
  BY DEF OneCertificatePerRound
<1>1. b \in Blocks /\ c \in Blocks /\ Certified(b) /\ Certified(c)
  BY DEF Certificates
<1>2. CASE b = Genesis \/ c = Genesis
  BY <1>1, <1>2, RoundPositive, BlocksAssumption
<1>3. CASE b # Genesis /\ c # Genesis
  BY <1>1, <1>3, CommonVoter DEF ConsensusInvariant, HonestVotes
<1> QED
  BY <1>2, <1>3

\* The heart of the argument.  Suppose some certified block at or above a
\* committed block g does not descend from g, and take one of least round.
\* It is not in one of the three rounds of the chain that commits g, since
\* certificates are unique; so it is above them, an honest voter of that
\* chain's tip voted for it, and the lock puts its parent at or above g: the
\* parent is a smaller counterexample.
LEMMA Finality == ConsensusInvariant => CommitIsFinal
<1> SUFFICES ASSUME ConsensusInvariant, NEW tip \in Certificates, Commits(tip)
             PROVE  \A b \in Certificates :
                      Round[b] >= Round[CommitInfo(tip)]
                        => Extends(b, CommitInfo(tip))
  BY DEF CommitIsFinal, Committed
<1> DEFINE g == CommitInfo(tip)
           mid == Parent[tip]
           T == {b \in Certificates : Round[b] >= Round[g] /\ ~Extends(b, g)}
<1>1. /\ tip \in Blocks /\ mid \in Blocks /\ g \in Blocks /\ g = Parent[mid]
      /\ Certified(tip)
  BY BlocksAssumption DEF Certificates, CommitInfo
<1>2. Certified(mid) /\ Certified(g)
  BY <1>1, ParentCertified DEF ConsensusInvariant
<1>3. Round[g] + 1 = Round[mid] /\ Round[mid] + 1 = Round[tip]
  BY DEF Commits, CommitInfo
<1>4. mid # Genesis /\ tip # Genesis
  BY <1>1, <1>3, BlocksAssumption
<1>5. Extends(g, g) /\ Extends(mid, g) /\ Extends(tip, g)
  BY <1>1, <1>4, ExtendsSelf, ExtendsParent
<1>6. ASSUME T # {} PROVE FALSE
  <2>0. T \subseteq Blocks
    BY DEF Certificates
  <2>1. PICK b \in T : \A c \in T : Round[b] <= Round[c]
    <3> HIDE DEF T
    <3> QED
      BY <1>6, <2>0, LeastRound
  <2>2. b \in Blocks /\ Certified(b) /\ Round[b] >= Round[g] /\ ~Extends(b, g)
    BY DEF Certificates
  <2>3. Round[b] # Round[g] /\ Round[b] # Round[mid] /\ Round[b] # Round[tip]
    BY <1>1, <1>2, <1>5, <2>2, UniqueCertificates
       DEF OneCertificatePerRound, Certificates
  <2>4. Round[b] > Round[tip]
    BY <1>1, <1>3, <2>2, <2>3, BlocksAssumption
  <2>5. b # Genesis
    BY <1>1, <2>4, BlocksAssumption
  <2>6. PICK v \in Honest : tip \in votes[v] /\ b \in votes[v]
    BY <1>1, <1>4, <2>2, <2>5, CommonVoter
  <2>7. Round[Parent[b]] >= Round[g]
    BY <2>4, <2>6 DEF ConsensusInvariant, HonestVotes, CommitInfo
  <2>8. Certified(Parent[b]) /\ Parent[b] \in Blocks
    BY <2>2, ParentCertified, BlocksAssumption DEF ConsensusInvariant
  <2>9. ~Extends(Parent[b], g)
    BY <1>1, <2>2, <2>5, ExtendsParent
  <2>10. Parent[b] \in T
    BY <2>7, <2>8, <2>9 DEF Certificates
  <2>11. Round[Parent[b]] < Round[b] /\ Round[Parent[b]] \in Nat /\ Round[b] \in Nat
    BY <2>2, <2>5, <2>8, BlocksAssumption
  <2> QED
    BY <2>1, <2>10, <2>11
<1> QED
  BY <1>6

\* Every block descends from genesis.
LEMMA ExtendsGenesis == \A b \in Blocks : Extends(b, Genesis)
<1> DEFINE T == {b \in Blocks : ~Extends(b, Genesis)}
<1>1. ASSUME T # {} PROVE FALSE
  <2>1. T \subseteq Blocks
    OBVIOUS
  <2>2. PICK b \in T : \A c \in T : Round[b] <= Round[c]
    <3> HIDE DEF T
    <3> QED
      BY <1>1, <2>1, LeastRound
  <2>3. b \in Blocks /\ b # Genesis
    BY ExtendsSelf
  <2>4. Parent[b] \in T
    BY <2>2, <2>3, ExtendsParent, BlocksAssumption
  <2> QED
    BY <2>2, <2>3, <2>4, BlocksAssumption
<1> QED
  BY <1>1

\* A committed block is certified: it is the parent of a certified block's
\* parent.
LEMMA CommittedCertified == ConsensusInvariant => Committed \subseteq Certificates
BY ParentCertified, BlocksAssumption
   DEF Committed, Certificates, CommitInfo, ConsensusInvariant

\* A certified block not below a root descends from it.
LEMMA AboveRoot ==
  ASSUME ConsensusInvariant, NEW n \in Nodes, NEW b \in Certificates,
         Round[b] >= Round[root[n]]
  PROVE  Extends(b, root[n])
<1>1. CASE root[n] \in Committed
  BY <1>1, Finality DEF CommitIsFinal
<1>2. CASE root[n] = Genesis
  BY <1>2, ExtendsGenesis DEF Certificates
<1> QED
  BY <1>1, <1>2 DEF ConsensusInvariant, RootsCommitted

\* At most one block of a round is ever certified.
THEOREM OneCertificatePerRoundHolds == Spec => []OneCertificatePerRound
BY ConsensusInvariantHolds, UniqueCertificates, PTL

\* A committed block is final.
THEOREM CommitIsFinalHolds == Spec => []CommitIsFinal
BY ConsensusInvariantHolds, Finality, PTL

\* Agreement: the ledgers of any two nodes are prefixes of one another.
THEOREM Agreement == Spec => []LedgersAgree
<1>1. ConsensusInvariant => LedgersAgree
  <2> SUFFICES ASSUME ConsensusInvariant, NEW m \in Nodes, NEW n \in Nodes
               PROVE  Extends(root[m], root[n]) \/ Extends(root[n], root[m])
    BY DEF LedgersAgree
  <2>1. Round[root[m]] \in Nat /\ Round[root[n]] \in Nat
    BY BlocksAssumption DEF ConsensusInvariant, TypeOK
  <2>2. root[m] \in Certificates /\ root[n] \in Certificates
    BY CommittedCertified, BlocksAssumption
       DEF ConsensusInvariant, RootsCommitted, Certificates, Certified
  <2> QED
    BY <2>1, <2>2, AboveRoot
<1> QED
  BY <1>1, ConsensusInvariantHolds, PTL

\* A node commits only descendants of its root: the path BlockStore::commit
\* walks always exists.
THEOREM LedgerGrowsHolds == Spec => LedgerGrows
<1>1. ConsensusInvariant /\ [Next]_vars
        => [\A n \in Nodes : Extends(root'[n], root[n])]_vars
  <2> SUFFICES ASSUME ConsensusInvariant, Next, NEW m \in Nodes
               PROVE  Extends(root'[m], root[m])
    OBVIOUS
  <2>0. root[m] \in Blocks /\ root \in [Nodes -> Blocks]
    BY DEF ConsensusInvariant, TypeOK
  <2>1. ASSUME NEW v \in Honest, NEW b \in Blocks, Vote(v, b)
        PROVE  Extends(root'[m], root[m])
    BY <2>0, <2>1, ExtendsSelf DEF Vote
  <2>2. ASSUME NEW n \in Nodes, NEW b \in Blocks, Commit(n, b)
        PROVE  Extends(root'[m], root[m])
    <3>1. /\ Certified(b) /\ Commits(b)
          /\ Round[CommitInfo(b)] > Round[root[n]]
          /\ root' = [root EXCEPT ![n] = CommitInfo(b)]
      BY <2>2 DEF Commit
    <3>2. CASE m # n
      BY <2>0, <3>1, <3>2, ExtendsSelf
    <3>3. CASE m = n
      <4>1. CommitInfo(b) \in Committed
        BY <3>1 DEF Committed, Certificates
      <4>2. CommitInfo(b) \in Certificates /\ CommitInfo(b) \in Blocks
        BY <4>1, CommittedCertified DEF Certificates
      <4>3. Round[CommitInfo(b)] >= Round[root[n]]
        BY <2>0, <3>1, <3>3, <4>2, BlocksAssumption
      <4> QED
        BY <2>0, <3>1, <3>3, <4>2, <4>3, AboveRoot
    <3> QED
      BY <3>2, <3>3
  <2> QED
    BY <2>1, <2>2 DEF Next
<1> QED
  BY <1>1, ConsensusInvariantHolds, PTL DEF LedgerGrows, Spec

=============================================================================
