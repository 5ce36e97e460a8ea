------------------------ MODULE RoundManagerProofs ------------------------
(***************************************************************************)
(* RoundManager for every set of nodes and peers, every number of rounds   *)
(* and crashes: a validator votes once in a round, whatever it restarts in *)
(* between; the timers of a round are set when they are needed; the votes  *)
(* of a round hold one quorum certificate at most.  First the inductive    *)
(* invariant and the calls a handler is made of, each of which leaves the  *)
(* state of its node as the invariant wants it; then the actions.          *)
(***************************************************************************)
EXTENDS RoundManager, FiniteSetTheorems, TLAPS

-----------------------------------------------------------------------------
(* Types                                                                   *)

\* What a store holds as certificates: no round is left beyond MaxRound.
Certificates == {b \in Blocks \cup {Genesis} : b.round < MaxRound}

SyncInfos == [hqc : Certificates, hcc : Certificates, tc : 0 .. MaxRound - 1]

Messages ==
  [type : {"vote"}, vote : AnyVote, sync : SyncInfos, to : SUBSET Node]
    \cup [type : {"proposal"}, block : Blocks, sync : SyncInfos, to : SUBSET Node]
    \cup [type : {"sync"}, sync : SyncInfos, to : SUBSET Node]

RoundStates ==
  [round : 0 .. MaxRound, new_round_sent : BOOLEAN, votes : SUBSET AnyVote,
   li_votes : SUBSET [author : Validators, block : Blocks],
   partial_tc : SUBSET Validators, vote_sent : SUBSET AnyVote,
   local_timers : Nat, new_round_timer : BOOLEAN, proposal_timer : BOOLEAN,
   candidate : SUBSET Blocks, last_round_generated : Nat]

Stores ==
  [hqc : Certificates, hcc : Certificates, htc : 0 .. MaxRound - 1,
   blocks : SUBSET Blocks]

-----------------------------------------------------------------------------
(***************************************************************************)
(* The inductive invariant.  It is stated of the parts of a node's state,  *)
(* so that it can be said of the state between two calls of a handler too. *)
(***************************************************************************)

\* The round that the certificates st start.
NextRound(st) == HighestRound(SyncInfo(st)) + 1

\* The last vote of SafetyRules: its round is last_voted_round, since a node
\* times a round out only after a vote in it, and the certificates on disk
\* start that round.
LastVoteOK(st, d) ==
  /\ d.epoch = 1
  /\ \/ d.last_vote = {} /\ d.last_voted_round = 0
     \/ \E b \in d.last_vote : d.last_vote = {b} /\ d.last_voted_round = b.round
  /\ d.last_voted_round <= NextRound(st)

\* The saved vote is the last one or an older one.
SavedOK(d, sv) ==
  \/ sv = {}
  \/ \E b \in sv : sv = {b} /\ (b.round < d.last_voted_round \/ b \in d.last_vote)

\* The votes sent are one per round; the one of the last round voted in is
\* the last vote, and it was saved before it was sent.
SentOK(d, sv, sent) ==
  /\ \A b \in sent : \/ b.round < d.last_voted_round
                     \/ b \in d.last_vote /\ sv = d.last_vote
  /\ \A b, c \in sent : b.round = c.round => b = c

\* The lock: preferred_round is at least what every vote, sent or only signed,
\* has locked, so each of them respects the lock of the earlier ones.
LockOK(d, sent) ==
  /\ \A b \in sent \cup d.last_vote : b.two_chain_round <= d.preferred_round
  /\ \A b, c \in sent \cup d.last_vote :
       b.round < c.round => c.one_chain_round >= b.two_chain_round

DiskOK(st, d, sv, sent) ==
  /\ st \in Stores /\ d \in SafetyData(Blocks)
  /\ sv \in SUBSET Blocks /\ sent \in SUBSET Blocks
  /\ LastVoteOK(st, d)
  /\ SavedOK(d, sv)
  /\ SentOK(d, sv, sent)
  /\ LockOK(d, sent)

\* PendingVotes: one vote per author, the votes are for the current round,
\* and the new-round timer runs from the first certificate until it fires.
PendingOK(r) ==
  /\ \A v, w \in r.votes : v.author = w.author => v = w
  /\ \A v \in r.votes : v.block.round = r.round
  /\ r.li_votes = {[author |-> v.author, block |-> v.block] : v \in r.votes}
  /\ r.partial_tc \subseteq {v.author : v \in r.votes}
  /\ r.new_round_timer => Certificate(r)
  /\ Certificate(r) => r.new_round_sent
  /\ r.new_round_sent /\ ~ r.new_round_timer => QuorumCerts(r) # {}

\* A proposal timeout, which sets a second local timer, comes once in a round.
TimersOK(r) ==
  /\ r.local_timers \in 1 .. 2
  /\ r.proposal_timer => r.local_timers = 1

\* The vote recorded in the round is the last vote, and saved.
VoteSentOK(n, r, d, sv) ==
  \/ r.vote_sent = {}
  \/ \E v \in r.vote_sent : /\ r.vote_sent = {v}
                            /\ v.author = n /\ v.block.round = r.round
                            /\ d.last_vote = {v.block} /\ sv = {v.block}

\* KnowsItsVotes for one node.
Knows(r, sent) ==
  \A b \in sent : \/ r.round > b.round
                  \/ r.round = b.round /\ \E v \in r.vote_sent : v.block = b

CandidateOK(r) ==
  \/ r.candidate = {}
  \/ \E b \in r.candidate : r.candidate = {b} /\ b.round = r.round

RunOK(n, r, st, d, sv, sent) ==
  /\ r \in RoundStates
  /\ r.round >= 1 /\ r.round <= NextRound(st)
  /\ PendingOK(r)
  /\ TimersOK(r)
  /\ VoteSentOK(n, r, d, sv)
  /\ Knows(r, sent)
  /\ CandidateOK(r)

IInv ==
  /\ up \in [Node -> BOOLEAN]
  /\ crashes \in 0 .. MaxCrashes
  /\ msgs \in SUBSET Messages
  /\ DOMAIN rs = Node /\ DOMAIN store = Node /\ DOMAIN sd = Node /\ DOMAIN saved = Node
  /\ \A n \in Node :
       /\ DiskOK(store[n], sd[n], saved[n], Sent(n, msgs))
       /\ IF up[n] THEN RunOK(n, rs[n], store[n], sd[n], saved[n], Sent(n, msgs))
          ELSE rs[n] = NoRound

-----------------------------------------------------------------------------
(* Blocks and certificates                                                 *)

\* There is a round after that of the genesis block.
LEMMA MaxRoundPositive == MaxRound \in Nat \ {0}
  BY NodeAssumption, Zenon

\* A block is of a round after those of its parent.
LEMMA BlockFields ==
  ASSUME NEW b \in Blocks
  PROVE  /\ b.round \in 1 .. MaxRound
         /\ b.epoch = 1
         /\ b.one_chain_round \in 0 .. MaxRound /\ b.two_chain_round \in 0 .. MaxRound
         /\ b.one_chain_round < b.round
  BY Zenon DEF Blocks, WellFormed

\* A certificate is of a block whose parent is of a lower round, or of the
\* genesis block.
LEMMA CertificateFields ==
  ASSUME NEW q \in Certificates
  PROVE  /\ q.round \in 0 .. MaxRound - 1
         /\ q.one_chain_round \in 0 .. MaxRound /\ q.two_chain_round \in 0 .. MaxRound
         /\ q.one_chain_round < q.round \/ (q.round = 0 /\ q.one_chain_round = 0)
<1>1. CASE q = Genesis
  BY <1>1, NodeAssumption DEF Genesis
<1>2. CASE q \in Blocks
  <2>1. q.round < MaxRound
    BY Zenon DEF Certificates
  <2>2. /\ q.round \in 1 .. MaxRound /\ q.one_chain_round \in 0 .. MaxRound
        /\ q.two_chain_round \in 0 .. MaxRound /\ q.one_chain_round < q.round
    BY <1>2, BlockFields, Zenon
  <2> QED
    BY <2>1, <2>2, MaxRoundPositive
<1> QED
  BY <1>1, <1>2, Zenon DEF Certificates

\* A block on top of a certificate of a lower round is well-formed.
LEMMA ExtendsBlock ==
  ASSUME NEW q \in Certificates, NEW round \in 1 .. MaxRound, q.round < round,
         NEW id \in Proposers \cup {Nil}
  PROVE  /\ Extends(q, round, id) \in Blocks
         /\ Extends(q, round, id).round = round
         /\ Extends(q, round, id).id = id
         /\ Extends(q, round, id).epoch = 1
  BY CertificateFields, NodeAssumption DEF Extends, Blocks, WellFormed

\* The sync info of a store names the round before the one the store leads to.
LEMMA SyncInfoOfStore ==
  ASSUME NEW st \in Stores
  PROVE  /\ SyncInfo(st) \in SyncInfos
         /\ NextRound(st) \in 1 .. MaxRound
         /\ NextRound(st) = IF st.htc > st.hqc.round THEN st.htc + 1 ELSE st.hqc.round + 1
         /\ HighestRound(SyncInfo(st)) = NextRound(st) - 1
<1>1. st.hqc.round \in 0 .. MaxRound - 1 /\ st.htc \in 0 .. MaxRound - 1
  BY CertificateFields, Zenon DEF Stores
<1>2. SyncInfo(st) \in SyncInfos
  BY <1>1, NodeAssumption DEF SyncInfo, SyncInfos, Stores
<1>3. HighestRound(SyncInfo(st)) = IF st.htc > st.hqc.round THEN st.htc ELSE st.hqc.round
  BY <1>1 DEF SyncInfo, HighestRound
<1> QED
  BY <1>1, <1>2, <1>3, NodeAssumption DEF NextRound

\* The certificates on disk only grow.
LEMMA NextRoundGrows ==
  ASSUME NEW st \in Stores, NEW st2 \in Stores,
         st2.hqc.round >= st.hqc.round, st2.htc >= st.htc
  PROVE  NextRound(st2) >= NextRound(st)
<1>1. /\ st.hqc.round \in Nat /\ st2.hqc.round \in Nat
      /\ st.htc \in Nat /\ st2.htc \in Nat
  BY CertificateFields DEF Stores
<1> QED
  BY <1>1, SyncInfoOfStore

\* A store that leads to a later round is consistent with the same votes.
LEMMA DiskKept ==
  ASSUME NEW st \in Stores, NEW st2 \in Stores, NextRound(st2) >= NextRound(st),
         NEW d, NEW sv, NEW sent, DiskOK(st, d, sv, sent)
  PROVE  DiskOK(st2, d, sv, sent)
<1>1. d.last_voted_round \in Nat
  BY Zenon DEF DiskOK, SafetyData
<1>2. NextRound(st) \in Nat /\ NextRound(st2) \in Nat
  BY SyncInfoOfStore
<1> QED
  BY <1>1, <1>2 DEF DiskOK, LastVoteOK

-----------------------------------------------------------------------------
(* PendingVotes and RoundState                                             *)

\* Voting power is a number.
LEMMA VotesFinite ==
  ASSUME NEW S \in SUBSET Validators
  PROVE  IsFiniteSet(VotesOf(S)) /\ SumVotingPower(S) \in Nat
<1>1. IsFiniteSet(VotesOf(S))
  BY VotesAssumption, FS_Subset DEF VotesOf
<1> QED
  BY <1>1, FS_CardinalityType, Zenon DEF SumVotingPower

\* More signers have no less voting power.
LEMMA MoreVotingPower ==
  ASSUME NEW S \in SUBSET Validators, NEW T \in SUBSET Validators,
         S \subseteq T, CheckVotingPower(S)
  PROVE  CheckVotingPower(T)
<1>1. VotesOf(S) \subseteq VotesOf(T)
  BY Zenon DEF VotesOf
<1>2. IsFiniteSet(VotesOf(T)) /\ SumVotingPower(S) \in Nat /\ SumVotingPower(T) \in Nat
  BY VotesFinite, Zenon
<1>3. SumVotingPower(S) <= SumVotingPower(T)
  BY <1>1, <1>2, FS_Subset, Zenon DEF SumVotingPower
<1>4. QuorumVotingPower \in Nat
  BY VotesFinite DEF QuorumVotingPower
<1> QED
  BY <1>2, <1>3, <1>4 DEF CheckVotingPower

\* Two quorums share a validator: the votes of both are at most all there are.
LEMMA QuorumsIntersect ==
  ASSUME NEW Q \in SUBSET Validators, CheckVotingPower(Q),
         NEW R \in SUBSET Validators, CheckVotingPower(R)
  PROVE  Q \cap R # {}
<1> SUFFICES ASSUME Q \cap R = {} PROVE FALSE
  BY Zenon
<1>1. VotesOf(Q) \cap VotesOf(R) = {}
  BY VotesAssumption DEF VotesOf
<1>2. VotesOf(Q) \cup VotesOf(R) \subseteq VotesOf(Validators)
  BY Zenon DEF VotesOf
<1>3. /\ IsFiniteSet(VotesOf(Q)) /\ IsFiniteSet(VotesOf(R)) /\ IsFiniteSet(VotesOf(Validators))
      /\ SumVotingPower(Q) \in Nat /\ SumVotingPower(R) \in Nat
      /\ SumVotingPower(Validators) \in Nat
  BY VotesFinite, Zenon
<1> DEFINE all == VotesOf(Q) \cup VotesOf(R)
<1>4. Cardinality(all) = SumVotingPower(Q) + SumVotingPower(R)
  <2>1. Cardinality(all) = SumVotingPower(Q) + SumVotingPower(R)
                           - Cardinality(VotesOf(Q) \cap VotesOf(R))
    BY <1>3, FS_Union, Zenon DEF SumVotingPower
  <2>2. Cardinality(VotesOf(Q) \cap VotesOf(R)) = 0
    BY <1>1, FS_EmptySet, Zenon
  <2> HIDE DEF all
  <2> QED
    BY <1>3, <2>1, <2>2
<1>5. Cardinality(all) <= SumVotingPower(Validators)
  BY <1>2, <1>3, FS_Subset, Zenon DEF SumVotingPower
<1> HIDE DEF all
<1>6. SumVotingPower(Q) + SumVotingPower(R) <= SumVotingPower(Validators)
  BY <1>4, <1>5, Zenon
<1>7. /\ 3 * SumVotingPower(Q) > 2 * SumVotingPower(Validators)
      /\ 3 * SumVotingPower(R) > 2 * SumVotingPower(Validators)
  BY <1>3 DEF CheckVotingPower, QuorumVotingPower
<1> QED
  BY <1>3, <1>6, <1>7

\* Only validators sign.
LEMMA SignersAreValidators ==
  ASSUME NEW r \in RoundStates, NEW b
  PROVE  Signers(r, b) \in SUBSET Validators
  BY Zenon DEF Signers, RoundStates

\* The signers of two blocks are different validators, so the two have no
\* quorum each.
LEMMA PendingOneQuorum ==
  ASSUME NEW r \in RoundStates, PendingOK(r),
         NEW b \in QuorumCerts(r), NEW c \in QuorumCerts(r)
  PROVE  b = c
<1>1. CheckVotingPower(Signers(r, b)) /\ CheckVotingPower(Signers(r, c))
  BY Zenon DEF QuorumCerts
<1>2. PICK a \in Signers(r, b) : a \in Signers(r, c)
  BY <1>1, SignersAreValidators, QuorumsIntersect, Zenon
<1>3. /\ \E v \in r.votes : v.author = a /\ v.block = b
      /\ \E v \in r.votes : v.author = a /\ v.block = c
  BY <1>2 DEF Signers, PendingOK
<1> QED
  BY <1>3, Zenon DEF PendingOK

\* A quorum certificate of the votes is a block of the round.
LEMMA QuorumCertsOfRound ==
  ASSUME NEW r \in RoundStates, PendingOK(r), NEW q \in QuorumCerts(r)
  PROVE  q \in Blocks /\ q.round = r.round
  BY DEF QuorumCerts, PendingOK, RoundStates, AnyVote

\* What NewRound leaves of the old round.
LEMMA NewRoundStarts ==
  ASSUME NEW r \in RoundStates, NEW round \in 1 .. MaxRound
  PROVE  /\ NewRound(r, round) \in RoundStates
         /\ NewRound(r, round).round = round
         /\ NewRound(r, round).vote_sent = {}
         /\ PendingOK(NewRound(r, round))
         /\ TimersOK(NewRound(r, round))
         /\ CandidateOK(NewRound(r, round))
<1> DEFINE r1 == NewRound(r, round)
<1>0. r1 \in RoundStates
  <2>1. round \in 0 .. MaxRound /\ r.last_round_generated \in Nat
    BY MaxRoundPositive DEF RoundStates
  <2> QED
    BY <2>1, Zenon DEF NewRound, NoRound, RoundStates
<1>1. /\ r1.round = round /\ r1.vote_sent = {} /\ r1.votes = {}
      /\ r1.li_votes = {} /\ r1.partial_tc = {} /\ r1.local_timers = 1
      /\ r1.candidate = {}
  BY Zenon DEF NewRound, NoRound
<1>2. r1.new_round_sent = FALSE /\ r1.new_round_timer = FALSE
  BY Zenon DEF NewRound, NoRound
<1> HIDE DEF r1
<1>3. ~ CheckVotingPower({})
  BY QuorumsIntersect
<1>4. QuorumCerts(r1) = {}
  BY <1>1, Zenon DEF QuorumCerts
<1>5. PendingOK(r1)
  BY <1>1, <1>2, <1>3, <1>4, Zenon DEF PendingOK, Certificate
<1> QED
  BY <1>0, <1>1, <1>5 DEF TimersOK, CandidateOK, r1

\* More votes leave the quorum certificates there are.
LEMMA QuorumCertsGrow ==
  ASSUME NEW r \in RoundStates, NEW r1 \in RoundStates, r.li_votes \subseteq r1.li_votes
  PROVE  QuorumCerts(r) \subseteq QuorumCerts(r1)
<1> SUFFICES ASSUME NEW b \in QuorumCerts(r) PROVE b \in QuorumCerts(r1)
  BY Zenon
<1>1. /\ \E v \in r.li_votes : v.block = b
      /\ CheckVotingPower(Signers(r, b))
  BY Zenon DEF QuorumCerts
<1>2. Signers(r, b) \subseteq Signers(r1, b)
  BY Zenon DEF Signers
<1>3. CheckVotingPower(Signers(r1, b))
  BY <1>1, <1>2, SignersAreValidators, MoreVotingPower, Zenon
<1> QED
  BY <1>1, <1>3, Zenon DEF QuorumCerts

\* A vote makes a quorum certificate for its own block only.
LEMMA QuorumCertsOfVote ==
  ASSUME NEW r \in RoundStates, NEW r1 \in RoundStates, NEW v \in AnyVote,
         r1.li_votes = r.li_votes \cup {[author |-> v.author, block |-> v.block]}
  PROVE  /\ QuorumCerts(r1) \subseteq QuorumCerts(r) \cup {v.block}
         /\ v.block \in QuorumCerts(r1) <=> CheckVotingPower(Signers(r1, v.block))
<1>1. ASSUME NEW b \in QuorumCerts(r1), b # v.block PROVE b \in QuorumCerts(r)
  <2>1. Signers(r1, b) = Signers(r, b)
    BY <1>1 DEF Signers
  <2>2. \E w \in r.li_votes : w.block = b
    BY <1>1 DEF QuorumCerts
  <2> QED
    BY <1>1, <2>1, <2>2, Zenon DEF QuorumCerts
<1>2. \E w \in r1.li_votes : w.block = v.block
  <2> DEFINE own == [author |-> v.author, block |-> v.block]
  <2>1. own \in r1.li_votes /\ own.block = v.block
    BY Zenon
  <2> QED
    BY <2>1, Zenon
<1> QED
  BY <1>1, <1>2, Zenon DEF QuorumCerts

\* The votes after a vote that is neither a duplicate nor an equivocation.
VotesWith(r, v) ==
  [r EXCEPT !.votes = (@ \ Seen(r, v)) \cup {v},
            !.li_votes = @ \cup {[author |-> v.author, block |-> v.block]}]

\* insert_vote keeps one vote per author, the new one included.
LEMMA VotesWithFields ==
  ASSUME NEW r \in RoundStates, PendingOK(r), NEW v \in AnyVote,
         v.block.round = r.round, ~ Equivocates(r, v)
  PROVE  LET r1 == VotesWith(r, v)
         IN  /\ r1 \in RoundStates
             /\ r1 = [r EXCEPT !.votes = r1.votes, !.li_votes = r1.li_votes]
             /\ r1.li_votes = r.li_votes \cup {[author |-> v.author, block |-> v.block]}
             /\ \A x, y \in r1.votes : x.author = y.author => x = y
             /\ \A x \in r1.votes : x.block.round = r.round
             /\ r1.li_votes = {[author |-> x.author, block |-> x.block] : x \in r1.votes}
             /\ {x.author : x \in r.votes} \cup {v.author}
                  \subseteq {x.author : x \in r1.votes}
<1> DEFINE r1 == VotesWith(r, v)
<1> DEFINE votes == (r.votes \ Seen(r, v)) \cup {v}
<1> DEFINE li == r.li_votes \cup {[author |-> v.author, block |-> v.block]}
<1>1. /\ votes \in SUBSET AnyVote
      /\ li \in SUBSET [author : Validators, block : Blocks]
  BY DEF RoundStates, AnyVote
<1>2. r1 = [r EXCEPT !.votes = votes, !.li_votes = li]
  BY Zenon DEF VotesWith
<1>3. \A x \in Seen(r, v) : x.author = v.author /\ x.block = v.block /\ x \in r.votes
  BY Zenon DEF Seen, Equivocates
<1>4. \A x \in r.votes : x.author = v.author => x \in Seen(r, v)
  BY Zenon DEF Seen
<1>5. \A x, y \in votes : x.author = y.author => x = y
  BY <1>4, Zenon DEF PendingOK
<1>6. \A x \in votes : x.block.round = r.round
  BY Zenon DEF PendingOK
<1>7. li = {[author |-> x.author, block |-> x.block] : x \in votes}
  <2>1. r.li_votes = {[author |-> x.author, block |-> x.block] : x \in r.votes}
    BY Zenon DEF PendingOK
  <2> QED
    BY <1>3, <2>1, Zenon
<1>8. {x.author : x \in r.votes} \cup {v.author} \subseteq {x.author : x \in votes}
  BY <1>3, Zenon
<1> HIDE DEF votes, li, r1
<1>9. r1 \in RoundStates /\ r1.votes = votes /\ r1.li_votes = li
  BY <1>1, <1>2, Zenon DEF RoundStates
<1> QED
  BY <1>2, <1>5, <1>6, <1>7, <1>8, <1>9, Zenon DEF votes, li, r1

\* What a vote does not touch in the round state.
SameRound(r, r1) ==
  /\ r1.round = r.round /\ r1.vote_sent = r.vote_sent
  /\ r1.local_timers = r.local_timers /\ r1.proposal_timer = r.proposal_timer
  /\ r1.candidate = r.candidate

\* setup_new_round_timeout changes the new-round timer only, and sets it at
\* most once.
LEMMA SetupNewRoundTimeoutFields ==
  ASSUME NEW r \in RoundStates
  PROVE  LET r1 == SetupNewRoundTimeout(r)
         IN  /\ r1 \in RoundStates
             /\ SameRound(r, r1)
             /\ r1.votes = r.votes /\ r1.li_votes = r.li_votes
             /\ r1.partial_tc = r.partial_tc
             /\ r1.new_round_sent
             /\ ~ r1.new_round_timer => r.new_round_sent /\ ~ r.new_round_timer
<1>1. CASE r.new_round_sent
  BY <1>1, Zenon DEF SetupNewRoundTimeout, SameRound
<1>2. CASE ~ r.new_round_sent
  <2>1. SetupNewRoundTimeout(r)
          = [r EXCEPT !.new_round_sent = TRUE, !.new_round_timer = TRUE]
    BY <1>2, Zenon DEF SetupNewRoundTimeout
  <2> QED
    BY <2>1, Zenon DEF RoundStates, SameRound
<1> QED
  BY <1>1, <1>2, Zenon

\* PendingVotes::insert_vote keeps one vote per author, and sets the timer
\* with the first certificate.
LEMMA InsertVoteKeeps ==
  ASSUME NEW r \in RoundStates, PendingOK(r), NEW v \in AnyVote,
         v.block.round = r.round, ~ Equivocates(r, v)
  PROVE  LET r1 == InsertVote(r, v)
         IN  r1 \in RoundStates /\ PendingOK(r1) /\ SameRound(r, r1)
<1> DEFINE r1 == VotesWith(r, v)
<1> DEFINE r2 == [r1 EXCEPT !.partial_tc = @ \cup {v.author}]
<1>1. /\ r1 \in RoundStates
      /\ r1 = [r EXCEPT !.votes = r1.votes, !.li_votes = r1.li_votes]
      /\ r1.li_votes = r.li_votes \cup {[author |-> v.author, block |-> v.block]}
      /\ \A x, y \in r1.votes : x.author = y.author => x = y
      /\ \A x \in r1.votes : x.block.round = r.round
      /\ r1.li_votes = {[author |-> x.author, block |-> x.block] : x \in r1.votes}
      /\ {x.author : x \in r.votes} \cup {v.author} \subseteq {x.author : x \in r1.votes}
  BY VotesWithFields, Zenon
<1>2. InsertVote(r, v) =
        IF CheckVotingPower(Signers(r1, v.block)) THEN SetupNewRoundTimeout(r1)
        ELSE IF ~ v.timeout THEN r1
        ELSE IF CheckVotingPower(r2.partial_tc) THEN SetupNewRoundTimeout(r2)
        ELSE r2
  BY Zenon DEF InsertVote, VotesWith
<1> HIDE DEF r1
<1>3. /\ SameRound(r, r1) /\ r1.partial_tc = r.partial_tc
      /\ r1.new_round_sent = r.new_round_sent /\ r1.new_round_timer = r.new_round_timer
  BY <1>1, Zenon DEF RoundStates, SameRound
<1>4. /\ r2 \in RoundStates /\ SameRound(r, r2) /\ r2.votes = r1.votes
      /\ r2.li_votes = r1.li_votes /\ r2.partial_tc = r.partial_tc \cup {v.author}
      /\ r2.new_round_sent = r.new_round_sent /\ r2.new_round_timer = r.new_round_timer
  BY <1>1, <1>3, Zenon DEF RoundStates, SameRound, AnyVote
<1> HIDE DEF r2
<1>5. QuorumCerts(r) \subseteq QuorumCerts(r1)
  BY <1>1, QuorumCertsGrow, Zenon
<1>6. QuorumCerts(r2) = QuorumCerts(r1)
  BY <1>4, Zenon DEF QuorumCerts, Signers
<1>7. /\ QuorumCerts(r1) \subseteq QuorumCerts(r) \cup {v.block}
      /\ v.block \in QuorumCerts(r1) <=> CheckVotingPower(Signers(r1, v.block))
  BY <1>1, QuorumCertsOfVote, Zenon
<1>8. /\ r.partial_tc \subseteq {x.author : x \in r1.votes}
      /\ r2.partial_tc \subseteq {x.author : x \in r1.votes}
  BY <1>1, <1>4, Zenon DEF PendingOK
<1>9. CheckVotingPower(r.partial_tc) => CheckVotingPower(r2.partial_tc)
  BY <1>4, MoreVotingPower, Zenon DEF RoundStates
<1>10. CASE CheckVotingPower(Signers(r1, v.block))
  <2>1. InsertVote(r, v) = SetupNewRoundTimeout(r1)
    BY <1>2, <1>10, Zenon
  <2> DEFINE r3 == SetupNewRoundTimeout(r1)
  <2>2. /\ r3 \in RoundStates /\ SameRound(r1, r3) /\ r3.votes = r1.votes
        /\ r3.li_votes = r1.li_votes /\ r3.partial_tc = r1.partial_tc /\ r3.new_round_sent
    BY <1>1, SetupNewRoundTimeoutFields, Zenon
  <2> HIDE DEF r3
  <2>3. QuorumCerts(r3) # {}
    <3>1. QuorumCerts(r3) = QuorumCerts(r1)
      BY <2>2, Zenon DEF QuorumCerts, Signers
    <3> QED
      BY <3>1, <1>7, <1>10, Zenon
  <2>4. SameRound(r, r3)
    BY <2>2, <1>3, Zenon DEF SameRound
  <2>5. PendingOK(r3)
    BY <1>1, <1>3, <1>8, <2>2, <2>3, <2>4, Zenon DEF PendingOK, Certificate, SameRound
  <2> QED
    BY <2>1, <2>2, <2>4, <2>5, Zenon DEF r3
<1>11. CASE ~ CheckVotingPower(Signers(r1, v.block)) /\ ~ v.timeout
  <2>1. InsertVote(r, v) = r1
    BY <1>2, <1>11, Zenon
  <2>2. QuorumCerts(r1) = QuorumCerts(r)
    BY <1>5, <1>7, <1>11, Zenon
  <2>3. Certificate(r1) <=> Certificate(r)
    BY <2>2, <1>3, Zenon DEF Certificate
  <2>4. PendingOK(r1)
    BY <1>1, <1>3, <1>8, <2>2, <2>3, Zenon DEF PendingOK, SameRound
  <2> QED
    BY <1>1, <1>3, <2>1, <2>4, Zenon
<1>12. CASE /\ ~ CheckVotingPower(Signers(r1, v.block)) /\ v.timeout
            /\ CheckVotingPower(r2.partial_tc)
  <2>1. InsertVote(r, v) = SetupNewRoundTimeout(r2)
    BY <1>2, <1>12, Zenon
  <2> DEFINE r3 == SetupNewRoundTimeout(r2)
  <2>2. /\ r3 \in RoundStates /\ SameRound(r2, r3) /\ r3.votes = r2.votes
        /\ r3.li_votes = r2.li_votes /\ r3.partial_tc = r2.partial_tc /\ r3.new_round_sent
        /\ ~ r3.new_round_timer => r2.new_round_sent /\ ~ r2.new_round_timer
    BY <1>4, SetupNewRoundTimeoutFields, Zenon
  <2> HIDE DEF r3
  <2>3. Certificate(r3)
    BY <1>12, <2>2, Zenon DEF Certificate
  <2>4. ~ r3.new_round_timer => QuorumCerts(r3) # {}
    <3>1. QuorumCerts(r3) = QuorumCerts(r1)
      BY <2>2, <1>6, Zenon DEF QuorumCerts, Signers
    <3>2. ~ r3.new_round_timer => QuorumCerts(r) # {}
      BY <1>4, <2>2, Zenon DEF PendingOK
    <3> QED
      BY <3>1, <3>2, <1>5, Zenon
  <2>5. SameRound(r, r3)
    BY <1>4, <2>2, Zenon DEF SameRound
  <2>6. PendingOK(r3)
    BY <1>1, <1>4, <1>8, <2>2, <2>3, <2>4, <2>5 DEF PendingOK, SameRound
  <2> QED
    BY <2>1, <2>2, <2>5, <2>6, Zenon DEF r3
<1>13. CASE /\ ~ CheckVotingPower(Signers(r1, v.block)) /\ v.timeout
            /\ ~ CheckVotingPower(r2.partial_tc)
  <2>1. InsertVote(r, v) = r2
    BY <1>2, <1>13, Zenon
  <2>2. QuorumCerts(r2) = QuorumCerts(r)
    BY <1>5, <1>6, <1>7, <1>13, Zenon
  <2>3. Certificate(r2) <=> Certificate(r)
    BY <1>9, <1>13, <2>2, Zenon DEF Certificate
  <2>4. PendingOK(r2)
    BY <1>1, <1>4, <1>8, <2>2, <2>3, Zenon DEF PendingOK, SameRound
  <2> QED
    BY <1>4, <2>1, <2>4, Zenon
<1> QED
  BY <1>10, <1>11, <1>12, <1>13, Zenon

-----------------------------------------------------------------------------
(* Handlers: the state of a node between two calls                         *)

Works ==
  [rs : RoundStates, store : Stores, sd : SafetyData(Blocks), saved : SUBSET Blocks,
   vote : SUBSET Blocks, out : SUBSET Messages, ok : BOOLEAN]

\* Of another node's votes a node sends only those it has received.
RelayOK(n, out) ==
  \A m \in out : m.type = "vote" /\ m.vote.author \in Node \ {n}
                   => m.vote.block \in Sent(m.vote.author, msgs)

\* No vote of n in out is a new one.
NoneNew(n, out) == Sent(n, out) \subseteq Sent(n, msgs)

\* A new vote of n in out is one of the round, and above all those sent before.
NewOK(n, round, out) ==
  \A b \in Sent(n, out) \ Sent(n, msgs) :
    b.round = round /\ \A c \in Sent(n, msgs) : c.round < b.round

PartsOK(n, r, st, d, sv, out) ==
  /\ DiskOK(st, d, sv, Sent(n, msgs \cup out))
  /\ RunOK(n, r, st, d, sv, Sent(n, msgs \cup out))
  /\ RelayOK(n, out)
  /\ NewOK(n, r.round, out)

WorkOK(n, w) ==
  w \in Works /\ PartsOK(n, w.rs, w.store, w.sd, w.saved, w.out)

SameNode(w, x) ==
  x.rs = w.rs /\ x.store = w.store /\ x.sd = w.sd /\ x.saved = w.saved /\ x.vote = w.vote

\* A handler that fails keeps what it has done so far.
LEMMA FailKeeps ==
  ASSUME NEW n, NEW w, WorkOK(n, w)
  PROVE  WorkOK(n, Fail(w)) /\ ~ Fail(w).ok /\ SameNode(w, Fail(w)) /\ Fail(w).out = w.out
<1>1. /\ Fail(w) \in Works /\ SameNode(w, Fail(w)) /\ Fail(w).out = w.out
      /\ Fail(w).ok = FALSE
  BY Zenon DEF WorkOK, Works, Fail, SameNode
<1> QED
  BY <1>1, Zenon DEF WorkOK, SameNode

\* The votes among the messages sent, after one more message.
LEMMA SentMore ==
  ASSUME NEW n, NEW M, NEW m
  PROVE  Sent(n, M \cup {m}) = Sent(n, M) \cup
           (IF m.type = "vote" /\ m.vote.author = n THEN {m.vote.block} ELSE {})
  BY Zenon DEF Sent

\* A message that is no vote.
LEMMA SendOther ==
  ASSUME NEW n, NEW w, WorkOK(n, w), NEW m \in Messages, m.type # "vote"
  PROVE  /\ WorkOK(n, Send(w, m)) /\ SameNode(w, Send(w, m)) /\ Send(w, m).ok = w.ok
         /\ Sent(n, Send(w, m).out) = Sent(n, w.out)
<1>1. CASE m.to = {}
  BY <1>1, Zenon DEF Send, SameNode
<1>2. CASE m.to # {}
  <2> DEFINE x == Send(w, m)
  <2>1. x \in Works /\ SameNode(w, x) /\ x.out = w.out \cup {m} /\ x.ok = w.ok
    BY <1>2, Zenon DEF Send, WorkOK, Works, SameNode
  <2> HIDE DEF x
  <2>2. Sent(n, msgs \cup x.out) = Sent(n, msgs \cup w.out)
    <3>1. msgs \cup x.out = (msgs \cup w.out) \cup {m}
      BY <2>1, Zenon
    <3>2. Sent(n, (msgs \cup w.out) \cup {m}) = Sent(n, msgs \cup w.out) \cup {}
      BY SentMore, Zenon
    <3> QED
      BY <3>1, <3>2, Zenon
  <2>3. RelayOK(n, x.out)
    BY <2>1, Zenon DEF RelayOK, WorkOK, PartsOK
  <2>4. Sent(n, x.out) = Sent(n, w.out)
    <3>1. Sent(n, w.out \cup {m}) = Sent(n, w.out) \cup {}
      BY SentMore, Zenon
    <3> QED
      BY <2>1, <3>1, Zenon
  <2>5. NewOK(n, x.rs.round, x.out)
    BY <2>1, <2>4, Zenon DEF NewOK, WorkOK, PartsOK, SameNode
  <2>6. WorkOK(n, x)
    BY <2>1, <2>2, <2>3, <2>5, Zenon DEF WorkOK, PartsOK, SameNode
  <2> QED
    BY <2>1, <2>4, <2>6, Zenon DEF x
<1> QED
  BY <1>1, <1>2, Zenon

\* The two updates of SafetyData that leave the votes alone.
LEMMA PreferredRoundKeeps ==
  ASSUME NEW n, NEW w, WorkOK(n, w), NEW b \in Blocks
  PROVE  LET x == [w EXCEPT !.sd = AfterPropose(b, @)]
         IN  WorkOK(n, x) /\ x.rs = w.rs /\ x.store = w.store /\ x.ok = w.ok
<1> DEFINE d == AfterPropose(b, w.sd)
<1> DEFINE x == [w EXCEPT !.sd = AfterPropose(b, @)]
<1>1. w \in Works /\ w.sd \in SafetyData(Blocks)
  BY Zenon DEF WorkOK, Works
<1>2. /\ d \in SafetyData(Blocks) /\ d.epoch = w.sd.epoch
      /\ d.last_voted_round = w.sd.last_voted_round /\ d.last_vote = w.sd.last_vote
      /\ d.preferred_round >= w.sd.preferred_round
  BY <1>1, BlockFields DEF AfterPropose, UpdatePreferredRound, SafetyData
<1>3. x = [w EXCEPT !.sd = d]
  BY Zenon
<1> HIDE DEF d, x
<1>4. /\ x \in Works /\ x.rs = w.rs /\ x.store = w.store /\ x.saved = w.saved
      /\ x.out = w.out /\ x.sd = d /\ x.ok = w.ok
  BY <1>1, <1>2, <1>3, Zenon DEF Works
<1>5. DiskOK(x.store, x.sd, x.saved, Sent(n, msgs \cup x.out))
  <2> DEFINE sent == Sent(n, msgs \cup w.out)
  <2>1. DiskOK(w.store, w.sd, w.saved, sent)
    BY Zenon DEF WorkOK, PartsOK
  <2> HIDE DEF sent
  <2>2. LastVoteOK(w.store, d) /\ SavedOK(d, w.saved) /\ SentOK(d, w.saved, sent)
    BY <1>2, <2>1, Zenon DEF DiskOK, LastVoteOK, SavedOK, SentOK
  <2>3. LockOK(d, sent)
    <3>1. d.preferred_round \in Nat /\ w.sd.preferred_round \in Nat
      BY <1>1, <1>2, Zenon DEF SafetyData
    <3>2. \A c \in sent \cup w.sd.last_vote : c.two_chain_round \in Nat
      BY <1>1, <2>1, BlockFields DEF DiskOK, SafetyData
    <3>3. LockOK(w.sd, sent)
      BY <2>1, Zenon DEF DiskOK
    <3> QED
      BY <1>2, <3>1, <3>2, <3>3 DEF LockOK
  <2> QED
    BY <1>2, <1>4, <2>1, <2>2, <2>3, Zenon DEF DiskOK, sent
<1>6. RunOK(n, x.rs, x.store, x.sd, x.saved, Sent(n, msgs \cup x.out))
  BY <1>2, <1>4, Zenon DEF WorkOK, PartsOK, RunOK, VoteSentOK
<1>7. RelayOK(n, x.out)
  BY <1>4, Zenon DEF WorkOK, PartsOK
<1>8. WorkOK(n, x)
  BY <1>4, <1>5, <1>6, <1>7, Zenon DEF WorkOK, PartsOK
<1> QED
  BY <1>4, <1>8, Zenon DEF x

\* ProposalGenerator::generate_proposal in a round that a certificate started.
LEMMA GenerateProposalKeeps ==
  ASSUME NEW n \in Node \cap Proposers, NEW w, WorkOK(n, w),
         w.store.hqc.round < w.rs.round, NEW x \in GenerateProposal(n, w)
  PROVE  WorkOK(n, x) /\ x.rs.round = w.rs.round
<1> DEFINE round == w.rs.round
<1> DEFINE b == Extends(w.store.hqc, round, n)
<1> DEFINE w1 == [w EXCEPT !.rs.last_round_generated = round]
<1> DEFINE w2 == [w1 EXCEPT !.sd = AfterPropose(b, @)]
<1> DEFINE m == ProposalMsg(b, SyncInfo(w.store))
<1>1. w \in Works /\ w.rs \in RoundStates /\ w.store \in Stores
  BY Zenon DEF WorkOK, Works
<1>2. round \in 1 .. MaxRound
  BY <1>1 DEF WorkOK, PartsOK, RunOK, RoundStates
<1>3. b \in Blocks
  BY <1>1, <1>2, ExtendsBlock, Zenon DEF Stores
<1>4. m \in Messages /\ m.type # "vote"
  <2>1. SyncInfo(w.store) \in SyncInfos
    BY <1>1, SyncInfoOfStore, Zenon
  <2> HIDE DEF b
  <2> QED
    BY <1>3, <2>1, Zenon DEF ProposalMsg, Messages
<1>5. x \in {Fail(w), Fail(w1), Send(w2, m)}
  BY Zenon DEF GenerateProposal, If
<1> HIDE DEF b, m
<1>6. WorkOK(n, w1) /\ w1.rs.round = round
  <2> DEFINE r == [w.rs EXCEPT !.last_round_generated = round]
  <2>1. /\ r \in RoundStates /\ SameRound(w.rs, r) /\ r.votes = w.rs.votes
        /\ r.li_votes = w.rs.li_votes /\ r.partial_tc = w.rs.partial_tc
        /\ r.new_round_sent = w.rs.new_round_sent
        /\ r.new_round_timer = w.rs.new_round_timer
    BY <1>1, <1>2 DEF RoundStates, SameRound
  <2>2. w1 = [w EXCEPT !.rs = r]
    BY <1>1, Zenon DEF Works
  <2> HIDE DEF r, round, w1
  <2>3. /\ w1 \in Works /\ w1.rs = r /\ w1.store = w.store /\ w1.sd = w.sd
        /\ w1.saved = w.saved /\ w1.out = w.out
    BY <1>1, <2>1, <2>2, Zenon DEF Works
  <2>4. PendingOK(r)
    <3>1. QuorumCerts(r) = QuorumCerts(w.rs)
      BY <2>1, Zenon DEF QuorumCerts, Signers
    <3>2. PendingOK(w.rs)
      BY Zenon DEF WorkOK, PartsOK, RunOK
    <3> QED
      BY <2>1, <3>1, <3>2, Zenon DEF PendingOK, Certificate, SameRound
  <2>5. RunOK(n, r, w.store, w.sd, w.saved, Sent(n, msgs \cup w.out))
    <3> DEFINE sent == Sent(n, msgs \cup w.out)
    <3>1. RunOK(n, w.rs, w.store, w.sd, w.saved, sent)
      BY Zenon DEF WorkOK, PartsOK
    <3> HIDE DEF sent
    <3>2. TimersOK(r) /\ VoteSentOK(n, r, w.sd, w.saved)
      BY <2>1, <3>1, Zenon DEF RunOK, SameRound, TimersOK, VoteSentOK
    <3>3. Knows(r, sent) /\ CandidateOK(r)
      BY <2>1, <3>1, Zenon DEF RunOK, SameRound, Knows, CandidateOK
    <3>4. r.round >= 1 /\ r.round <= NextRound(w.store)
      BY <2>1, <3>1, Zenon DEF RunOK, SameRound
    <3> QED
      BY <2>1, <2>4, <3>2, <3>3, <3>4, Zenon DEF RunOK, sent
  <2> QED
    BY <2>1, <2>3, <2>5, Zenon DEF WorkOK, PartsOK, SameRound, round
<1> HIDE DEF round, w1
<1>7. WorkOK(n, w2) /\ w2.rs = w1.rs
  BY <1>3, <1>6, PreferredRoundKeeps, Zenon
<1> HIDE DEF w2
<1>8. CASE x = Fail(w)
  BY <1>8, FailKeeps, Zenon DEF SameNode
<1>9. CASE x = Fail(w1)
  BY <1>6, <1>9, FailKeeps, Zenon DEF SameNode, round
<1>10. CASE x = Send(w2, m)
  BY <1>4, <1>6, <1>7, <1>10, SendOther DEF SameNode, round
<1> QED
  BY <1>5, <1>8, <1>9, <1>10, Zenon

\* process_new_round_event may send a proposal.
LEMMA ProcessNewRoundEventKeeps ==
  ASSUME NEW n \in Node, NEW w, WorkOK(n, w),
         w.store.hqc.round < w.rs.round, NEW x \in ProcessNewRoundEvent(n, w)
  PROVE  WorkOK(n, x) /\ x.rs.round = w.rs.round
<1>1. CASE n \in Proposers /\ w.rs.round < MaxRound
  <2>1. x \in GenerateProposal(n, w)
    BY <1>1, Zenon DEF ProcessNewRoundEvent
  <2> QED
    BY <1>1, <2>1, GenerateProposalKeeps, Zenon
<1>2. CASE ~ (n \in Proposers /\ w.rs.round < MaxRound)
  <2>1. x = w
    BY <1>2, Zenon DEF ProcessNewRoundEvent
  <2> QED
    BY <2>1, Zenon
<1> QED
  BY <1>1, <1>2, Zenon

\* Entering a round replaces the round's state and leaves the store's
\* certificates alone.
LEMMA StartRoundFields ==
  ASSUME NEW w \in Works, NEW round \in 1 .. MaxRound
  PROVE  LET x == StartRound(w, round)
         IN  /\ x \in Works /\ x.rs = NewRound(w.rs, round)
             /\ x.store.hqc = w.store.hqc /\ NextRound(x.store) = NextRound(w.store)
             /\ x.sd = w.sd /\ x.saved = w.saved /\ x.out = w.out /\ x.ok = w.ok
<1> DEFINE x == StartRound(w, round)
<1> DEFINE r == NewRound(w.rs, round)
<1> DEFINE st == [w.store EXCEPT !.blocks = {b \in @ : b.round >= round}]
<1>1. r \in RoundStates
  BY NewRoundStarts, Zenon DEF Works
<1>2. st \in Stores /\ st.hqc = w.store.hqc /\ st.htc = w.store.htc
  BY Zenon DEF Stores, Works
<1>3. x = [w EXCEPT !.rs = r, !.store = st]
  BY Zenon DEF StartRound, Works
<1> HIDE DEF x, r, st
<1>4. NextRound(st) = NextRound(w.store)
  BY <1>2, Zenon DEF NextRound, HighestRound, SyncInfo
<1>5. /\ x \in Works /\ x.rs = r /\ x.store = st /\ x.sd = w.sd /\ x.saved = w.saved
      /\ x.out = w.out /\ x.ok = w.ok
  BY <1>1, <1>2, <1>3, Zenon DEF Works
<1> QED
  BY <1>2, <1>4, <1>5, Zenon DEF x, r

\* A new round, whatever the round state was before.
LEMMA StartRoundKeeps ==
  ASSUME NEW n \in Node, NEW w \in Works, NEW round, round = NextRound(w.store),
         DiskOK(w.store, w.sd, w.saved, Sent(n, msgs \cup w.out)),
         RelayOK(n, w.out), NoneNew(n, w.out),
         \A b \in Sent(n, msgs \cup w.out) : b.round < round
  PROVE  LET x == StartRound(w, round)
         IN  WorkOK(n, x) /\ x.store.hqc.round < x.rs.round /\ x.rs.round = round
<1> DEFINE x == StartRound(w, round)
<1> DEFINE r == NewRound(w.rs, round)
<1>1. w.rs \in RoundStates /\ w.store \in Stores
  BY Zenon DEF Works
<1>2. /\ round \in 1 .. MaxRound /\ w.store.hqc.round < round
      /\ w.store.hqc.round \in 0 .. MaxRound - 1
  <2>1. w.store.hqc.round \in Nat /\ w.store.htc \in Nat
    BY <1>1, CertificateFields DEF Stores
  <2> QED
    BY <1>1, <2>1, SyncInfoOfStore, CertificateFields DEF Stores
<1>3. /\ x \in Works /\ x.rs = r /\ x.store.hqc = w.store.hqc
      /\ NextRound(x.store) = NextRound(w.store)
      /\ x.sd = w.sd /\ x.saved = w.saved /\ x.out = w.out /\ x.ok = w.ok
  BY <1>2, StartRoundFields, Zenon
<1>4. /\ r \in RoundStates /\ r.round = round /\ r.vote_sent = {}
      /\ PendingOK(r) /\ TimersOK(r) /\ CandidateOK(r)
  BY <1>1, <1>2, NewRoundStarts, Zenon
<1> HIDE DEF x, r
<1>5. x.store \in Stores
  BY <1>3, Zenon DEF Works
<1>6. DiskOK(x.store, x.sd, x.saved, Sent(n, msgs \cup x.out))
  BY <1>1, <1>2, <1>3, <1>5, DiskKept
<1>7. Knows(r, Sent(n, msgs \cup x.out))
  BY <1>3, <1>4, Zenon DEF Knows
<1>8. VoteSentOK(n, r, x.sd, x.saved)
  BY <1>4, Zenon DEF VoteSentOK
<1>9. RunOK(n, r, x.store, x.sd, x.saved, Sent(n, msgs \cup x.out))
  BY <1>2, <1>3, <1>4, <1>7, <1>8 DEF RunOK
<1>10. NewOK(n, r.round, x.out)
  BY <1>3, Zenon DEF NewOK, NoneNew
<1> QED
  BY <1>2, <1>3, <1>4, <1>6, <1>9, <1>10, Zenon DEF WorkOK, PartsOK, x

\* process_certificates; the caller may have let the timer of the round fire,
\* if the certificates start a new one.
LEMMA ProcessCertificatesKeeps ==
  ASSUME NEW n \in Node, NEW w \in Works,
         DiskOK(w.store, w.sd, w.saved, Sent(n, msgs \cup w.out)),
         RelayOK(n, w.out), NoneNew(n, w.out), Knows(w.rs, Sent(n, msgs \cup w.out)),
         NextRound(w.store) > w.rs.round \/ WorkOK(n, w),
         NEW x \in ProcessCertificates(n, w)
  PROVE  WorkOK(n, x)
<1> DEFINE round == NextRound(w.store)
<1>1. CASE round > w.rs.round
  <2>1. x \in ProcessNewRoundEvent(n, StartRound(w, round))
    BY <1>1, Zenon DEF ProcessCertificates, NextRound
  <2>2. \A b \in Sent(n, msgs \cup w.out) : b.round < round
    <3>1. w.rs.round \in Nat /\ round \in Nat
      BY SyncInfoOfStore DEF Works, RoundStates
    <3>2. \A b \in Sent(n, msgs \cup w.out) : b.round <= w.rs.round /\ b.round \in Nat
      <4> TAKE b \in Sent(n, msgs \cup w.out)
      <4>1. b.round \in Nat
        BY BlockFields DEF DiskOK
      <4>2. w.rs.round > b.round \/ w.rs.round = b.round
        BY Zenon DEF Knows
      <4> QED
        BY <3>1, <4>1, <4>2
    <3> QED
      BY <1>1, <3>1, <3>2
  <2> DEFINE w1 == StartRound(w, round)
  <2>3. WorkOK(n, w1) /\ w1.store.hqc.round < w1.rs.round
    BY <2>2, StartRoundKeeps, Zenon
  <2> HIDE DEF w1
  <2> QED
    BY <2>1, <2>3, ProcessNewRoundEventKeeps, Zenon DEF w1
<1>2. CASE ~ (round > w.rs.round)
  <2>1. x = w
    BY <1>2, Zenon DEF ProcessCertificates, NextRound
  <2> QED
    BY <1>2, <2>1, Zenon
<1> QED
  BY <1>1, <1>2, Zenon

\* BlockTree::insert_quorum_cert: the highest certificates only rise.
LEMMA WithQuorumCertKeeps ==
  ASSUME NEW n, NEW w, WorkOK(n, w), NEW q \in Certificates
  PROVE  LET x == WithQuorumCert(w, q)
         IN  /\ WorkOK(n, x) /\ x.rs = w.rs /\ x.ok = w.ok /\ x.store.htc = w.store.htc
             /\ x.store.hqc.round >= q.round /\ x.store.hqc.round >= w.store.hqc.round
             /\ x.out = w.out
<1> DEFINE hqc == IF q.round > w.store.hqc.round THEN q ELSE w.store.hqc
<1> DEFINE hcc == IF CommitRound(q) > CommitRound(w.store.hcc) THEN q ELSE w.store.hcc
<1> DEFINE st == [w.store EXCEPT !.hqc = hqc, !.hcc = hcc]
<1> DEFINE x == WithQuorumCert(w, q)
<1>1. /\ w \in Works /\ w.store \in Stores
      /\ w.store.hqc \in Certificates /\ w.store.hcc \in Certificates
  BY Zenon DEF WorkOK, Works, Stores
<1>2. hqc \in Certificates /\ hcc \in Certificates
  BY <1>1, Zenon
<1>3. hqc.round >= q.round /\ hqc.round >= w.store.hqc.round
  BY <1>1, CertificateFields
<1>4. x = [w EXCEPT !.store = st]
  BY <1>1, Zenon DEF WithQuorumCert, Works, Stores
<1> HIDE DEF hqc, hcc
<1>5. st \in Stores /\ st.hqc = hqc /\ st.htc = w.store.htc
  BY <1>1, <1>2, Zenon DEF Stores
<1> HIDE DEF st, x
<1>6. /\ x \in Works /\ x.store = st /\ x.rs = w.rs /\ x.sd = w.sd
      /\ x.saved = w.saved /\ x.out = w.out /\ x.ok = w.ok
  BY <1>1, <1>4, <1>5, Zenon DEF Works
<1>7. NextRound(st) >= NextRound(w.store)
  <2>1. w.store.htc \in Nat
    BY <1>1 DEF Stores
  <2> QED
    BY <1>1, <1>3, <1>5, <2>1, NextRoundGrows
<1>8. DiskOK(st, w.sd, w.saved, Sent(n, msgs \cup w.out))
  BY <1>1, <1>5, <1>7, DiskKept, Zenon DEF WorkOK, PartsOK
<1>9. RunOK(n, w.rs, st, w.sd, w.saved, Sent(n, msgs \cup w.out))
  <2>1. w.rs.round \in Nat /\ NextRound(st) \in Nat /\ NextRound(w.store) \in Nat
    BY <1>1, <1>5, SyncInfoOfStore DEF Works, RoundStates
  <2> QED
    BY <1>7, <2>1 DEF WorkOK, PartsOK, RunOK
<1>10. WorkOK(n, x)
  BY <1>6, <1>8, <1>9, Zenon DEF WorkOK, PartsOK
<1> QED
  BY <1>3, <1>5, <1>6, <1>10, Zenon DEF x

\* The store takes a quorum certificate.
LEMMA InsertQuorumCertKeeps ==
  ASSUME NEW n, NEW w, WorkOK(n, w), NEW q \in Certificates,
         NEW x \in InsertQuorumCert(w, q)
  PROVE  WorkOK(n, x) /\ x.rs = w.rs /\ x.out = w.out
<1> DEFINE w1 == WithQuorumCert(w, q)
<1>1. x \in {w1, Fail(w), Fail(w1)}
  BY Zenon DEF InsertQuorumCert, If
<1>2. WorkOK(n, w1) /\ w1.rs = w.rs /\ w1.out = w.out
  BY WithQuorumCertKeeps, Zenon
<1> HIDE DEF w1
<1> QED
  BY <1>1, <1>2, FailKeeps, Zenon DEF SameNode

\* A timeout certificate.  The round state may be one whose timer has fired.
LEMMA InsertTimeoutCertificateFields ==
  ASSUME NEW w \in Works, NEW tc \in 0 .. MaxRound - 1
  PROVE  LET x == InsertTimeoutCertificate(w, tc)
         IN  /\ x \in Works /\ x.rs = w.rs /\ x.sd = w.sd /\ x.saved = w.saved
             /\ x.out = w.out /\ x.ok = w.ok
             /\ NextRound(x.store) >= NextRound(w.store)
             /\ NextRound(x.store) > tc
<1> DEFINE htc == IF tc > w.store.htc THEN tc ELSE w.store.htc
<1> DEFINE st == [w.store EXCEPT !.htc = htc]
<1> DEFINE x == InsertTimeoutCertificate(w, tc)
<1>1. /\ w.store \in Stores /\ w.store.htc \in 0 .. MaxRound - 1
      /\ w.store.hqc \in Certificates
  BY Zenon DEF Works, Stores
<1>2. /\ htc \in 0 .. MaxRound - 1 /\ htc >= tc /\ htc >= w.store.htc
      /\ w.store.hqc.round \in 0 .. MaxRound - 1
  BY <1>1, CertificateFields
<1>3. x = [w EXCEPT !.store = st]
  BY Zenon DEF InsertTimeoutCertificate, Works, Stores
<1> HIDE DEF htc
<1>4. st \in Stores /\ st.hqc = w.store.hqc /\ st.htc = htc
  BY <1>1, <1>2, Zenon DEF Stores
<1> HIDE DEF st, x
<1>5. /\ x \in Works /\ x.store = st /\ x.rs = w.rs /\ x.sd = w.sd
      /\ x.saved = w.saved /\ x.out = w.out /\ x.ok = w.ok
  BY <1>3, <1>4, Zenon DEF Works
<1>6. NextRound(st) >= NextRound(w.store)
  BY <1>1, <1>2, <1>4, NextRoundGrows
<1>7. NextRound(st) > tc
  BY <1>1, <1>2, <1>4, SyncInfoOfStore
<1> QED
  BY <1>5, <1>6, <1>7, Zenon DEF x

\* The store takes a timeout certificate.
LEMMA InsertTimeoutCertificateKeeps ==
  ASSUME NEW n, NEW w, WorkOK(n, w), NEW tc \in 0 .. MaxRound - 1
  PROVE  /\ WorkOK(n, InsertTimeoutCertificate(w, tc))
         /\ InsertTimeoutCertificate(w, tc).out = w.out
<1> DEFINE x == InsertTimeoutCertificate(w, tc)
<1>1. w \in Works /\ w.store \in Stores
  BY Zenon DEF WorkOK, Works
<1>2. /\ x \in Works /\ x.rs = w.rs /\ x.sd = w.sd /\ x.saved = w.saved
      /\ x.out = w.out /\ NextRound(x.store) >= NextRound(w.store)
  BY <1>1, InsertTimeoutCertificateFields, Zenon
<1> HIDE DEF x
<1>3. x.store \in Stores
  BY <1>2, Zenon DEF Works
<1>4. DiskOK(x.store, w.sd, w.saved, Sent(n, msgs \cup w.out))
  BY <1>1, <1>2, <1>3, DiskKept, Zenon DEF WorkOK, PartsOK
<1>5. RunOK(n, w.rs, x.store, w.sd, w.saved, Sent(n, msgs \cup w.out))
  <2>1. w.rs.round \in Nat /\ NextRound(x.store) \in Nat /\ NextRound(w.store) \in Nat
    BY <1>1, <1>3, SyncInfoOfStore DEF Works, RoundStates
  <2> QED
    BY <1>2, <2>1 DEF WorkOK, PartsOK, RunOK
<1> QED
  BY <1>2, <1>4, <1>5, Zenon DEF WorkOK, PartsOK, x

\* SyncUp inserts the certificates of a message and starts their round.
LEMMA SyncUpKeeps ==
  ASSUME NEW n \in Node, NEW w, WorkOK(n, w), NoneNew(n, w.out), NEW i \in SyncInfos,
         NEW helped \in SUBSET Node, NEW x \in SyncUp(n, w, i, helped)
  PROVE  WorkOK(n, x)
<1> DEFINE local == SyncInfo(w.store)
<1> DEFINE w1 == IF helped # {} /\ HasNewerCertificates(local, i)
                 THEN Send(w, SyncInfoMsg(local, helped)) ELSE w
<1>1. WorkOK(n, w1) /\ NoneNew(n, w1.out)
  <2>1. local \in SyncInfos
    BY SyncInfoOfStore, Zenon DEF WorkOK, Works
  <2> HIDE DEF local
  <2> DEFINE m == SyncInfoMsg(local, helped)
  <2>2. m \in Messages /\ m.type # "vote"
    BY <2>1, Zenon DEF SyncInfoMsg, Messages
  <2> HIDE DEF m
  <2>3. WorkOK(n, Send(w, m)) /\ Sent(n, Send(w, m).out) = Sent(n, w.out)
    BY <2>2, SendOther, Zenon
  <2> QED
    BY <2>3, Zenon DEF m, NoneNew
<1> HIDE DEF w1
<1>2. i.hcc \in Certificates /\ i.hqc \in Certificates /\ i.tc \in 0 .. MaxRound - 1
  BY Zenon DEF SyncInfos
<1>3. CASE HasNewerCertificates(i, local)
  <2>1. x \in Then(InsertQuorumCert(w1, i.hcc), LAMBDA w2 :
              Then(InsertQuorumCert(w2, i.hqc), LAMBDA w3 :
              ProcessCertificates(n, InsertTimeoutCertificate(w3, i.tc))))
    BY <1>3, Zenon DEF SyncUp, w1
  <2>2. PICK w2 \in InsertQuorumCert(w1, i.hcc) :
          IF w2.ok THEN x \in Then(InsertQuorumCert(w2, i.hqc), LAMBDA w3 :
                         ProcessCertificates(n, InsertTimeoutCertificate(w3, i.tc)))
                   ELSE x = w2
    BY <2>1, Zenon DEF Then
  <2>3. WorkOK(n, w2) /\ w2.out = w1.out
    BY <1>1, <1>2, InsertQuorumCertKeeps, Zenon
  <2>4. CASE ~ w2.ok
    BY <2>2, <2>3, <2>4, Zenon
  <2>5. CASE w2.ok
    <3>1. PICK w3 \in InsertQuorumCert(w2, i.hqc) :
            IF w3.ok THEN x \in ProcessCertificates(n, InsertTimeoutCertificate(w3, i.tc))
                     ELSE x = w3
      BY <2>2, <2>5, Zenon DEF Then
    <3>2. WorkOK(n, w3) /\ w3.out = w1.out
      BY <1>2, <2>3, InsertQuorumCertKeeps, Zenon
    <3>3. CASE ~ w3.ok
      BY <3>1, <3>2, <3>3, Zenon
    <3>4. CASE w3.ok
      <4> DEFINE w4 == InsertTimeoutCertificate(w3, i.tc)
      <4>1. WorkOK(n, w4) /\ w4.out = w1.out
        BY <1>2, <3>2, InsertTimeoutCertificateKeeps, Zenon
      <4>2. x \in ProcessCertificates(n, w4)
        BY <3>1, <3>4, Zenon
      <4> HIDE DEF w4
      <4>3. /\ w4 \in Works /\ DiskOK(w4.store, w4.sd, w4.saved, Sent(n, msgs \cup w4.out))
            /\ RelayOK(n, w4.out) /\ Knows(w4.rs, Sent(n, msgs \cup w4.out))
            /\ NoneNew(n, w4.out)
        BY <1>1, <4>1, Zenon DEF WorkOK, PartsOK, RunOK
      <4> QED
        BY <4>1, <4>2, <4>3, ProcessCertificatesKeeps, Zenon
    <3> QED
      BY <3>3, <3>4, Zenon
  <2> QED
    BY <2>4, <2>5, Zenon
<1>4. CASE ~ HasNewerCertificates(i, local)
  <2>1. x = w1
    BY <1>4, Zenon DEF SyncUp, w1
  <2> QED
    BY <1>1, <2>1, Zenon
<1> QED
  BY <1>3, <1>4, Zenon

\* A handler starts from a node's state in a running process.
LEMMA WorkStarts ==
  ASSUME IInv, NEW n \in Node, up[n]
  PROVE  WorkOK(n, Work(n)) /\ Work(n).ok /\ Work(n).rs = rs[n] /\ Work(n).vote = {}
         /\ Work(n).store = store[n] /\ Work(n).out = {} /\ NoneNew(n, Work(n).out)
<1>1. /\ DiskOK(store[n], sd[n], saved[n], Sent(n, msgs))
      /\ RunOK(n, rs[n], store[n], sd[n], saved[n], Sent(n, msgs))
  BY Zenon DEF IInv
<1>2. Work(n) \in Works
  BY <1>1 DEF Work, Works, DiskOK, RunOK
<1>3. msgs \cup Work(n).out = msgs
  BY Zenon DEF Work
<1>4. NoneNew(n, Work(n).out) /\ NewOK(n, rs[n].round, Work(n).out)
  BY Zenon DEF Work, NoneNew, NewOK, Sent
<1> QED
  BY <1>1, <1>2, <1>3, <1>4, Zenon DEF WorkOK, PartsOK, RelayOK, Work

\* ensure_round_and_sync_up ends in the round of the message, or fails.
LEMMA EnsureRoundKeeps ==
  ASSUME IInv, NEW n \in Node, up[n], NEW round, NEW i \in SyncInfos,
         NEW helped \in SUBSET Node, NEW x \in EnsureRoundAndSyncUp(n, round, i, helped)
  PROVE  WorkOK(n, x) /\ (x.ok => x.rs.round = round)
<1>1. PICK w \in SyncUp(n, Work(n), i, helped) :
        IF w.ok THEN x = (IF round = w.rs.round THEN w ELSE Fail(w)) ELSE x = w
  BY Zenon DEF EnsureRoundAndSyncUp, Then
<1>2. WorkOK(n, w)
  BY WorkStarts, SyncUpKeeps, Zenon
<1>3. WorkOK(n, Fail(w)) /\ ~ Fail(w).ok
  BY <1>2, FailKeeps, Zenon
<1> QED
  BY <1>1, <1>2, <1>3, Zenon

-----------------------------------------------------------------------------
(* Voting                                                                  *)

\* SafetyRules has returned a vote of the round, and it is on disk there.
Signed(w) ==
  \E b \in w.vote : w.vote = {b} /\ w.sd.last_vote = {b} /\ b.round = w.rs.round

\* The vote is saved as well.
VoteReady(w) == Signed(w) /\ w.saved = w.vote

\* A block that is executed joins the store.
LEMMA AddBlockKeeps ==
  ASSUME NEW n, NEW w, WorkOK(n, w), NEW b \in Blocks
  PROVE  LET x == [w EXCEPT !.store.blocks = @ \cup {b}]
         IN  /\ WorkOK(n, x) /\ x.rs = w.rs /\ x.sd = w.sd /\ x.saved = w.saved
             /\ x.ok = w.ok
<1> DEFINE st == [w.store EXCEPT !.blocks = @ \cup {b}]
<1> DEFINE x == [w EXCEPT !.store.blocks = @ \cup {b}]
<1>1. w \in Works /\ w.store \in Stores
  BY Zenon DEF WorkOK, Works
<1>2. st \in Stores /\ st.hqc = w.store.hqc /\ st.htc = w.store.htc
  BY <1>1, Zenon DEF Stores
<1>3. x = [w EXCEPT !.store = st]
  BY <1>1, Zenon DEF Works, Stores
<1> HIDE DEF st, x
<1>4. /\ x \in Works /\ x.store = st /\ x.rs = w.rs /\ x.sd = w.sd
      /\ x.saved = w.saved /\ x.out = w.out /\ x.ok = w.ok
  BY <1>1, <1>2, <1>3, Zenon DEF Works
<1>5. NextRound(st) = NextRound(w.store) /\ NextRound(st) \in Nat
  <2>1. NextRound(st) = NextRound(w.store)
    BY <1>2, Zenon DEF NextRound, HighestRound, SyncInfo
  <2> QED
    BY <1>2, <2>1, SyncInfoOfStore
<1>6. DiskOK(st, w.sd, w.saved, Sent(n, msgs \cup w.out))
  BY <1>1, <1>2, <1>5, DiskKept, SMTT(20) DEF WorkOK, PartsOK
<1>7. RunOK(n, w.rs, st, w.sd, w.saved, Sent(n, msgs \cup w.out))
  BY <1>5, Zenon DEF WorkOK, PartsOK, RunOK
<1> QED
  BY <1>4, <1>6, <1>7, Zenon DEF WorkOK, PartsOK, x

\* What a new vote of SafetyRules does to the SafetyData.
LEMMA AfterVoteFields ==
  ASSUME NEW d \in SafetyData(Blocks), NEW b \in Blocks
  PROVE  LET e == AfterVote(b, d)
         IN  /\ e \in SafetyData(Blocks) /\ e.epoch = d.epoch /\ e.last_vote = {b}
             /\ e.last_voted_round = b.round
             /\ e.preferred_round >= d.preferred_round
             /\ e.preferred_round >= b.two_chain_round
<1> DEFINE p == UpdatePreferredRound(b, d)
<1>1. b.round \in Nat /\ b.two_chain_round \in Nat
  BY BlockFields
<1>2. /\ p \in SafetyData(Blocks) /\ p.epoch = d.epoch
      /\ p.preferred_round >= d.preferred_round /\ p.preferred_round >= b.two_chain_round
  BY <1>1 DEF SafetyData, UpdatePreferredRound
<1> DEFINE q == [p EXCEPT !.last_voted_round = b.round]
<1>3. AfterVote(b, d) = [q EXCEPT !.last_vote = {b}]
  BY Zenon DEF AfterVote, UpdateLastVoteRound
<1> HIDE DEF p
<1>4. /\ q \in SafetyData(Blocks) /\ q.epoch = d.epoch /\ q.last_voted_round = b.round
      /\ q.preferred_round = p.preferred_round
  BY <1>1, <1>2, Zenon DEF SafetyData
<1> HIDE DEF q
<1> QED
  BY <1>2, <1>3, <1>4, ZenonT(30) DEF SafetyData

\* construct_and_sign_vote for a block of the round, before a vote is recorded.
LEMMA SignVoteKeeps ==
  ASSUME NEW n, NEW w, WorkOK(n, w), NEW b \in Blocks, b.round = w.rs.round,
         w.rs.vote_sent = {}
  PROVE  LET x == SignVote(w, b)
         IN  WorkOK(n, x) /\ x.rs = w.rs /\ (x.ok => Signed(x))
<1>1. /\ w \in Works /\ w.sd \in SafetyData(Blocks) /\ w.saved \in SUBSET Blocks
      /\ w.sd.last_vote \in SUBSET Blocks
  BY Zenon DEF WorkOK, Works, SafetyData
<1>2. /\ LastVoteOK(w.store, w.sd) /\ SavedOK(w.sd, w.saved)
      /\ SentOK(w.sd, w.saved, Sent(n, msgs \cup w.out))
      /\ LockOK(w.sd, Sent(n, msgs \cup w.out))
      /\ Sent(n, msgs \cup w.out) \in SUBSET Blocks
  BY Zenon DEF WorkOK, PartsOK, DiskOK
<1>3. CASE RepeatsLastVote(b, w.sd)
  <2> DEFINE x == [w EXCEPT !.vote = w.sd.last_vote]
  <2>1. SignVote(w, b) = x
    BY <1>3, Zenon DEF SignVote
  <2>2. /\ x \in Works /\ x.rs = w.rs /\ x.store = w.store /\ x.sd = w.sd
        /\ x.saved = w.saved /\ x.out = w.out /\ x.vote = w.sd.last_vote
    BY <1>1, Zenon DEF Works
  <2> HIDE DEF x
  <2>3. WorkOK(n, x)
    BY <2>2, Zenon DEF WorkOK
  <2>4. PICK v \in w.sd.last_vote : v.round = b.round
    BY <1>3, Zenon DEF RepeatsLastVote
  <2>5. w.sd.last_vote = {v}
    BY <1>2, <2>4, Zenon DEF LastVoteOK
  <2>6. Signed(x)
    BY <2>2, <2>4, <2>5, Zenon DEF Signed
  <2> QED
    BY <2>1, <2>2, <2>3, <2>6, Zenon
<1>4. CASE ~ RepeatsLastVote(b, w.sd) /\ MayVote(b, w.sd)
  <2> DEFINE d == AfterVote(b, w.sd)
  <2> DEFINE x == [w EXCEPT !.vote = {b}, !.sd = d]
  <2>1. SignVote(w, b) = x
    BY <1>4, Zenon DEF SignVote
  <2>2. /\ d \in SafetyData(Blocks) /\ d.epoch = w.sd.epoch /\ d.last_vote = {b}
        /\ d.last_voted_round = b.round /\ d.preferred_round >= w.sd.preferred_round
        /\ d.preferred_round >= b.two_chain_round
    BY <1>1, AfterVoteFields, Zenon
  <2> HIDE DEF d
  <2>3. /\ x \in Works /\ x.rs = w.rs /\ x.store = w.store /\ x.sd = d
        /\ x.saved = w.saved /\ x.out = w.out /\ x.vote = {b}
    BY <1>1, <2>2, Zenon DEF Works
  <2> HIDE DEF x
  <2>4. b.round > w.sd.last_voted_round /\ w.sd.last_voted_round \in Nat /\ b.round \in Nat
    BY <1>1, <1>4, BlockFields DEF MayVote, VerifyLastVoteRound, SafetyData
  <2>5. \A c \in w.sd.last_vote : c.round < b.round
    BY <1>2, <2>4, Zenon DEF LastVoteOK
  <2>6. \A c \in w.saved \cup Sent(n, msgs \cup w.out) : c.round < b.round
    <3> TAKE c \in w.saved \cup Sent(n, msgs \cup w.out)
    <3>1. c.round \in Nat
      <4>1. c \in Blocks
        BY <1>1, <1>2, Zenon
      <4> QED
        BY <4>1, BlockFields
    <3>2. c.round < w.sd.last_voted_round \/ c \in w.sd.last_vote
      BY <1>2, Zenon DEF SavedOK, SentOK
    <3> QED
      BY <2>4, <2>5, <3>1, <3>2
  <2>7. LastVoteOK(w.store, d)
    BY <1>2, <2>2, Zenon DEF LastVoteOK, WorkOK, PartsOK, RunOK
  <2>8. SavedOK(d, w.saved)
    BY <1>2, <2>2, <2>6, Zenon DEF SavedOK
  <2>9. SentOK(d, w.saved, Sent(n, msgs \cup w.out))
    BY <1>2, <2>2, <2>6, Zenon DEF SentOK
  <2>10. LockOK(d, Sent(n, msgs \cup w.out))
    <3> DEFINE sent == Sent(n, msgs \cup w.out)
    <3>1. b.one_chain_round >= w.sd.preferred_round
      BY <1>4, Zenon DEF MayVote, VerifyPreferredRound
    <3>2. /\ w.sd.preferred_round \in Nat /\ d.preferred_round \in Nat
          /\ b.one_chain_round \in Nat /\ b.two_chain_round \in Nat
      BY <1>1, <2>2, BlockFields DEF SafetyData
    <3>3. \A c \in sent : /\ c.two_chain_round \in Nat /\ c.one_chain_round \in Nat
                          /\ c.round \in Nat /\ c.round < b.round
                          /\ c.two_chain_round <= w.sd.preferred_round
      <4> TAKE c \in sent
      <4>1. c \in Blocks /\ c.round < b.round /\ c.two_chain_round <= w.sd.preferred_round
        BY <1>2, <2>6, Zenon DEF LockOK
      <4> QED
        BY <4>1, BlockFields
    <3>4. \A c, e \in sent : c.round < e.round => e.one_chain_round >= c.two_chain_round
      BY <1>2, Zenon DEF LockOK
    <3> HIDE DEF sent
    <3>5. \A c \in sent \cup {b} : c.two_chain_round <= d.preferred_round
      BY <2>2, <3>2, <3>3
    <3>6. \A c, e \in sent \cup {b} :
            c.round < e.round => e.one_chain_round >= c.two_chain_round
      BY <2>4, <3>1, <3>2, <3>3, <3>4
    <3> QED
      BY <2>2, <3>5, <3>6, Zenon DEF LockOK, sent
  <2>11. DiskOK(w.store, d, w.saved, Sent(n, msgs \cup w.out))
    BY <1>1, <1>2, <2>2, <2>7, <2>8, <2>9, <2>10, Zenon DEF DiskOK, Works
  <2>12. RunOK(n, w.rs, w.store, d, w.saved, Sent(n, msgs \cup w.out))
    BY Zenon DEF WorkOK, PartsOK, RunOK, VoteSentOK
  <2>13. WorkOK(n, x)
    BY <2>3, <2>11, <2>12, Zenon DEF WorkOK, PartsOK
  <2>14. Signed(x)
    BY <2>2, <2>3, Zenon DEF Signed
  <2> QED
    BY <2>1, <2>3, <2>13, <2>14, Zenon
<1>5. CASE ~ RepeatsLastVote(b, w.sd) /\ ~ MayVote(b, w.sd)
  <2>1. SignVote(w, b) = Fail(w)
    BY <1>5, Zenon DEF SignVote
  <2> QED
    BY <2>1, FailKeeps, Zenon DEF SameNode
<1> QED
  BY <1>3, <1>4, <1>5, Zenon

\* save_vote: the vote is on disk before it is sent.
LEMMA SaveVoteKeeps ==
  ASSUME NEW n, NEW w, WorkOK(n, w), Signed(w), w.rs.vote_sent = {}
  PROVE  LET x == SaveVote(w)
         IN  WorkOK(n, x) /\ x.rs = w.rs /\ VoteReady(x) /\ x.ok = w.ok
<1> DEFINE x == SaveVote(w)
<1>1. w \in Works /\ w.vote \in SUBSET Blocks
  BY Zenon DEF WorkOK, Works
<1>2. PICK b \in w.vote : w.vote = {b} /\ w.sd.last_vote = {b} /\ b.round = w.rs.round
  BY Zenon DEF Signed
<1>3. /\ x \in Works /\ x.rs = w.rs /\ x.store = w.store /\ x.sd = w.sd
      /\ x.saved = {b} /\ x.out = w.out /\ x.vote = {b} /\ x.ok = w.ok
  BY <1>1, <1>2, Zenon DEF SaveVote, Works
<1> HIDE DEF x
<1>4. DiskOK(w.store, w.sd, {b}, Sent(n, msgs \cup w.out))
  <2>1. SavedOK(w.sd, {b})
    BY <1>2, Zenon DEF SavedOK
  <2>2. SentOK(w.sd, {b}, Sent(n, msgs \cup w.out))
    <3> DEFINE sent == Sent(n, msgs \cup w.out)
    <3>1. SentOK(w.sd, w.saved, sent)
      BY DEF WorkOK, PartsOK, DiskOK
    <3> HIDE DEF sent
    <3> QED
      BY <1>2, <3>1, Zenon DEF SentOK, sent
  <2>3. {b} \in SUBSET Blocks
    BY <1>1, Zenon
  <2>4. DiskOK(w.store, w.sd, w.saved, Sent(n, msgs \cup w.out))
    BY Zenon DEF WorkOK, PartsOK
  <2> QED
    BY <2>1, <2>2, <2>3, <2>4, Zenon DEF DiskOK
<1>5. RunOK(n, w.rs, w.store, w.sd, {b}, Sent(n, msgs \cup w.out))
  BY Zenon DEF WorkOK, PartsOK, RunOK, VoteSentOK
<1>6. WorkOK(n, x)
  BY <1>3, <1>4, <1>5, Zenon DEF WorkOK, PartsOK
<1>7. VoteReady(x)
  BY <1>2, <1>3, Zenon DEF VoteReady, Signed
<1> QED
  BY <1>3, <1>6, <1>7, Zenon DEF x

\* execute_and_vote for a block of the round.
LEMMA ExecuteAndVoteKeeps ==
  ASSUME NEW n, NEW w, WorkOK(n, w), NEW b \in Blocks, b.round = w.rs.round,
         NEW x \in ExecuteAndVote(w, b)
  PROVE  WorkOK(n, x) /\ (x.ok => VoteReady(x))
<1> DEFINE w1 == [w EXCEPT !.store.blocks = @ \cup {b}]
<1>1. WorkOK(n, w1) /\ w1.rs = w.rs
  BY AddBlockKeeps, Zenon
<1>2. x \in IF w.rs.vote_sent # {} THEN {Fail(w1)}
            ELSE Then({SignVote(w1, b)}, LAMBDA w2 : {SaveVote(w2)})
  BY Zenon DEF ExecuteAndVote
<1> HIDE DEF w1
<1>3. CASE w.rs.vote_sent # {}
  BY <1>1, <1>2, <1>3, FailKeeps, Zenon
<1>4. CASE w.rs.vote_sent = {}
  <2> DEFINE w2 == SignVote(w1, b)
  <2>1. WorkOK(n, w2) /\ w2.rs = w.rs /\ (w2.ok => Signed(w2))
    BY <1>1, <1>4, SignVoteKeeps, Zenon
  <2>2. IF w2.ok THEN x = SaveVote(w2) ELSE x = w2
    BY <1>2, <1>4, Zenon DEF Then
  <2> HIDE DEF w2
  <2>3. CASE w2.ok
    BY <1>4, <2>1, <2>2, <2>3, SaveVoteKeeps, Zenon
  <2>4. CASE ~ w2.ok
    BY <2>1, <2>2, <2>4, Zenon
  <2> QED
    BY <2>3, <2>4, Zenon
<1> QED
  BY <1>3, <1>4, Zenon

\* A vote is sent once it is saved: the node will know it.
LEMMA ReleaseVoteKeeps ==
  ASSUME NEW n \in Node, NEW w, WorkOK(n, w), VoteReady(w), NEW b \in w.vote,
         NEW timeout \in BOOLEAN
  PROVE  WorkOK(n, ReleaseVote(n, w, b, timeout))
<1> DEFINE vote == [author |-> n, block |-> b, timeout |-> timeout]
<1> DEFINE r == [w.rs EXCEPT !.vote_sent = {vote}]
<1> DEFINE w1 == [w EXCEPT !.rs = r]
<1> DEFINE m == VoteMsg(vote, SyncInfo(w.store))
<1> DEFINE x == ReleaseVote(n, w, b, timeout)
<1> DEFINE sent == Sent(n, msgs \cup w.out)
<1>1. /\ w \in Works /\ w.rs \in RoundStates /\ w.store \in Stores
      /\ b \in Blocks /\ w.vote = {b} /\ w.sd.last_vote = {b} /\ w.saved = {b}
      /\ b.round = w.rs.round /\ b.round \in Nat
  <2>1. w \in Works /\ w.rs \in RoundStates /\ w.store \in Stores /\ b \in Blocks
    BY Zenon DEF WorkOK, Works
  <2> QED
    BY <2>1, BlockFields DEF VoteReady, Signed
<1>2. vote \in AnyVote
  BY <1>1, NodeAssumption, Zenon DEF AnyVote
<1>3. m \in Messages /\ m.type = "vote" /\ m.vote = vote /\ m.to = Node
  <2>1. SyncInfo(w.store) \in SyncInfos
    BY <1>1, SyncInfoOfStore, Zenon
  <2> HIDE DEF vote
  <2> QED
    BY <1>2, <2>1, Zenon DEF VoteMsg, Messages
<1>4. x = [w1 EXCEPT !.out = @ \cup {m}]
  <2>1. RecordVote(w.rs, vote) = r
    BY <1>1, Zenon DEF RecordVote
  <2>2. x = Send([w EXCEPT !.rs = RecordVote(@, vote)], m)
    BY Zenon DEF ReleaseVote
  <2>3. x = Send(w1, m)
    BY <2>1, <2>2, Zenon
  <2> HIDE DEF x, w1, m
  <2> QED
    BY <1>3, <2>3, Zenon DEF Send
<1>5. vote.author = n /\ vote.block = b
  BY Zenon
<1> HIDE DEF vote, m, x
<1>6. /\ r \in RoundStates /\ r.round = w.rs.round /\ r.vote_sent = {vote}
      /\ r.votes = w.rs.votes /\ r.li_votes = w.rs.li_votes
      /\ r.partial_tc = w.rs.partial_tc /\ r.local_timers = w.rs.local_timers
      /\ r.new_round_sent = w.rs.new_round_sent
      /\ r.new_round_timer = w.rs.new_round_timer
      /\ r.proposal_timer = w.rs.proposal_timer /\ r.candidate = w.rs.candidate
  <2>1. w.rs \in RoundStates
    BY <1>1, Zenon
  <2>2. {vote} \in SUBSET AnyVote
    BY <1>2, Zenon
  <2> QED
    BY <2>1, <2>2, Zenon DEF RoundStates
<1> HIDE DEF r
<1>7. /\ x \in Works /\ x.rs = r /\ x.store = w.store /\ x.sd = w.sd
      /\ x.saved = w.saved /\ x.out = w.out \cup {m}
  BY <1>1, <1>3, <1>4, <1>6, Zenon DEF Works
<1> HIDE DEF w1
<1>8. Sent(n, msgs \cup x.out) = sent \cup {b}
  <2>1. msgs \cup x.out = (msgs \cup w.out) \cup {m}
    BY <1>7, Zenon
  <2>2. Sent(n, (msgs \cup w.out) \cup {m}) = sent \cup {b}
    BY <1>3, <1>5, SentMore, Zenon
  <2> QED
    BY <2>1, <2>2, Zenon
<1> HIDE DEF sent
<1>9. PendingOK(r)
  <2>1. QuorumCerts(r) = QuorumCerts(w.rs)
    BY <1>6, Zenon DEF QuorumCerts, Signers
  <2>2. PendingOK(w.rs)
    BY Zenon DEF WorkOK, PartsOK, RunOK
  <2> QED
    BY <1>6, <2>1, <2>2, Zenon DEF PendingOK, Certificate
<1>10. DiskOK(w.store, w.sd, w.saved, sent) /\ RunOK(n, w.rs, w.store, w.sd, w.saved, sent)
  BY Zenon DEF WorkOK, PartsOK, sent
<1>11. sent \in SUBSET Blocks
  BY <1>10, Zenon DEF DiskOK
<1>12. DiskOK(w.store, w.sd, w.saved, sent \cup {b})
  <2>1. w.sd.last_voted_round = b.round
    BY <1>1, <1>10, Zenon DEF DiskOK, LastVoteOK
  <2>2. \A c \in sent : c.round = b.round => c = b
    BY <1>1, <1>10, <1>11, <2>1, BlockFields, SMTT(20) DEF DiskOK, SentOK
  <2>3. SentOK(w.sd, w.saved, sent \cup {b})
    BY <1>1, <1>10, <2>2, Zenon DEF DiskOK, SentOK
  <2>4. LockOK(w.sd, sent \cup {b})
    <3>1. (sent \cup {b}) \cup w.sd.last_vote = sent \cup w.sd.last_vote
      BY <1>1, Zenon
    <3>2. LockOK(w.sd, sent)
      BY <1>10, Zenon DEF DiskOK
    <3> QED
      BY <3>1, <3>2, Zenon DEF LockOK
  <2> QED
    BY <1>1, <1>10, <2>3, <2>4, Zenon DEF DiskOK
<1>13. Knows(r, sent \cup {b})
  <2> SUFFICES ASSUME NEW c \in sent \cup {b}
               PROVE  r.round > c.round \/ (r.round = c.round /\ vote.block = c)
    BY <1>6, Zenon DEF Knows
  <2>1. w.rs.round > c.round \/ (w.rs.round = c.round /\ c = b)
    BY <1>1, <1>10 DEF RunOK, Knows, VoteSentOK
  <2> QED
    BY <1>5, <1>6, <2>1, Zenon
<1>14. VoteSentOK(n, r, w.sd, w.saved)
  BY <1>1, <1>5, <1>6, Zenon DEF VoteSentOK
<1>15. RunOK(n, r, w.store, w.sd, w.saved, sent \cup {b})
  BY <1>6, <1>9, <1>10, <1>13, <1>14, Zenon DEF RunOK, TimersOK, CandidateOK
<1>16. RelayOK(n, x.out)
  BY <1>3, <1>5, <1>7, Zenon DEF RelayOK, WorkOK, PartsOK
<1>17. NewOK(n, r.round, x.out)
  <2>1. Sent(n, x.out) = Sent(n, w.out) \cup {b}
    <3>1. Sent(n, w.out \cup {m}) = Sent(n, w.out) \cup {b}
      BY <1>3, <1>5, SentMore, Zenon
    <3> QED
      BY <1>7, <3>1, Zenon
  <2>2. NewOK(n, w.rs.round, w.out)
    BY Zenon DEF WorkOK, PartsOK
  <2>3. \A c \in Sent(n, msgs) : c = b \/ c.round < b.round
    <3> TAKE c \in Sent(n, msgs)
    <3>1. c \in sent
      BY Zenon DEF sent, Sent
    <3>2. c.round < w.sd.last_voted_round \/ c = b
      BY <1>1, <1>10, <3>1, Zenon DEF DiskOK, SentOK
    <3>3. w.sd.last_voted_round = b.round
      BY <1>1, <1>10, Zenon DEF DiskOK, LastVoteOK
    <3> QED
      BY <3>2, <3>3, Zenon
  <2> QED
    BY <1>1, <1>6, <2>1, <2>2, <2>3, Zenon DEF NewOK
<1> QED
  BY <1>7, <1>8, <1>12, <1>15, <1>16, <1>17, Zenon DEF WorkOK, PartsOK, x

\* The vote of a timeout: the one recorded, or a new one for a nil block.
LEMMA TimeoutVoteKeeps ==
  ASSUME NEW n, NEW w, WorkOK(n, w), NEW x \in TimeoutVote(w)
  PROVE  WorkOK(n, x) /\ (x.ok => VoteReady(x))
<1>1. /\ w \in Works /\ w.store.hqc \in Certificates
      /\ w.rs.round \in 1 .. MaxRound /\ w.rs.vote_sent \in SUBSET AnyVote
  BY DEF WorkOK, Works, Stores, PartsOK, RunOK, RoundStates
<1>2. CASE w.rs.vote_sent # {}
  <2>1. x = [w EXCEPT !.vote = {v.block : v \in w.rs.vote_sent}]
    BY <1>2, Zenon DEF TimeoutVote
  <2>2. PICK v \in w.rs.vote_sent :
          /\ w.rs.vote_sent = {v} /\ v.block.round = w.rs.round
          /\ w.sd.last_vote = {v.block} /\ w.saved = {v.block}
    BY <1>2, Zenon DEF WorkOK, PartsOK, RunOK, VoteSentOK
  <2>3. x = [w EXCEPT !.vote = {v.block}] /\ v.block \in Blocks
    <3>1. {u.block : u \in w.rs.vote_sent} = {v.block}
      BY <2>2, Zenon
    <3>2. v.block \in Blocks
      BY <1>1, Zenon DEF AnyVote
    <3> QED
      BY <2>1, <3>1, <3>2, Zenon
  <2>4. /\ x \in Works /\ x.rs = w.rs /\ x.store = w.store /\ x.sd = w.sd
        /\ x.saved = w.saved /\ x.out = w.out /\ x.vote = {v.block}
    BY <1>1, <2>3, Zenon DEF Works
  <2>5. WorkOK(n, x)
    BY <2>4, Zenon DEF WorkOK
  <2>6. VoteReady(x)
    BY <2>2, <2>4, Zenon DEF VoteReady, Signed
  <2> QED
    BY <2>5, <2>6, Zenon
<1>3. CASE w.rs.vote_sent = {} /\ w.store.hqc.round >= w.rs.round
  <2>1. x = Fail(w)
    BY <1>3, Zenon DEF TimeoutVote
  <2> QED
    BY <2>1, FailKeeps, Zenon
<1>4. CASE w.rs.vote_sent = {} /\ ~ (w.store.hqc.round >= w.rs.round)
  <2> DEFINE b == Extends(w.store.hqc, w.rs.round, Nil)
  <2>1. x \in ExecuteAndVote(w, b)
    BY <1>4, Zenon DEF TimeoutVote
  <2>2. w.store.hqc.round < w.rs.round
    BY <1>1, <1>4, CertificateFields
  <2>3. b \in Blocks /\ b.round = w.rs.round
    BY <1>1, <2>2, ExtendsBlock
  <2> HIDE DEF b
  <2> QED
    BY <2>1, <2>3, ExecuteAndVoteKeeps, Zenon
<1> QED
  BY <1>2, <1>3, <1>4, Zenon

\* guarded_sign_timeout adds nothing to last_voted_round: the vote of the
\* round came first.
LEMMA SignTimeoutKeeps ==
  ASSUME NEW n \in Node, NEW w, WorkOK(n, w), VoteReady(w), NEW x \in SignTimeout(n, w)
  PROVE  WorkOK(n, x)
<1> DEFINE round == w.rs.round
<1> DEFINE signed == \E v \in w.rs.vote_sent : v.timeout
<1> DEFINE w1 == IF signed THEN w ELSE [w EXCEPT !.sd = AfterTimeout(round, @)]
<1>1. w.sd.last_voted_round = round /\ round \in Nat /\ w \in Works
  <2>1. w \in Works /\ LastVoteOK(w.store, w.sd)
    BY DEF WorkOK, PartsOK, DiskOK
  <2>2. round \in Nat
    <3>1. w.rs \in RoundStates
      BY <2>1, Zenon DEF Works
    <3> QED
      BY <3>1 DEF RoundStates
  <2>3. w.sd.last_voted_round = round
    BY <2>1, Zenon DEF VoteReady, Signed, LastVoteOK
  <2> QED
    BY <2>1, <2>2, <2>3, Zenon
<1>2. AfterTimeout(round, w.sd) = w.sd
  BY <1>1 DEF AfterTimeout
<1>3. w1 = w
  BY <1>1, <1>2, Zenon DEF Works
<1>4. \/ x = Fail(w)
      \/ \E b \in w.vote : x = ReleaseVote(n, w1, b, TRUE)
  BY Zenon DEF SignTimeout
<1> HIDE DEF w1
<1> QED
  BY <1>3, <1>4, FailKeeps, ReleaseVoteKeeps, Zenon

\* process_local_timeout; the caller may have let a timer fire, which is set
\* again first.
LEMMA ProcessLocalTimeoutKeeps ==
  ASSUME NEW n \in Node, NEW w \in Works,
         WorkOK(n, [w EXCEPT !.rs.local_timers = @ + 1]),
         NEW x \in ProcessLocalTimeout(n, w)
  PROVE  WorkOK(n, x)
<1> DEFINE w0 == [w EXCEPT !.rs.local_timers = @ + 1]
<1> DEFINE m == SyncInfoMsg(SyncInfo(w.store), Node \ {n})
<1> DEFINE w1 == Send(w0, m)
<1>1. m \in Messages /\ m.type # "vote"
  <2>1. SyncInfo(w.store) \in SyncInfos
    BY SyncInfoOfStore, Zenon DEF Works
  <2> QED
    BY <2>1, Zenon DEF SyncInfoMsg, Messages
<1>2. x \in IF Certificate(w.rs) THEN {w1}
            ELSE Then(TimeoutVote(w1), LAMBDA w2 : SignTimeout(n, w2))
  BY Zenon DEF ProcessLocalTimeout
<1> HIDE DEF w0, m
<1>3. WorkOK(n, w1)
  BY <1>1, SendOther, Zenon DEF w0
<1> HIDE DEF w1
<1>4. CASE Certificate(w.rs)
  BY <1>2, <1>3, <1>4, Zenon
<1>5. CASE ~ Certificate(w.rs)
  <2>1. PICK w2 \in TimeoutVote(w1) :
          IF w2.ok THEN x \in SignTimeout(n, w2) ELSE x = w2
    BY <1>2, <1>5, Zenon DEF Then
  <2>2. WorkOK(n, w2) /\ (w2.ok => VoteReady(w2))
    BY <1>3, TimeoutVoteKeeps, Zenon
  <2>3. CASE w2.ok
    BY <2>1, <2>2, <2>3, SignTimeoutKeeps, Zenon
  <2>4. CASE ~ w2.ok
    BY <2>1, <2>2, <2>4, Zenon
  <2> QED
    BY <2>3, <2>4, Zenon
<1> QED
  BY <1>4, <1>5, Zenon
-----------------------------------------------------------------------------
(* Actions                                                                 *)

\* A step keeps the invariant, and what it sends keeps the promise of every key.
Kept == IInv' /\ \A k \in Node : [Promise(k)!Next]_(Promise(k)!vars)

\* The votes among the messages of two sets.
LEMMA SentUnion ==
  ASSUME NEW n, NEW M, NEW N
  PROVE  Sent(n, M \cup N) = Sent(n, M) \cup Sent(n, N)
  BY Zenon DEF Sent

\* A new vote is one that the key may release, and there is one at most.
LEMMA NewVoteReleased ==
  ASSUME NEW n \in Node, NEW out, msgs' = msgs \cup out, NEW st, NEW d, NEW sv,
         DiskOK(st, d, sv, Sent(n, msgs \cup out)), NEW round, NewOK(n, round, out)
  PROVE  [Promise(n)!Next]_(Promise(n)!vars)
<1> DEFINE old == Sent(n, msgs)
<1> DEFINE new == Sent(n, msgs \cup out)
<1>1. new = old \cup Sent(n, out) /\ Sent(n, msgs)' = new
  BY SentUnion, SMTT(20)
<1>2. /\ new \in SUBSET Blocks
      /\ \A b, c \in new : b.round = c.round => b = c
      /\ \A b, c \in new : b.round < c.round => c.one_chain_round >= b.two_chain_round
  BY Zenon DEF DiskOK, SentOK, LockOK
<1>3. \A b \in new \ old : b.round = round /\ \A c \in old : c.round < b.round
  BY <1>1, Zenon DEF NewOK
<1> HIDE DEF old, new
<1>4. CASE new = old
  BY <1>1, <1>4, Zenon DEF Promise!vars, old
<1>5. ASSUME NEW b \in new \ old
      PROVE  Promise(n)!Next
  <2>1. new = old \cup {b}
    BY <1>1, <1>2, <1>3, <1>5, Zenon
  <2>2. ASSUME NEW v \in old
        PROVE  v.epoch = b.epoch /\ v.round < b.round /\ b.one_chain_round >= v.two_chain_round
    <3>1. v \in new /\ v \in Blocks /\ b \in Blocks
      BY <1>2, <1>5, <2>1, Zenon
    <3>2. v.round < b.round
      BY <1>3, <1>5, Zenon
    <3> QED
      BY <1>2, <1>5, <3>1, <3>2, BlockFields, Zenon
  <2>3. Promise(n)!Release(b)
    BY <1>1, <2>1, <2>2, Zenon DEF Promise!Release, Promise!MayRelease, old
  <2> QED
    BY <1>2, <1>5, <2>3, Zenon DEF Promise!Next
<1> QED
  BY <1>1, <1>4, <1>5, Zenon

\* The end of a handler or of a crash: the other nodes see no new votes.
LEMMA FinishKeeps ==
  ASSUME IInv, NEW n \in Node, NEW w, Finish(n, w),
         w.out \in SUBSET Messages,
         DiskOK(w.store, w.sd, w.saved, Sent(n, msgs \cup w.out)), RelayOK(n, w.out),
         NEW round, NewOK(n, round, w.out),
         up' \in [Node -> BOOLEAN], \A k \in Node \ {n} : up'[k] = up[k],
         crashes' \in 0 .. MaxCrashes,
         IF up'[n] THEN RunOK(n, w.rs, w.store, w.sd, w.saved, Sent(n, msgs \cup w.out))
         ELSE w.rs = NoRound
  PROVE  Kept
<1>1. /\ DOMAIN rs = Node /\ DOMAIN store = Node /\ DOMAIN sd = Node
      /\ DOMAIN saved = Node /\ msgs \in SUBSET Messages
  BY Zenon DEF IInv
<1>2. /\ rs' = [rs EXCEPT ![n] = w.rs] /\ store' = [store EXCEPT ![n] = w.store]
      /\ sd' = [sd EXCEPT ![n] = w.sd] /\ saved' = [saved EXCEPT ![n] = w.saved]
      /\ msgs' = msgs \cup w.out
  BY Zenon DEF Finish
<1>3. /\ DOMAIN rs' = Node /\ DOMAIN store' = Node /\ DOMAIN sd' = Node
      /\ DOMAIN saved' = Node
  BY <1>1, <1>2, Zenon
<1>4. msgs' \in SUBSET Messages
  BY <1>1, <1>2, Zenon
<1>5. ASSUME NEW k \in Node, k # n
      PROVE  Sent(k, msgs') = Sent(k, msgs)
  <2>1. Sent(k, msgs \cup w.out) = Sent(k, msgs) \cup Sent(k, w.out)
    BY SentUnion, SMTT(20)
  <2>2. Sent(k, w.out) \subseteq Sent(k, msgs)
    BY <1>5 DEF RelayOK, Sent
  <2>3. Sent(k, msgs \cup w.out) = Sent(k, msgs)
    BY <2>1, <2>2, Zenon
  <2> QED
    BY <1>2, <2>3, Zenon
<1>6. ASSUME NEW k \in Node
      PROVE  /\ DiskOK(store'[k], sd'[k], saved'[k], Sent(k, msgs'))
             /\ IF up'[k]
                THEN RunOK(k, rs'[k], store'[k], sd'[k], saved'[k], Sent(k, msgs'))
                ELSE rs'[k] = NoRound
  <2>1. CASE k = n
    <3>1. /\ rs'[n] = w.rs /\ store'[n] = w.store /\ sd'[n] = w.sd
          /\ saved'[n] = w.saved
      BY <1>1, <1>2, Zenon
    <3> QED
      BY <1>2, <2>1, <3>1, Zenon
  <2>2. CASE k # n
    <3>1. /\ rs'[k] = rs[k] /\ store'[k] = store[k] /\ sd'[k] = sd[k]
          /\ saved'[k] = saved[k] /\ up'[k] = up[k]
      BY <1>1, <1>2, <2>2, Zenon
    <3>2. Sent(k, msgs') = Sent(k, msgs)
      BY <1>5, <2>2, Zenon
    <3> QED
      BY <3>1, <3>2, Zenon DEF IInv
  <2> QED
    BY <2>1, <2>2, Zenon
<1>7. IInv'
  BY <1>3, <1>4, <1>6, Zenon DEF IInv
<1>8. ASSUME NEW k \in Node
      PROVE  [Promise(k)!Next]_(Promise(k)!vars)
  <2>1. CASE k = n
    BY <1>2, <2>1, NewVoteReleased, Zenon
  <2>2. CASE k # n
    BY <1>5, <2>2, Zenon DEF Promise!vars
  <2> QED
    BY <2>1, <2>2, Zenon
<1> QED
  BY <1>7, <1>8, Zenon DEF Kept

\* The end of a handler of a running node.
LEMMA HandlerKeeps ==
  ASSUME IInv, NEW n \in Node, up[n], NEW w, WorkOK(n, w), Finish(n, w),
         UNCHANGED <<up, crashes>>
  PROVE  Kept
<1>1. up \in [Node -> BOOLEAN] /\ crashes \in 0 .. MaxCrashes
  BY Zenon DEF IInv
<1>2. /\ w.out \in SUBSET Messages /\ RelayOK(n, w.out)
      /\ DiskOK(w.store, w.sd, w.saved, Sent(n, msgs \cup w.out))
      /\ RunOK(n, w.rs, w.store, w.sd, w.saved, Sent(n, msgs \cup w.out))
      /\ NewOK(n, w.rs.round, w.out)
  BY Zenon DEF WorkOK, PartsOK, Works
<1> QED
  BY <1>1, <1>2, FinishKeeps, Zenon

\* A handler that replaces the round state.
LEMMA RoundStateReplaced ==
  ASSUME NEW n, NEW w \in Works, NEW r,
         DiskOK(w.store, w.sd, w.saved, Sent(n, msgs \cup w.out)), RelayOK(n, w.out),
         RunOK(n, r, w.store, w.sd, w.saved, Sent(n, msgs \cup w.out)),
         NewOK(n, r.round, w.out)
  PROVE  LET x == [w EXCEPT !.rs = r]
         IN  WorkOK(n, x) /\ x.rs = r /\ x.store = w.store /\ x.out = w.out /\ x.ok = w.ok
<1> DEFINE x == [w EXCEPT !.rs = r]
<1>1. r \in RoundStates
  BY Zenon DEF RunOK
<1>2. /\ x \in Works /\ x.rs = r /\ x.store = w.store /\ x.sd = w.sd
      /\ x.saved = w.saved /\ x.out = w.out /\ x.ok = w.ok
  BY <1>1, Zenon DEF Works
<1> HIDE DEF x
<1> QED
  BY <1>2, Zenon DEF WorkOK, PartsOK, x

\* One timer or two.
LEMMA OneOrTwo == 1 \in 1 .. 2 /\ 2 \in 1 .. 2
  OBVIOUS

\* The proposal timer fires.
LEMMA ProposalTimerFires ==
  ASSUME NEW n, NEW st, NEW d, NEW sv, NEW sent, NEW r, RunOK(n, r, st, d, sv, sent),
         NEW l \in 1 .. 2
  PROVE  LET r1 == [r EXCEPT !.proposal_timer = FALSE, !.local_timers = l]
         IN  RunOK(n, r1, st, d, sv, sent)
<1> DEFINE r1 == [r EXCEPT !.proposal_timer = FALSE, !.local_timers = l]
<1>1. r \in RoundStates
  BY Zenon DEF RunOK
<1>2. r1 \in RoundStates
  <2> DEFINE r0 == [r EXCEPT !.proposal_timer = FALSE]
  <2>1. r0 \in RoundStates
    BY <1>1, Zenon DEF RoundStates
  <2> HIDE DEF r0
  <2>2. [r0 EXCEPT !.local_timers = l] \in RoundStates
    BY <2>1 DEF RoundStates
  <2> QED
    BY <2>2, Zenon DEF r0
<1>3. /\ r1.round = r.round /\ r1.votes = r.votes
      /\ r1.li_votes = r.li_votes /\ r1.partial_tc = r.partial_tc
      /\ r1.vote_sent = r.vote_sent /\ r1.candidate = r.candidate
      /\ r1.local_timers = l /\ r1.proposal_timer = FALSE
      /\ r1.new_round_sent = r.new_round_sent /\ r1.new_round_timer = r.new_round_timer
  BY <1>1, Zenon DEF RoundStates
<1> HIDE DEF r1
<1>4. QuorumCerts(r1) = QuorumCerts(r)
  BY <1>3, Zenon DEF QuorumCerts, Signers
<1>5. PendingOK(r1)
  BY <1>3, <1>4, Zenon DEF RunOK, PendingOK, Certificate
<1>6. TimersOK(r1)
  BY <1>3, Zenon DEF TimersOK
<1>7. VoteSentOK(n, r1, d, sv) /\ Knows(r1, sent) /\ CandidateOK(r1)
  BY <1>3, ZenonT(30) DEF RunOK, VoteSentOK, Knows, CandidateOK
<1>8. r1.round >= 1 /\ r1.round <= NextRound(st)
  BY <1>3, Zenon DEF RunOK
<1>9. RunOK(n, r1, st, d, sv, sent)
  BY <1>2, <1>5, <1>6, <1>7, <1>8, Zenon DEF RunOK
<1> QED
  BY <1>9, Zenon DEF r1

\* A crash loses everything but the store, the safety data and the saved vote.
LEMMA CrashKeeps ==
  ASSUME IInv, NEW n \in Node, Crash(n)
  PROVE  Kept
<1>1. /\ up \in [Node -> BOOLEAN] /\ crashes \in 0 .. MaxCrashes
      /\ DOMAIN rs = Node
  BY Zenon DEF IInv
<1>2. /\ up' = [up EXCEPT ![n] = FALSE] /\ rs' = [rs EXCEPT ![n] = NoRound]
      /\ crashes' = crashes + 1 /\ crashes < MaxCrashes
      /\ UNCHANGED <<store, sd, saved, msgs>>
  BY Zenon DEF Crash
<1>3. /\ up' \in [Node -> BOOLEAN] /\ DOMAIN rs' = Node
      /\ \A k \in Node \ {n} : up'[k] = up[k] /\ rs'[k] = rs[k]
      /\ ~ up'[n] /\ rs'[n] = NoRound
  BY <1>1, <1>2, Zenon
<1>4. crashes' \in 0 .. MaxCrashes
  BY <1>1, <1>2, NodeAssumption
<1>5. IInv'
  BY <1>2, <1>3, <1>4, Zenon DEF IInv
<1> QED
  BY <1>2, <1>5, Zenon DEF Kept, Promise!vars

\* A local timeout sets its timer again and times the round out.
LEMMA LocalTimeoutKeeps ==
  ASSUME IInv, NEW n \in Node, LocalTimeout(n)
  PROVE  Kept
<1> DEFINE w1 == [Work(n) EXCEPT !.rs.local_timers = @ - 1]
<1>1. up[n] /\ UNCHANGED <<up, crashes>>
  BY Zenon DEF LocalTimeout
<1>2. PICK w \in ProcessLocalTimeout(n, w1) : Finish(n, w)
  BY Zenon DEF LocalTimeout
<1>3. WorkOK(n, Work(n)) /\ Work(n).rs = rs[n]
  BY <1>1, WorkStarts, Zenon
<1>4. w1 \in Works /\ [w1 EXCEPT !.rs.local_timers = @ + 1] = Work(n)
  <2> DEFINE r1 == [rs[n] EXCEPT !.local_timers = @ - 1]
  <2>1. /\ rs[n] \in RoundStates /\ rs[n].local_timers \in 1 .. 2 /\ Work(n) \in Works
    BY <1>3, Zenon DEF WorkOK, PartsOK, RunOK, TimersOK
  <2>2. r1 \in RoundStates /\ [r1 EXCEPT !.local_timers = @ + 1] = rs[n]
    <3>1. rs[n].local_timers - 1 \in Nat /\ rs[n].local_timers - 1 + 1 = rs[n].local_timers
      BY <2>1
    <3>2. r1 \in RoundStates
      BY <2>1, <3>1, Zenon DEF RoundStates
    <3>3. [r1 EXCEPT !.local_timers = @ + 1]
            = [r1 EXCEPT !.local_timers = rs[n].local_timers]
      BY <2>1, <3>1, Zenon DEF RoundStates
    <3>4. [r1 EXCEPT !.local_timers = rs[n].local_timers] = rs[n]
      BY <2>1, Zenon DEF RoundStates
    <3> QED
      BY <3>2, <3>3, <3>4, Zenon
  <2>3. w1 = [Work(n) EXCEPT !.rs = r1]
    BY <1>3, <2>1, Zenon DEF Works
  <2> HIDE DEF r1, w1
  <2>4. w1 \in Works /\ w1.rs = r1
    BY <2>1, <2>2, <2>3, Zenon DEF Works
  <2>5. [w1 EXCEPT !.rs.local_timers = @ + 1]
          = [w1 EXCEPT !.rs = [r1 EXCEPT !.local_timers = @ + 1]]
    BY <2>4, Zenon DEF Works
  <2>6. [w1 EXCEPT !.rs = rs[n]] = Work(n)
    BY <1>3, <2>1, <2>3, Zenon DEF Works
  <2> QED
    BY <2>2, <2>4, <2>5, <2>6, Zenon
<1> HIDE DEF w1
<1>5. WorkOK(n, w)
  BY <1>2, <1>3, <1>4, ProcessLocalTimeoutKeeps, Zenon
<1> QED
  BY <1>1, <1>2, <1>5, HandlerKeeps, Zenon

\* RoundManager::process_proposal_timeout: the vote for the candidate, or the
\* early timeout.
LEMMA ProposalTimeoutKeeps ==
  ASSUME IInv, NEW n \in Node, ProposalTimeout(n)
  PROVE  Kept
<1> DEFINE w1 == [Work(n) EXCEPT !.rs.proposal_timer = FALSE]
<1> DEFINE r == rs[n]
<1> DEFINE sent == Sent(n, msgs)
<1>1. up[n] /\ rs[n].proposal_timer /\ UNCHANGED <<up, crashes>>
  BY Zenon DEF ProposalTimeout
<1> DEFINE outcomes ==
      IF rs[n].candidate = {} THEN ProcessLocalTimeout(n, w1)
      ELSE Then(ExecuteAndVote(w1, CHOOSE b \in rs[n].candidate : TRUE),
                LAMBDA w2 : {ReleaseVote(n, w2, b, FALSE) : b \in w2.vote})
<1>2. \E w \in outcomes : Finish(n, w)
  BY Zenon DEF ProposalTimeout
<1> HIDE DEF outcomes
<1>3. WorkOK(n, Work(n)) /\ Work(n).rs = r /\ Work(n).out = {} /\ NoneNew(n, Work(n).out)
  BY <1>1, WorkStarts, Zenon
<1>4. /\ Work(n) \in Works /\ r \in RoundStates /\ r.local_timers = 1
      /\ DiskOK(Work(n).store, Work(n).sd, Work(n).saved, Sent(n, msgs \cup Work(n).out))
      /\ RunOK(n, r, Work(n).store, Work(n).sd, Work(n).saved,
               Sent(n, msgs \cup Work(n).out))
      /\ RelayOK(n, Work(n).out)
  BY <1>1, <1>3, Zenon DEF WorkOK, PartsOK, RunOK, TimersOK
<1> DEFINE r1 == [r EXCEPT !.proposal_timer = FALSE]
<1>5. w1 = [Work(n) EXCEPT !.rs = r1]
  BY <1>3, <1>4, Zenon DEF Works
<1>6. r1 \in RoundStates /\ r1 = [r EXCEPT !.proposal_timer = FALSE, !.local_timers = 1]
  BY <1>4, Zenon DEF RoundStates
<1>7. [r1 EXCEPT !.local_timers = @ + 1]
        = [r EXCEPT !.proposal_timer = FALSE, !.local_timers = 2]
  <2>1. r1.local_timers + 1 = 2
    BY <1>4 DEF RoundStates
  <2>2. [r1 EXCEPT !.local_timers = @ + 1] = [r1 EXCEPT !.local_timers = 2]
    BY <1>6, <2>1, Zenon
  <2> QED
    BY <2>2, Zenon
<1> HIDE DEF w1, r1, r
<1>8. w1 \in Works /\ w1.rs = r1
  BY <1>4, <1>5, <1>6, Zenon DEF Works
<1>9. ASSUME NEW w \in outcomes PROVE WorkOK(n, w)
  <2>1. CASE rs[n].candidate = {}
    <3> DEFINE r2 == [r1 EXCEPT !.local_timers = @ + 1]
    <3> DEFINE w2 == [Work(n) EXCEPT !.rs = r2]
    <3>1. RunOK(n, r2, Work(n).store, Work(n).sd, Work(n).saved,
                Sent(n, msgs \cup Work(n).out))
      <4>1. 2 \in 1 .. 2
        OBVIOUS
      <4>2. RunOK(n, [r EXCEPT !.proposal_timer = FALSE, !.local_timers = 2],
                  Work(n).store, Work(n).sd, Work(n).saved, Sent(n, msgs \cup Work(n).out))
        BY <1>4, <4>1, ProposalTimerFires, Zenon
      <4> QED
        BY <1>7, <4>2, Zenon
    <3>2. [w1 EXCEPT !.rs.local_timers = @ + 1] = w2
      <4>1. [w1 EXCEPT !.rs.local_timers = @ + 1] = [w1 EXCEPT !.rs = r2]
        BY <1>8, Zenon DEF Works
      <4> HIDE DEF r2
      <4>2. [w1 EXCEPT !.rs = r2] = w2
        BY <1>4, <1>5, Zenon DEF Works
      <4> QED
        BY <4>1, <4>2, Zenon
    <3> HIDE DEF r2
    <3>3. WorkOK(n, w2)
      BY <1>3, <1>4, <3>1, RoundStateReplaced, Zenon DEF NewOK, NoneNew
    <3>4. w \in ProcessLocalTimeout(n, w1)
      BY <2>1, Zenon DEF outcomes
    <3> HIDE DEF w2
    <3> QED
      BY <1>8, <3>2, <3>3, <3>4, ProcessLocalTimeoutKeeps, Zenon
  <2>2. CASE rs[n].candidate # {}
    <3> DEFINE b == CHOOSE c \in rs[n].candidate : TRUE
    <3>1. RunOK(n, r1, Work(n).store, Work(n).sd, Work(n).saved,
                Sent(n, msgs \cup Work(n).out))
      <4>1. 1 \in 1 .. 2
        BY OneOrTwo, Zenon
      <4>2. RunOK(n, [r EXCEPT !.proposal_timer = FALSE, !.local_timers = 1],
                  Work(n).store, Work(n).sd, Work(n).saved, Sent(n, msgs \cup Work(n).out))
        BY <1>4, <4>1, ProposalTimerFires, Zenon
      <4> QED
        BY <1>6, <4>2, Zenon
    <3>2. WorkOK(n, w1)
      BY <1>3, <1>4, <1>5, <3>1, RoundStateReplaced, Zenon DEF NewOK, NoneNew
    <3>3. b \in Blocks /\ b.round = r1.round
      <4>1. b \in rs[n].candidate
        BY <2>2, Zenon
      <4>2. r1.round = rs[n].round /\ rs[n].candidate \in SUBSET Blocks
        BY <1>4, <1>6, Zenon DEF RoundStates, r
      <4>3. CandidateOK(rs[n])
        BY <1>4, Zenon DEF RunOK, r
      <4> QED
        BY <4>1, <4>2, <4>3, Zenon DEF CandidateOK
    <3>4. PICK w2 \in ExecuteAndVote(w1, b) :
            IF w2.ok THEN \E c \in w2.vote : w = ReleaseVote(n, w2, c, FALSE)
                     ELSE w = w2
      BY <2>2, Zenon DEF Then, outcomes
    <3> HIDE DEF b
    <3>5. WorkOK(n, w2) /\ (w2.ok => VoteReady(w2))
      BY <1>8, <3>2, <3>3, <3>4, ExecuteAndVoteKeeps, Zenon
    <3>6. CASE w2.ok
      <4>1. PICK c \in w2.vote : w = ReleaseVote(n, w2, c, FALSE)
        BY <3>4, <3>6, Zenon
      <4> QED
        BY <3>5, <3>6, <4>1, ReleaseVoteKeeps, Zenon
    <3>7. CASE ~ w2.ok
      BY <3>4, <3>5, <3>7, Zenon
    <3> QED
      BY <3>6, <3>7, Zenon
  <2> QED
    BY <2>1, <2>2, Zenon
<1> QED
  BY <1>1, <1>2, <1>9, HandlerKeeps, Zenon

\* process_new_round_timeout: the timer is spent; a timeout certificate alone
\* starts the next round for sure.
LEMMA NewRoundTimeoutKeeps ==
  ASSUME IInv, NEW n \in Node, NewRoundTimeout(n)
  PROVE  Kept
<1> DEFINE w1 == [Work(n) EXCEPT !.rs.new_round_timer = FALSE]
<1> DEFINE r == rs[n]
<1> DEFINE r1 == [r EXCEPT !.new_round_timer = FALSE]
<1> DEFINE sent == Sent(n, msgs \cup Work(n).out)
<1>1. up[n] /\ r.new_round_timer /\ r.round < MaxRound /\ UNCHANGED <<up, crashes>>
  BY Zenon DEF NewRoundTimeout
<1>2. PICK x \in IF QuorumCerts(r) # {}
                 THEN UNION {InsertQuorumCert(w1, q) : q \in QuorumCerts(r)}
                 ELSE If(CheckVotingPower(r.partial_tc),
                         InsertTimeoutCertificate(w1, r.round)) :
        \E w \in ProcessCertificates(n, x) : Finish(n, w)
  BY Zenon DEF NewRoundTimeout
<1>3. PICK w \in ProcessCertificates(n, x) : Finish(n, w)
  BY <1>2, Zenon
<1>4. WorkOK(n, Work(n)) /\ Work(n).rs = r /\ NoneNew(n, Work(n).out)
  BY <1>1, WorkStarts, Zenon
<1>5. /\ Work(n) \in Works /\ r \in RoundStates /\ PendingOK(r)
      /\ DiskOK(Work(n).store, Work(n).sd, Work(n).saved, sent)
      /\ RunOK(n, r, Work(n).store, Work(n).sd, Work(n).saved, sent)
      /\ RelayOK(n, Work(n).out)
  BY <1>1, <1>4, Zenon DEF WorkOK, PartsOK, RunOK
<1>6. w1 = [Work(n) EXCEPT !.rs = r1]
  BY <1>4, <1>5, Zenon DEF Works
<1>7. /\ r1 \in RoundStates /\ r1.round = r.round /\ r1.votes = r.votes
      /\ r1.li_votes = r.li_votes /\ r1.partial_tc = r.partial_tc
      /\ r1.vote_sent = r.vote_sent /\ r1.candidate = r.candidate
      /\ r1.local_timers = r.local_timers /\ r1.proposal_timer = r.proposal_timer
      /\ r1.new_round_sent = r.new_round_sent /\ r1.new_round_timer = FALSE
  BY <1>5, Zenon DEF RoundStates
<1> HIDE DEF w1, r1, r, sent
<1>8. /\ w1 \in Works /\ w1.rs = r1 /\ w1.store = Work(n).store /\ w1.sd = Work(n).sd
      /\ w1.saved = Work(n).saved /\ w1.out = Work(n).out
  BY <1>5, <1>6, <1>7, Zenon DEF Works
<1>9. r.round \in 0 .. MaxRound - 1
  BY <1>1, <1>5, MaxRoundPositive DEF RoundStates
<1>10. CASE QuorumCerts(r) # {}
  <2>1. RunOK(n, r1, w1.store, w1.sd, w1.saved, sent)
    <3>1. QuorumCerts(r1) = QuorumCerts(r)
      BY <1>7, Zenon DEF QuorumCerts, Signers
    <3>2. PendingOK(r1)
      BY <1>5, <1>7, <1>10, <3>1, Zenon DEF PendingOK, Certificate
    <3> QED
      BY <1>5, <1>7, <1>8, <3>2, ZenonT(30) DEF RunOK, TimersOK, VoteSentOK, Knows, CandidateOK
  <2>2. WorkOK(n, w1)
    <3>1. NewOK(n, r1.round, w1.out)
      BY <1>4, <1>8, Zenon DEF NewOK, NoneNew
    <3> QED
      BY <1>5, <1>8, <2>1, <3>1, Zenon DEF WorkOK, PartsOK, sent
  <2>3. PICK q \in QuorumCerts(r) : x \in InsertQuorumCert(w1, q)
    BY <1>2, <1>10, Zenon
  <2>4. q \in Certificates
    <3>1. q \in Blocks /\ q.round = r.round
      BY <1>5, QuorumCertsOfRound, Zenon
    <3> QED
      BY <1>1, <3>1, Zenon DEF Certificates
  <2>5. WorkOK(n, x) /\ x.out = w1.out
    BY <2>2, <2>3, <2>4, InsertQuorumCertKeeps, Zenon
  <2>6. /\ x \in Works /\ DiskOK(x.store, x.sd, x.saved, Sent(n, msgs \cup x.out))
        /\ RelayOK(n, x.out) /\ Knows(x.rs, Sent(n, msgs \cup x.out)) /\ NoneNew(n, x.out)
    BY <1>4, <1>8, <2>5, Zenon DEF WorkOK, PartsOK, RunOK
  <2>7. WorkOK(n, w)
    BY <1>3, <2>5, <2>6, ProcessCertificatesKeeps, Zenon
  <2> QED
    BY <1>1, <1>3, <2>7, HandlerKeeps, Zenon
<1>11. CASE QuorumCerts(r) = {}
  <2>1. x = InsertTimeoutCertificate(w1, r.round)
    BY <1>2, <1>11, Zenon DEF If
  <2>2. /\ x \in Works /\ x.rs = r1 /\ x.sd = w1.sd /\ x.saved = w1.saved
        /\ x.out = w1.out /\ NextRound(x.store) >= NextRound(w1.store)
        /\ NextRound(x.store) > r.round
    BY <1>8, <1>9, <2>1, InsertTimeoutCertificateFields, Zenon
  <2>3. x.store \in Stores /\ w1.store \in Stores
    BY <1>8, <2>2, Zenon DEF Works
  <2>4. DiskOK(x.store, x.sd, x.saved, Sent(n, msgs \cup x.out))
    BY <1>5, <1>8, <2>2, <2>3, DiskKept, Zenon DEF sent
  <2>5. Knows(x.rs, Sent(n, msgs \cup x.out)) /\ RelayOK(n, x.out)
    <3>1. Knows(r, sent)
      BY <1>5, Zenon DEF RunOK
    <3>2. Knows(r1, sent)
      BY <1>7, <3>1, Zenon DEF Knows
    <3> QED
      BY <1>5, <1>8, <2>2, <3>2, Zenon DEF sent
  <2>6. WorkOK(n, w)
    <3>1. NoneNew(n, x.out)
      BY <1>4, <1>8, <2>2, Zenon
    <3> QED
      BY <1>3, <1>7, <2>2, <2>4, <2>5, <3>1, ProcessCertificatesKeeps, Zenon
  <2> QED
    BY <1>1, <1>3, <2>6, HandlerKeeps, Zenon
<1> QED
  BY <1>10, <1>11, Zenon

-----------------------------------------------------------------------------
(* Messages                                                                *)

\* The certificate of the genesis block is one.
LEMMA GenesisCertificate == Genesis \in Certificates
  BY MaxRoundPositive DEF Genesis, Certificates

\* What peers send in a sync info.
LEMMA PeerSyncInfosType == PeerSyncInfos \subseteq SyncInfos
<1> SUFFICES ASSUME NEW i \in PeerSyncInfos PROVE i \in SyncInfos
  BY Zenon
<1>1. /\ i \in [hqc : Blocks \cup {Genesis}, hcc : Blocks \cup {Genesis},
                tc : 0 .. MaxRound - 1]
      /\ HighestRound(i) < MaxRound /\ i.hcc.round <= i.hqc.round
  BY Zenon DEF PeerSyncInfos
<1>2. i.hqc.round \in Nat /\ i.hcc.round \in Nat
  <2>1. Genesis.round = 0
    BY Zenon DEF Genesis
  <2> QED
    BY <1>1, <2>1, BlockFields
<1>3. i.hqc.round < MaxRound
  BY <1>1, <1>2, MaxRoundPositive DEF HighestRound
<1>4. i.hqc \in Certificates /\ i.hcc \in Certificates
  BY <1>1, <1>2, <1>3, MaxRoundPositive DEF Certificates
<1> QED
  BY <1>1, <1>4, Zenon DEF SyncInfos

\* The votes a node may receive: sent by a node, or a peer's own.
LEMMA VoteReceivedType ==
  ASSUME msgs \in SUBSET Messages, NEW n,
         NEW m \in Received(n, "vote") \cup PeerVotes
  PROVE  /\ m \in [type : {"vote"}, vote : AnyVote, sync : SyncInfos, to : SUBSET Node]
         /\ m.vote.author \in Node => m \in msgs
<1>1. CASE m \in Received(n, "vote")
  <2>1. m \in Messages /\ m.type = "vote" /\ m \in msgs
    BY <1>1, Zenon DEF Received
  <2> QED
    BY <2>1, Zenon DEF Messages
<1>2. CASE m \in PeerVotes
  <2>1. PICK p \in Peer, b \in {c \in Blocks : c.round < MaxRound}, t \in BOOLEAN :
          m = PeerVote(p, b, t)
    BY <1>2 DEF PeerVotes
  <2> DEFINE v == [author |-> p, block |-> b, timeout |-> t]
  <2> DEFINE i == [hqc |-> Genesis, hcc |-> Genesis,
                   tc |-> IF CheckVotingPower(Peer) THEN b.round - 1 ELSE 0]
  <2>2. v \in AnyVote /\ v.author = p
    BY NodeAssumption, Zenon DEF AnyVote
  <2>3. i \in SyncInfos
    <3>1. b.round - 1 \in 0 .. MaxRound - 1 /\ 0 \in 0 .. MaxRound - 1
      <4>1. b.round \in 1 .. MaxRound
        BY BlockFields, Zenon
      <4> QED
        BY <4>1, MaxRoundPositive
    <3> QED
      BY <3>1, GenesisCertificate, Zenon DEF SyncInfos
  <2>4. m = VoteMsg(v, i)
    BY <2>1, Zenon DEF PeerVote
  <2> HIDE DEF v, i
  <2>5. /\ m \in [type : {"vote"}, vote : AnyVote, sync : SyncInfos, to : SUBSET Node]
        /\ m.vote = v
    BY <2>2, <2>3, <2>4, Zenon DEF VoteMsg
  <2>6. p \notin Node
    BY NodeAssumption, Zenon
  <2> QED
    BY <2>2, <2>5, <2>6, Zenon
<1> QED
  BY <1>1, <1>2, Zenon

\* What a proposal message holds.
LEMMA ProposalReceivedType ==
  ASSUME msgs \in SUBSET Messages, NEW n,
         NEW m \in Received(n, "proposal") \cup PeerProposals
  PROVE  m \in [type : {"proposal"}, block : Blocks, sync : SyncInfos, to : SUBSET Node]
<1>1. CASE m \in Received(n, "proposal")
  <2>1. m \in Messages /\ m.type = "proposal"
    BY <1>1, Zenon DEF Received
  <2> QED
    BY <2>1, Zenon DEF Messages
<1>2. CASE m \in PeerProposals
  <2>1. PICK b \in Blocks, i \in PeerSyncInfos : m = ProposalMsg(b, i)
    BY <1>2 DEF PeerProposals
  <2>2. i \in SyncInfos
    BY PeerSyncInfosType, Zenon
  <2> QED
    BY <2>1, <2>2, Zenon DEF ProposalMsg
<1> QED
  BY <1>1, <1>2, Zenon

\* A vote passed on is one that was sent before, or a peer's.
LEMMA RelayVoteKeeps ==
  ASSUME NEW n \in Node, NEW w, WorkOK(n, w), NEW author,
         NEW m \in [type : {"vote"}, vote : AnyVote, sync : SyncInfos, to : SUBSET Node],
         m.vote.author \in Node => m \in msgs
  PROVE  WorkOK(n, Relay(n, w, m, author))
<1> DEFINE m1 == [m EXCEPT !.to = Node \ {n, author}]
<1> DEFINE x == Relay(n, w, m, author)
<1>1. /\ m1 \in Messages /\ m1.type = "vote" /\ m1.vote = m.vote
  BY Zenon DEF Messages
<1>2. x = Send(w, m1)
  BY Zenon DEF Relay
<1> HIDE DEF m1
<1>3. CASE m1.to = {}
  BY <1>2, <1>3, Zenon DEF Send
<1>4. CASE m1.to # {}
  <2>1. x = [w EXCEPT !.out = @ \cup {m1}]
    BY <1>2, <1>4, Zenon DEF Send
  <2> HIDE DEF x
  <2>2. /\ x \in Works /\ x.rs = w.rs /\ x.store = w.store /\ x.sd = w.sd
        /\ x.saved = w.saved /\ x.out = w.out \cup {m1}
    BY <1>1, <2>1, Zenon DEF WorkOK, Works
  <2>3. m.vote.author \in Node => m.vote.block \in Sent(m.vote.author, msgs)
    BY Zenon DEF Sent
  <2>4. Sent(n, msgs \cup x.out) = Sent(n, msgs \cup w.out)
    <3>1. msgs \cup x.out = (msgs \cup w.out) \cup {m1}
      BY <2>2, Zenon
    <3>2. m.vote.author = n => m.vote.block \in Sent(n, msgs \cup w.out)
      BY <2>3, Zenon DEF Sent
    <3>3. Sent(n, (msgs \cup w.out) \cup {m1}) = Sent(n, msgs \cup w.out) \cup
            (IF m1.type = "vote" /\ m1.vote.author = n THEN {m1.vote.block} ELSE {})
      BY SentMore, Zenon
    <3>4. CASE m.vote.author = n
      <4>1. m1.type = "vote" /\ m1.vote = m.vote
        BY <1>1, Zenon
      <4>2. Sent(n, msgs \cup x.out) = Sent(n, msgs \cup w.out) \cup {m.vote.block}
        <5>1. (IF m1.type = "vote" /\ m1.vote.author = n THEN {m1.vote.block} ELSE {})
                = {m.vote.block}
          BY <3>4, <4>1, Zenon
        <5> QED
          BY <3>1, <3>3, <5>1, Zenon
      <4> QED
        BY <3>2, <3>4, <4>2, Zenon
    <3>5. CASE m.vote.author # n
      BY <1>1, <3>1, <3>3, <3>5, Zenon
    <3> QED
      BY <3>4, <3>5, Zenon
  <2>5. RelayOK(n, x.out)
    BY <1>1, <2>2, <2>3 DEF RelayOK, WorkOK, PartsOK
  <2>6. NewOK(n, x.rs.round, x.out)
    <3>1. Sent(n, x.out) \subseteq Sent(n, w.out) \cup Sent(n, msgs)
      <4> SUFFICES ASSUME NEW b \in Sent(n, x.out)
                   PROVE  b \in Sent(n, w.out) \cup Sent(n, msgs)
        BY Zenon
      <4>1. PICK u \in x.out : u.type = "vote" /\ u.vote.author = n /\ u.vote.block = b
        BY Zenon DEF Sent
      <4>2. CASE u \in w.out
        BY <4>1, <4>2, Zenon DEF Sent
      <4>3. CASE u = m1
        BY <1>1, <2>3, <4>1, <4>3, Zenon
      <4> QED
        BY <2>2, <4>1, <4>2, <4>3, Zenon
    <3>2. NewOK(n, w.rs.round, w.out)
      BY Zenon DEF WorkOK, PartsOK
    <3> QED
      BY <2>2, <3>1, <3>2, Zenon DEF NewOK
  <2>7. WorkOK(n, x)
    BY <2>2, <2>4, <2>5, <2>6, Zenon DEF WorkOK, PartsOK
  <2> QED
    BY <2>7, Zenon DEF x
<1> QED
  BY <1>3, <1>4, Zenon

\* A vote is counted in the round of its block, one for an author.
LEMMA ReceiveVoteKeeps ==
  ASSUME IInv, NEW n \in Node, NEW m \in Received(n, "vote") \cup PeerVotes,
         ReceiveVote(n, m)
  PROVE  Kept
<1> DEFINE v == m.vote
<1> DEFINE process(w) ==
      IF VoteReceived(w.rs, v) \/ Equivocates(w.rs, v) THEN {w}
      ELSE {Relay(n, [w EXCEPT !.rs = InsertVote(@, v)], m, v.author)}
<1> DEFINE outcomes ==
      Then(EnsureRoundAndSyncUp(n, v.block.round, m.sync, {v.author} \cap Node), process)
<1>1. up[n] /\ UNCHANGED <<up, crashes>>
  BY Zenon DEF ReceiveVote
<1>2. \E w \in outcomes : Finish(n, w)
  BY Zenon DEF ReceiveVote
<1>3. /\ m \in [type : {"vote"}, vote : AnyVote, sync : SyncInfos, to : SUBSET Node]
      /\ v.author \in Node => m \in msgs
      /\ v \in AnyVote /\ m.sync \in SyncInfos
  BY VoteReceivedType DEF IInv
<1>4. ASSUME NEW w, WorkOK(n, w), w.rs.round = v.block.round, NEW x \in process(w)
      PROVE  WorkOK(n, x)
  <2>1. CASE VoteReceived(w.rs, v) \/ Equivocates(w.rs, v)
    BY <1>4, <2>1, Zenon
  <2>2. CASE ~ (VoteReceived(w.rs, v) \/ Equivocates(w.rs, v))
    <3> DEFINE r == InsertVote(w.rs, v)
    <3> DEFINE w1 == [w EXCEPT !.rs = r]
    <3> DEFINE sent == Sent(n, msgs \cup w.out)
    <3>1. /\ w \in Works /\ w.rs \in RoundStates /\ PendingOK(w.rs)
          /\ DiskOK(w.store, w.sd, w.saved, sent) /\ RelayOK(n, w.out)
          /\ RunOK(n, w.rs, w.store, w.sd, w.saved, sent)
          /\ NewOK(n, w.rs.round, w.out)
      BY <1>4, Zenon DEF WorkOK, PartsOK, RunOK
    <3>2. r \in RoundStates /\ PendingOK(r) /\ SameRound(w.rs, r)
      BY <1>3, <1>4, <2>2, <3>1, InsertVoteKeeps, Zenon
    <3>3. x = Relay(n, w1, m, v.author)
      BY <2>2, Zenon
    <3> HIDE DEF r, sent, v
    <3>4. RunOK(n, r, w.store, w.sd, w.saved, sent)
      <4>1. TimersOK(r) /\ CandidateOK(r) /\ VoteSentOK(n, r, w.sd, w.saved)
        BY <3>1, <3>2, Zenon DEF RunOK, SameRound, TimersOK, CandidateOK, VoteSentOK
      <4>2. Knows(r, sent) /\ r.round >= 1 /\ r.round <= NextRound(w.store)
        BY <3>1, <3>2, Zenon DEF RunOK, SameRound, Knows
      <4> QED
        BY <3>2, <4>1, <4>2, Zenon DEF RunOK
    <3>5. WorkOK(n, w1)
      BY <3>1, <3>2, <3>4, RoundStateReplaced, Zenon DEF sent, SameRound
    <3> HIDE DEF w1
    <3> QED
      BY <1>3, <3>3, <3>5, RelayVoteKeeps, Zenon DEF v
  <2> QED
    BY <2>1, <2>2, Zenon
<1>5. ASSUME NEW x \in outcomes PROVE WorkOK(n, x)
  <2>1. PICK w \in EnsureRoundAndSyncUp(n, v.block.round, m.sync, {v.author} \cap Node) :
          IF w.ok THEN x \in process(w) ELSE x = w
    BY <1>5, Zenon DEF Then
  <2> HIDE DEF process
  <2>2. {v.author} \cap Node \in SUBSET Node
    BY Zenon
  <2>3. WorkOK(n, w) /\ (w.ok => w.rs.round = v.block.round)
    BY <1>1, <1>3, <2>2, EnsureRoundKeeps, SMTT(20)
  <2>4. CASE w.ok
    BY <1>4, <2>1, <2>3, <2>4, Zenon
  <2>5. CASE ~ w.ok
    BY <2>1, <2>3, <2>5, Zenon
  <2> QED
    BY <2>4, <2>5, Zenon
<1> HIDE DEF outcomes
<1> QED
  BY <1>1, <1>2, <1>5, HandlerKeeps, Zenon

\* A proposal of the round becomes the candidate if it is the better one.
LEMMA ReceiveProposalKeeps ==
  ASSUME IInv, NEW n \in Node, NEW m \in Received(n, "proposal") \cup PeerProposals,
         ReceiveProposal(n, m)
  PROVE  Kept
<1> DEFINE b == m.block
<1> DEFINE process(w) ==
      IF ~ BetterCandidate(w.rs, b) THEN {w}
      ELSE {Relay(n, [w EXCEPT !.rs.candidate = {b}, !.store.blocks = @ \cup {b}], m, b.id),
            Fail(w)}
<1> DEFINE outcomes ==
      Then(EnsureRoundAndSyncUp(n, b.round, m.sync, {b.id} \cap Node), process)
<1>1. up[n] /\ UNCHANGED <<up, crashes>>
  BY Zenon DEF ReceiveProposal
<1>2. \E w \in outcomes : Finish(n, w)
  BY Zenon DEF ReceiveProposal
<1>3. /\ m \in [type : {"proposal"}, block : Blocks, sync : SyncInfos, to : SUBSET Node]
      /\ b \in Blocks /\ m.sync \in SyncInfos
  BY ProposalReceivedType DEF IInv
<1>4. ASSUME NEW w, WorkOK(n, w), w.rs.round = b.round, NEW x \in process(w)
      PROVE  WorkOK(n, x)
  <2> DEFINE r == [w.rs EXCEPT !.candidate = {b}]
  <2> DEFINE w1 == [w EXCEPT !.rs = r]
  <2> DEFINE w2 == [w1 EXCEPT !.store.blocks = @ \cup {b}]
  <2> DEFINE m1 == [m EXCEPT !.to = Node \ {n, b.id}]
  <2>1. /\ w \in Works /\ w.rs \in RoundStates
        /\ DiskOK(w.store, w.sd, w.saved, Sent(n, msgs \cup w.out)) /\ RelayOK(n, w.out)
        /\ RunOK(n, w.rs, w.store, w.sd, w.saved, Sent(n, msgs \cup w.out))
        /\ NewOK(n, w.rs.round, w.out)
    BY <1>4, Zenon DEF WorkOK, PartsOK, RunOK
  <2>2. x \in {w, Fail(w), Send(w2, m1)}
    <3>1. [w EXCEPT !.rs.candidate = {b}, !.store.blocks = @ \cup {b}] = w2
      BY <2>1, Zenon DEF Works
    <3> QED
      BY <1>4, <3>1, Zenon DEF Relay
  <2>3. m1 \in Messages /\ m1.type # "vote"
    BY <1>3, Zenon DEF Messages
  <2> HIDE DEF b, m1
  <2>4. /\ r \in RoundStates /\ r.round = w.rs.round /\ r.votes = w.rs.votes
        /\ r.li_votes = w.rs.li_votes /\ r.partial_tc = w.rs.partial_tc
        /\ r.vote_sent = w.rs.vote_sent /\ r.candidate = {b}
        /\ r.local_timers = w.rs.local_timers /\ r.proposal_timer = w.rs.proposal_timer
        /\ r.new_round_sent = w.rs.new_round_sent
        /\ r.new_round_timer = w.rs.new_round_timer
    BY <1>3, <2>1, Zenon DEF RoundStates
  <2> HIDE DEF r
  <2>5. PendingOK(r)
    <3>1. QuorumCerts(r) = QuorumCerts(w.rs)
      BY <2>4, Zenon DEF QuorumCerts, Signers
    <3>2. PendingOK(w.rs)
      BY <2>1, Zenon DEF RunOK
    <3> QED
      BY <2>4, <3>1, <3>2, Zenon DEF PendingOK, Certificate
  <2>6. CandidateOK(r)
    BY <1>4, <2>4, Zenon DEF CandidateOK
  <2>7. RunOK(n, r, w.store, w.sd, w.saved, Sent(n, msgs \cup w.out))
    <3>1. TimersOK(r) /\ VoteSentOK(n, r, w.sd, w.saved)
      BY <2>1, <2>4, Zenon DEF RunOK, TimersOK, VoteSentOK
    <3>2. /\ Knows(r, Sent(n, msgs \cup w.out)) /\ r.round >= 1
          /\ r.round <= NextRound(w.store)
      BY <2>1, <2>4, Zenon DEF RunOK, Knows
    <3> QED
      BY <2>4, <2>5, <2>6, <3>1, <3>2, Zenon DEF RunOK
  <2>8. WorkOK(n, w1)
    BY <2>1, <2>4, <2>7, RoundStateReplaced, Zenon
  <2> HIDE DEF w1
  <2>9. WorkOK(n, w2)
    BY <1>3, <2>8, AddBlockKeeps, Zenon
  <2> HIDE DEF w2
  <2>10. WorkOK(n, Send(w2, m1)) /\ WorkOK(n, Fail(w))
    BY <1>4, <2>3, <2>9, SendOther, FailKeeps, Zenon
  <2> QED
    BY <1>4, <2>2, <2>10, Zenon
<1>5. ASSUME NEW x \in outcomes PROVE WorkOK(n, x)
  <2>1. PICK w \in EnsureRoundAndSyncUp(n, b.round, m.sync, {b.id} \cap Node) :
          IF w.ok THEN x \in process(w) ELSE x = w
    BY <1>5, Zenon DEF Then
  <2> HIDE DEF process, outcomes
  <2> HIDE DEF b
  <2>2. {b.id} \cap Node \in SUBSET Node
    BY Zenon
  <2>3. WorkOK(n, w) /\ (w.ok => w.rs.round = b.round)
    BY <1>1, <1>3, <2>2, EnsureRoundKeeps, SMTT(20)
  <2>4. CASE w.ok
    BY <1>4, <2>1, <2>3, <2>4, Zenon
  <2>5. CASE ~ w.ok
    BY <2>1, <2>3, <2>5, Zenon
  <2> QED
    BY <2>4, <2>5, Zenon
<1> HIDE DEF outcomes
<1> QED
  BY <1>1, <1>2, <1>5, HandlerKeeps, Zenon

\* A sync info brings the node to its round.
LEMMA ReceiveSyncInfoKeeps ==
  ASSUME IInv, NEW n \in Node, NEW m, m.sync \in SyncInfos, ReceiveSyncInfo(n, m)
  PROVE  Kept
<1>1. up[n] /\ UNCHANGED <<up, crashes>>
  BY Zenon DEF ReceiveSyncInfo
<1>2. PICK w \in EnsureRoundAndSyncUp(n, HighestRound(m.sync) + 1, m.sync, {}) :
        Finish(n, w)
  BY Zenon DEF ReceiveSyncInfo
<1>3. WorkOK(n, w)
  BY <1>1, <1>2, EnsureRoundKeeps, Zenon
<1> QED
  BY <1>1, <1>2, <1>3, HandlerKeeps, Zenon

\* A crash between signing a vote and saving or sending it.
LEMMA CrashInVoteKeeps ==
  ASSUME IInv, NEW n \in Node, CrashInVote(n)
  PROVE  Kept
<1> DEFINE nil == Extends(store[n].hqc, rs[n].round, Nil)
<1> DEFINE chosen == IF rs[n].proposal_timer THEN rs[n].candidate ELSE {}
<1> DEFINE timed_out == If(~ Certificate(rs[n]) /\ store[n].hqc.round < rs[n].round, nil)
<1>1. /\ up[n] /\ crashes < MaxCrashes /\ rs[n].vote_sent = {}
      /\ up' = [up EXCEPT ![n] = FALSE] /\ crashes' = crashes + 1
  BY Zenon DEF CrashInVote
<1>2. PICK b \in chosen \cup timed_out :
        LET w == SignVote([Work(n) EXCEPT !.store.blocks = @ \cup {b}], b)
        IN  /\ w.ok
            /\ \E w1 \in {w, SaveVote(w)} : Finish(n, [w1 EXCEPT !.rs = NoRound])
  BY Zenon DEF CrashInVote
<1>3. WorkOK(n, Work(n)) /\ Work(n).rs = rs[n] /\ Work(n).store = store[n]
  BY <1>1, WorkStarts, Zenon
<1>4. /\ rs[n] \in RoundStates /\ store[n].hqc \in Certificates
      /\ rs[n].round \in 1 .. MaxRound /\ CandidateOK(rs[n])
  <2>1. RunOK(n, rs[n], store[n], sd[n], saved[n], Sent(n, msgs)) /\ store[n] \in Stores
    BY <1>1, Zenon DEF IInv, DiskOK
  <2>2. rs[n] \in RoundStates /\ CandidateOK(rs[n]) /\ rs[n].round >= 1
    BY <2>1, Zenon DEF RunOK
  <2>3. store[n].hqc \in Certificates
    BY <2>1 DEF Stores
  <2>4. rs[n].round \in 1 .. MaxRound
    BY <2>2, MaxRoundPositive DEF RoundStates
  <2> QED
    BY <2>2, <2>3, <2>4, Zenon
<1>5. b \in Blocks /\ b.round = rs[n].round
  <2>1. CASE b \in rs[n].candidate
    BY <1>4, <2>1, Zenon DEF CandidateOK, RoundStates
  <2>2. CASE b = nil /\ store[n].hqc.round < rs[n].round
    BY <1>4, <2>2, ExtendsBlock
  <2> QED
    BY <2>1, <2>2, Zenon DEF If
<1> DEFINE w0 == [Work(n) EXCEPT !.store.blocks = @ \cup {b}]
<1> DEFINE w == SignVote(w0, b)
<1>6. WorkOK(n, w0) /\ w0.rs = rs[n]
  BY <1>3, <1>5, AddBlockKeeps, Zenon
<1>7. w.ok /\ \E w1 \in {w, SaveVote(w)} : Finish(n, [w1 EXCEPT !.rs = NoRound])
  BY <1>2, Zenon
<1> HIDE DEF w0
<1>8. WorkOK(n, w) /\ Signed(w) /\ w.rs.vote_sent = {}
  BY <1>1, <1>5, <1>6, <1>7, SignVoteKeeps, Zenon
<1> HIDE DEF w
<1>9. PICK w1 \in {w, SaveVote(w)} : Finish(n, [w1 EXCEPT !.rs = NoRound])
  BY <1>7, Zenon
<1>10. WorkOK(n, w1)
  BY <1>8, SaveVoteKeeps, Zenon
<1> DEFINE x == [w1 EXCEPT !.rs = NoRound]
<1>11. /\ x.store = w1.store /\ x.sd = w1.sd /\ x.saved = w1.saved
       /\ x.out = w1.out /\ x.rs = NoRound /\ w1.out \in SUBSET Messages
  BY <1>10, Zenon DEF WorkOK, Works
<1> HIDE DEF x
<1>12. /\ DiskOK(x.store, x.sd, x.saved, Sent(n, msgs \cup x.out)) /\ RelayOK(n, x.out)
       /\ NewOK(n, w1.rs.round, x.out)
  BY <1>10, <1>11, Zenon DEF WorkOK, PartsOK
<1>13. /\ up' \in [Node -> BOOLEAN] /\ ~ up'[n]
       /\ \A k \in Node \ {n} : up'[k] = up[k]
  BY <1>1, Zenon DEF IInv
<1>14. crashes' \in 0 .. MaxCrashes
  <2>1. crashes \in 0 .. MaxCrashes /\ crashes < MaxCrashes /\ crashes' = crashes + 1
    BY <1>1, Zenon DEF IInv
  <2> QED
    BY <2>1, NodeAssumption
<1>15. Finish(n, x)
  BY <1>9, Zenon DEF x
<1> QED
  BY <1>11, <1>12, <1>13, <1>14, <1>15, FinishKeeps, Zenon

\* The state of a node that is not running.
LEMMA NoRoundType == NoRound \in RoundStates
<1>1. 0 \in 0 .. MaxRound /\ 0 \in Nat
  BY MaxRoundPositive
<1> QED
  BY <1>1, Zenon DEF NoRound, RoundStates

\* The saved vote becomes the vote of the round the node restarts in.
LEMMA RecordVoteKeeps ==
  ASSUME NEW r \in RoundStates, PendingOK(r), TimersOK(r), CandidateOK(r),
         NEW v \in AnyVote, v.block.round = r.round
  PROVE  LET r1 == RecordVote(r, v)
         IN  /\ r1 \in RoundStates /\ r1.round = r.round /\ r1.vote_sent = {v}
             /\ PendingOK(r1) /\ TimersOK(r1) /\ CandidateOK(r1)
<1> DEFINE r1 == RecordVote(r, v)
<1>1. r1 = [r EXCEPT !.vote_sent = {v}]
  BY Zenon DEF RecordVote
<1> HIDE DEF r1
<1>2. /\ r1 \in RoundStates /\ r1.round = r.round /\ r1.vote_sent = {v}
      /\ r1.votes = r.votes /\ r1.li_votes = r.li_votes
      /\ r1.partial_tc = r.partial_tc /\ r1.local_timers = r.local_timers
      /\ r1.new_round_sent = r.new_round_sent /\ r1.new_round_timer = r.new_round_timer
      /\ r1.proposal_timer = r.proposal_timer /\ r1.candidate = r.candidate
  BY <1>1, Zenon DEF RoundStates
<1>3. QuorumCerts(r1) = QuorumCerts(r)
  BY <1>2, Zenon DEF QuorumCerts, Signers
<1>4. PendingOK(r1)
  BY <1>2, <1>3, Zenon DEF PendingOK, Certificate
<1>5. TimersOK(r1) /\ CandidateOK(r1)
  BY <1>2, Zenon DEF TimersOK, CandidateOK
<1> QED
  BY <1>2, <1>4, <1>5, Zenon DEF r1

\* A restart ends in the event of the round it starts in.
LEMMA RestartFinishes ==
  ASSUME IInv, NEW n \in Node, NEW w, WorkOK(n, w), w.store.hqc.round < w.rs.round,
         NEW x \in ProcessNewRoundEvent(n, w), Finish(n, x),
         up' = [up EXCEPT ![n] = TRUE], UNCHANGED crashes
  PROVE  Kept
<1>1. /\ up' \in [Node -> BOOLEAN] /\ up'[n] /\ crashes' \in 0 .. MaxCrashes
      /\ \A k \in Node \ {n} : up'[k] = up[k]
  BY Zenon DEF IInv
<1>2. WorkOK(n, x)
  BY ProcessNewRoundEventKeeps, Zenon
<1>3. /\ x.out \in SUBSET Messages /\ RelayOK(n, x.out)
      /\ DiskOK(x.store, x.sd, x.saved, Sent(n, msgs \cup x.out))
      /\ RunOK(n, x.rs, x.store, x.sd, x.saved, Sent(n, msgs \cup x.out))
      /\ NewOK(n, x.rs.round, x.out)
  BY <1>2, Zenon DEF WorkOK, PartsOK, Works
<1> QED
  BY <1>1, <1>3, FinishKeeps, Zenon

\* RoundManager::start: the certificates on disk lead to the round last voted
\* in or beyond, and in that round the saved vote is the one sent.
LEMMA RestartKeeps ==
  ASSUME IInv, NEW n \in Node, Restart(n)
  PROVE  Kept
<1> DEFINE round == NextRound(store[n])
<1> DEFINE w0 == [Work(n) EXCEPT !.rs = NoRound]
<1> DEFINE w1 == StartRound(w0, round)
<1> DEFINE w2 == IF saved[n] = {} THEN w1
                 ELSE [w1 EXCEPT !.rs = RecordVote(@, LastVote(n))]
<1>1. ~ up[n] /\ up' = [up EXCEPT ![n] = TRUE] /\ UNCHANGED crashes
  BY Zenon DEF Restart
<1>2. PICK x \in ProcessNewRoundEvent(n, w2) : Finish(n, x)
  BY Zenon DEF Restart, NextRound
<1>3. DiskOK(store[n], sd[n], saved[n], Sent(n, msgs))
  BY Zenon DEF IInv
<1>4. /\ store[n] \in Stores /\ sd[n] \in SafetyData(Blocks) /\ saved[n] \in SUBSET Blocks
      /\ Sent(n, msgs) \in SUBSET Blocks
      /\ LastVoteOK(store[n], sd[n]) /\ SavedOK(sd[n], saved[n])
      /\ SentOK(sd[n], saved[n], Sent(n, msgs)) /\ LockOK(sd[n], Sent(n, msgs))
  BY <1>3, Zenon DEF DiskOK
<1>5. round \in 1 .. MaxRound /\ sd[n].last_voted_round \in Nat
      /\ sd[n].last_voted_round <= round
  BY <1>4, SyncInfoOfStore, Zenon DEF SafetyData, LastVoteOK
<1>6. /\ w0 \in Works /\ w0.rs = NoRound /\ w0.store = store[n] /\ w0.sd = sd[n]
      /\ w0.saved = saved[n] /\ w0.out = {}
  <2>1. Work(n) \in Works
    <3>1. rs[n] = NoRound
      BY <1>1, Zenon DEF IInv
    <3> QED
      BY <1>4, <3>1, NoRoundType, Zenon DEF Work, Works
  <2>2. /\ Work(n).store = store[n] /\ Work(n).sd = sd[n]
        /\ Work(n).saved = saved[n] /\ Work(n).out = {}
    BY Zenon DEF Work
  <2> QED
    BY <2>1, <2>2, NoRoundType, Zenon DEF Works
<1> HIDE DEF w0
<1>7. msgs \cup w0.out = msgs /\ RelayOK(n, w0.out) /\ NoneNew(n, w0.out)
  BY <1>6, Zenon DEF RelayOK, NoneNew, Sent
<1>8. CASE \A b \in saved[n] : b.round # round
  <2>1. \A b \in Sent(n, msgs) : b.round < round
    <3> TAKE b \in Sent(n, msgs)
    <3>1. b.round \in Nat
      BY <1>4, BlockFields
    <3>2. CASE b.round < sd[n].last_voted_round
      BY <1>5, <3>1, <3>2
    <3>3. CASE b \in sd[n].last_vote /\ saved[n] = sd[n].last_vote
      <4>1. b.round = sd[n].last_voted_round /\ b.round # round
        BY <1>4, <1>8, <3>3, Zenon DEF LastVoteOK
      <4> QED
        BY <1>5, <3>1, <4>1
    <3> QED
      BY <1>4, <3>2, <3>3, Zenon DEF SentOK
  <2>2. WorkOK(n, w1) /\ w1.store.hqc.round < w1.rs.round /\ w1.rs.round = round
    <3>1. /\ round = NextRound(w0.store)
          /\ DiskOK(w0.store, w0.sd, w0.saved, Sent(n, msgs \cup w0.out))
          /\ \A b \in Sent(n, msgs \cup w0.out) : b.round < round
      BY <1>3, <1>6, <1>7, <2>1, Zenon
    <3> HIDE DEF round
    <3>2. w0 \in Works /\ RelayOK(n, w0.out) /\ NoneNew(n, w0.out)
      BY <1>6, <1>7, Zenon
    <3> QED
      BY <3>1, <3>2, StartRoundKeeps, Zenon
  <2>3. w1 \in Works
    BY <2>2, Zenon DEF WorkOK
  <2> HIDE DEF w1
  <2>4. w2 = w1
    <3>1. CASE saved[n] = {}
      BY <3>1, Zenon
    <3>2. CASE saved[n] # {}
      <4> DEFINE v == LastVote(n)
      <4>1. v.block.round # round
        BY <1>8, <3>2, Zenon DEF LastVote
      <4>2. RecordVote(w1.rs, v) = w1.rs
        BY <2>2, <4>1, Zenon DEF RecordVote
      <4> HIDE DEF v
      <4>3. [w1 EXCEPT !.rs = RecordVote(@, v)] = w1
        BY <2>3, <4>2, Zenon DEF Works
      <4> QED
        BY <3>2, <4>3, Zenon DEF v
    <3> QED
      BY <3>1, <3>2, Zenon
  <2> HIDE DEF w2
  <2> QED
    BY <1>2, <2>2, <2>4, RestartFinishes, <1>1, Zenon
<1>9. ASSUME NEW c \in saved[n], c.round = round
      PROVE  Kept
  <2> DEFINE v == [author |-> n, block |-> c, timeout |-> FALSE]
  <2>1. c \in Blocks /\ c.round \in Nat /\ sd[n].last_voted_round \in Nat
    BY <1>4, <1>5, BlockFields
  <2>2. /\ saved[n] = {c} /\ sd[n].last_vote = {c}
        /\ sd[n].last_voted_round = round
    <3>1. saved[n] = {c} /\ (c.round < sd[n].last_voted_round \/ c \in sd[n].last_vote)
      BY <1>4, <1>9, Zenon DEF SavedOK
    <3>2. c \in sd[n].last_vote
      BY <1>5, <1>9, <2>1, <3>1
    <3> QED
      BY <1>4, <1>9, <3>1, <3>2, Zenon DEF LastVoteOK
  <2>3. LastVote(n) = v
    BY <2>2, Zenon DEF LastVote
  <2>4. v \in AnyVote /\ v.block = c /\ v.author = n
    BY <2>1, NodeAssumption, Zenon DEF AnyVote
  <2> HIDE DEF v
  <2>5. /\ w1 \in Works /\ w1.rs = NewRound(NoRound, round)
        /\ w1.store.hqc = store[n].hqc /\ NextRound(w1.store) = round
        /\ w1.sd = sd[n] /\ w1.saved = saved[n] /\ w1.out = {}
    BY <1>5, <1>6, StartRoundFields
  <2> HIDE DEF w1
  <2> DEFINE r == NewRound(NoRound, round)
  <2>6. /\ r \in RoundStates /\ r.round = round
        /\ PendingOK(r) /\ TimersOK(r) /\ CandidateOK(r)
    BY <1>5, NoRoundType, NewRoundStarts, Zenon
  <2> HIDE DEF r
  <2> DEFINE r1 == RecordVote(r, v)
  <2>7. /\ r1 \in RoundStates /\ r1.round = round /\ r1.vote_sent = {v}
        /\ PendingOK(r1) /\ TimersOK(r1) /\ CandidateOK(r1)
    BY <1>9, <2>4, <2>6, RecordVoteKeeps, Zenon
  <2> HIDE DEF r1
  <2>8. Knows(r1, Sent(n, msgs))
    <3> SUFFICES ASSUME NEW b \in Sent(n, msgs)
                 PROVE  \/ r1.round > b.round
                        \/ r1.round = b.round /\ \E u \in r1.vote_sent : u.block = b
      BY Zenon DEF Knows
    <3>1. b.round < sd[n].last_voted_round \/ b \in sd[n].last_vote
      BY <1>4, Zenon DEF SentOK
    <3>2. b.round \in Nat
      BY <1>4, BlockFields
    <3>3. CASE b.round < round
      BY <1>5, <2>7, <3>2, <3>3, Zenon
    <3>4. CASE b = c
      BY <1>9, <2>4, <2>7, <3>4, Zenon
    <3> QED
      BY <2>2, <3>1, <3>3, <3>4, Zenon
  <2>9. VoteSentOK(n, r1, w1.sd, w1.saved)
    BY <1>9, <2>2, <2>4, <2>5, <2>7, Zenon DEF VoteSentOK
  <2>10. RunOK(n, r1, w1.store, w1.sd, w1.saved, Sent(n, msgs \cup w1.out))
    <3>1. msgs \cup w1.out = msgs
      BY <2>5, Zenon
    <3>2. r1.round >= 1 /\ r1.round <= NextRound(w1.store)
      BY <1>5, <2>5, <2>7
    <3> QED
      BY <2>7, <2>8, <2>9, <3>1, <3>2, Zenon DEF RunOK
  <2>11. /\ DiskOK(w1.store, w1.sd, w1.saved, Sent(n, msgs \cup w1.out))
         /\ RelayOK(n, w1.out) /\ NewOK(n, r1.round, w1.out)
    <3>1. msgs \cup w1.out = msgs /\ w1.store \in Stores
      BY <2>5, Zenon DEF Works
    <3>2. LastVoteOK(w1.store, w1.sd)
      BY <1>4, <2>5, Zenon DEF LastVoteOK
    <3>3. RelayOK(n, w1.out) /\ NewOK(n, r1.round, w1.out)
      BY <2>5, Zenon DEF RelayOK, NewOK, Sent
    <3> QED
      BY <1>4, <2>5, <3>1, <3>2, <3>3, Zenon DEF DiskOK
  <2> DEFINE y == [w1 EXCEPT !.rs = r1]
  <2>12. WorkOK(n, y) /\ y.rs = r1 /\ y.store = w1.store
    <3>1. w1 \in Works
      BY <2>5, Zenon
    <3> QED
      BY <2>10, <2>11, <3>1, RoundStateReplaced, SMTT(20)
  <2>13. w2 = y
    BY <1>9, <2>3, <2>5, Zenon DEF r1, r, Works
  <2>14. y.store.hqc.round < y.rs.round
    <3>1. store[n].hqc.round < NextRound(store[n])
      <4>1. store[n].hqc.round \in Nat /\ store[n].htc \in Nat
        BY <1>4, CertificateFields DEF Stores
      <4> QED
        BY <1>4, <4>1, SyncInfoOfStore
    <3> QED
      BY <2>5, <2>7, <2>12, <3>1, Zenon
  <2> HIDE DEF y, w2
  <2> QED
    BY <1>1, <1>2, <2>12, <2>13, <2>14, RestartFinishes, Zenon
<1> QED
  BY <1>8, <1>9, Zenon

-----------------------------------------------------------------------------
(* The invariant holds                                                     *)

\* The initial states satisfy the invariant.
LEMMA InitHolds == Init => IInv
<1> SUFFICES ASSUME Init PROVE IInv
  BY Zenon
<1>1. /\ up \in [Node -> BOOLEAN] /\ crashes \in 0 .. MaxCrashes /\ msgs = {}
      /\ DOMAIN rs = Node /\ DOMAIN store = Node /\ DOMAIN sd = Node /\ DOMAIN saved = Node
  BY NodeAssumption, SMTT(20) DEF Init
<1>2. ASSUME NEW n \in Node
      PROVE  ~ up[n] /\ rs[n] = NoRound /\ DiskOK(store[n], sd[n], saved[n], Sent(n, msgs))
  <2>1. ~ up[n] /\ rs[n] = NoRound /\ saved[n] = {} /\ Sent(n, msgs) = {}
    BY <1>1, Zenon DEF Init, Sent
  <2>2. store[n] \in Stores
    <3>1. store[n] = [hqc |-> Genesis, hcc |-> Genesis, htc |-> 0, blocks |-> {}]
      BY Zenon DEF Init
    <3> QED
      BY <3>1, GenesisCertificate, MaxRoundPositive, SMTT(20) DEF Stores
  <2>3. sd[n] \in SafetyData(Blocks) /\ sd[n].epoch = 1 /\ sd[n].last_vote = {}
        /\ sd[n].last_voted_round = 0
    BY Zenon DEF Init, NewSafetyData, SafetyData
  <2>4. LastVoteOK(store[n], sd[n])
    <3>1. 0 <= NextRound(store[n])
      BY <2>2, SyncInfoOfStore
    <3> QED
      BY <2>3, <3>1, Zenon DEF LastVoteOK
  <2> QED
    BY <2>1, <2>2, <2>3, <2>4, Zenon DEF DiskOK, SavedOK, SentOK, LockOK
<1> QED
  BY <1>1, <1>2, Zenon DEF IInv

\* Every step keeps the invariant.
LEMMA NextKeeps == IInv /\ [Next]_vars => Kept
<1> SUFFICES ASSUME IInv, [Next]_vars PROVE Kept
  BY Zenon
<1>1. ASSUME NEW n \in Node, Restart(n) PROVE Kept
  BY <1>1, RestartKeeps, Zenon
<1>2. ASSUME NEW n \in Node, Crash(n) PROVE Kept
  BY <1>2, CrashKeeps, Zenon
<1>3. ASSUME NEW n \in Node, CrashInVote(n) PROVE Kept
  BY <1>3, CrashInVoteKeeps, Zenon
<1>4. ASSUME NEW n \in Node, LocalTimeout(n) PROVE Kept
  BY <1>4, LocalTimeoutKeeps, Zenon
<1>5. ASSUME NEW n \in Node, ProposalTimeout(n) PROVE Kept
  BY <1>5, ProposalTimeoutKeeps, Zenon
<1>6. ASSUME NEW n \in Node, NewRoundTimeout(n) PROVE Kept
  BY <1>6, NewRoundTimeoutKeeps, Zenon
<1>7. ASSUME NEW n \in Node, NEW m \in Received(n, "vote") \cup PeerVotes, ReceiveVote(n, m)
      PROVE  Kept
  BY <1>7, ReceiveVoteKeeps, Zenon
<1>8. ASSUME NEW n \in Node, NEW m \in Received(n, "proposal") \cup PeerProposals,
             ReceiveProposal(n, m)
      PROVE  Kept
  BY <1>8, ReceiveProposalKeeps, Zenon
<1>9. ASSUME NEW n \in Node, NEW m \in Received(n, "sync"), ReceiveSyncInfo(n, m)
      PROVE  Kept
  <2>1. m \in Messages /\ m.type = "sync"
    BY Zenon DEF Received, IInv
  <2>2. m.sync \in SyncInfos
    BY <2>1, Zenon DEF Messages
  <2> QED
    BY <1>9, <2>2, ReceiveSyncInfoKeeps, Zenon
<1>10. ASSUME NEW n \in Node, NEW i \in PeerSyncInfos, ReceiveSyncInfo(n, SyncInfoMsg(i, Node))
       PROVE  Kept
  <2>1. SyncInfoMsg(i, Node).sync \in SyncInfos
    BY PeerSyncInfosType, Zenon DEF SyncInfoMsg
  <2> QED
    BY <1>10, <2>1, ReceiveSyncInfoKeeps, Zenon
<1>11. CASE UNCHANGED vars
  <2>1. IInv'
    BY <1>11, Zenon DEF vars, IInv
  <2> QED
    BY <1>11, <2>1, Zenon DEF vars, Kept, Promise!vars
<1>12. CASE Next
  BY <1>1, <1>2, <1>3, <1>4, <1>5, <1>6, <1>7, <1>8, <1>9, <1>10, <1>12, Zenon DEF Next
<1> QED
  BY <1>11, <1>12, Zenon

\* The invariant holds in every reachable state.
LEMMA Invariance == Spec => []IInv
<1>1. IInv /\ [Next]_vars => IInv'
  BY NextKeeps, Zenon DEF Kept
<1> QED
  BY <1>1, InitHolds, PTL DEF Spec

-----------------------------------------------------------------------------
(* What the invariant says of a node, running or not                       *)

\* A node that is not running has no votes, no candidate and no timers.
LEMMA StoppedRound ==
  /\ PendingOK(NoRound) /\ CandidateOK(NoRound) /\ NoRound.vote_sent = {}
  /\ NoRound.local_timers = 0
<1>1. QuorumCerts(NoRound) = {} /\ ~ CheckVotingPower(NoRound.partial_tc)
  <2>1. NoRound.li_votes = {} /\ NoRound.partial_tc = {}
    BY Zenon DEF NoRound
  <2>2. ~ CheckVotingPower({})
    BY QuorumsIntersect
  <2>3. QuorumCerts(NoRound) = {}
    BY <2>1, Zenon DEF QuorumCerts
  <2> QED
    BY <2>1, <2>2, <2>3, Zenon
<1> QED
  BY <1>1, Zenon DEF PendingOK, CandidateOK, Certificate, NoRound

\* What the invariant says of the round, the vote sent and the disk of a node.
LEMMA RoundOfNode ==
  ASSUME IInv, NEW n \in Node
  PROVE  /\ rs[n] \in RoundStates /\ PendingOK(rs[n]) /\ CandidateOK(rs[n])
         /\ \/ rs[n].vote_sent = {}
            \/ \E v \in rs[n].vote_sent : rs[n].vote_sent = {v}
         /\ rs[n].local_timers \in 0 .. 2
         /\ DiskOK(store[n], sd[n], saved[n], Sent(n, msgs))
<1>1. CASE up[n]
  <2>1. RunOK(n, rs[n], store[n], sd[n], saved[n], Sent(n, msgs))
    BY <1>1, Zenon DEF IInv
  <2>2. DiskOK(store[n], sd[n], saved[n], Sent(n, msgs))
    BY Zenon DEF IInv
  <2>3. /\ rs[n] \in RoundStates /\ PendingOK(rs[n]) /\ CandidateOK(rs[n])
        /\ \/ rs[n].vote_sent = {}
           \/ \E v \in rs[n].vote_sent : rs[n].vote_sent = {v}
        /\ rs[n].local_timers \in 1 .. 2
    BY <2>1, Zenon DEF RunOK, TimersOK, VoteSentOK
  <2>4. 1 .. 2 \subseteq 0 .. 2
    OBVIOUS
  <2> QED
    BY <2>2, <2>3, <2>4, Zenon
<1>2. CASE ~ up[n]
  <2>1. rs[n] = NoRound /\ DiskOK(store[n], sd[n], saved[n], Sent(n, msgs))
    BY <1>2, Zenon DEF IInv
  <2>2. NoRound.vote_sent = {} /\ NoRound.local_timers \in 0 .. 2
    BY DEF NoRound
  <2> QED
    BY <2>1, <2>2, StoppedRound, NoRoundType, Zenon
<1> QED
  BY <1>1, <1>2, Zenon

\* A set that is empty or a singleton has at most one element.
LEMMA AtMostOne ==
  ASSUME NEW S, S = {} \/ \E x \in S : S = {x}
  PROVE  Cardinality(S) <= 1
<1>1. CASE S = {}
  BY <1>1, FS_EmptySet
<1>2. ASSUME NEW x \in S, S = {x} PROVE Cardinality(S) <= 1
  BY <1>2, FS_Singleton
<1> QED
  BY <1>1, <1>2, Zenon

\* The state keeps its types; a node has one vote of its own, one candidate
\* and one saved vote at most, and PendingVotes holds a timeout signature of a
\* validator only with its vote (RoundState, PendingVotes::insert_vote,
\* receive_proposal_candidate, save_vote).
THEOREM RoundTypes == Spec => []TypeOK
<1>1. IInv => TypeOK
  <2> SUFFICES ASSUME IInv PROVE TypeOK
    BY Zenon
  <2>1. ASSUME NEW n \in Node
        PROVE  /\ rs[n].round \in 0 .. MaxRound
               /\ rs[n].votes \subseteq AnyVote
               /\ rs[n].partial_tc \subseteq {v.author : v \in rs[n].votes}
               /\ rs[n].vote_sent \subseteq AnyVote
               /\ Cardinality(rs[n].vote_sent) <= 1
               /\ rs[n].candidate \subseteq Blocks
               /\ Cardinality(rs[n].candidate) <= 1
               /\ rs[n].local_timers \in 0 .. 2
               /\ store[n].hqc \in Blocks \cup {Genesis}
               /\ store[n].blocks \subseteq Blocks
               /\ Cardinality(saved[n]) <= 1
               /\ sd[n] \in SafetyData(Blocks)
    <3>1. /\ rs[n] \in RoundStates /\ PendingOK(rs[n]) /\ CandidateOK(rs[n])
          /\ rs[n].vote_sent = {} \/ \E v \in rs[n].vote_sent : rs[n].vote_sent = {v}
          /\ rs[n].local_timers \in 0 .. 2
          /\ DiskOK(store[n], sd[n], saved[n], Sent(n, msgs))
      BY RoundOfNode, Zenon
    <3>2. /\ rs[n].round \in 0 .. MaxRound /\ rs[n].votes \subseteq AnyVote
          /\ rs[n].vote_sent \subseteq AnyVote /\ rs[n].candidate \subseteq Blocks
      BY <3>1, Zenon DEF RoundStates
    <3>3. rs[n].partial_tc \subseteq {v.author : v \in rs[n].votes}
      BY <3>1, Zenon DEF PendingOK
    <3>4. Cardinality(rs[n].vote_sent) <= 1
      BY <3>1, AtMostOne, Zenon
    <3>5. Cardinality(rs[n].candidate) <= 1
      <4>1. rs[n].candidate = {} \/ \E b \in rs[n].candidate : rs[n].candidate = {b}
        BY <3>1, Zenon DEF CandidateOK
      <4> QED
        BY <4>1, AtMostOne, Zenon
    <3>6. Cardinality(saved[n]) <= 1
      <4>1. saved[n] = {} \/ \E b \in saved[n] : saved[n] = {b}
        BY <3>1, Zenon DEF DiskOK, SavedOK
      <4> QED
        BY <4>1, AtMostOne, Zenon
    <3>7. /\ store[n].hqc \in Blocks \cup {Genesis} /\ store[n].blocks \subseteq Blocks
          /\ sd[n] \in SafetyData(Blocks)
      BY <3>1, Zenon DEF DiskOK, Stores, Certificates
    <3> QED
      BY <3>1, <3>2, <3>3, <3>4, <3>5, <3>6, <3>7, Zenon
  <2>2. up \in [Node -> BOOLEAN] /\ crashes \in 0 .. MaxCrashes
    BY Zenon DEF IInv
  <2> QED
    BY <2>1, <2>2, Zenon DEF TypeOK
<1> QED
  BY <1>1, Invariance, PTL

\* The votes of every node keep the promise of its key: they leave the process
\* one at a time, in the order of their rounds, each under the lock of all the
\* earlier ones, over crashes inside and between the handlers
\* (construct_and_sign_vote, save_vote, record_vote).
THEOREM PromisesKept == Spec => NodesKeepPromise
<1>1. Init => \A n \in Node : Promise(n)!Init
  BY Zenon DEF Init, Promise!Init, Sent
<1>2. IInv /\ [Next]_vars => [\A n \in Node : [Promise(n)!Next]_(Promise(n)!vars)]_vars
  BY NextKeeps, Zenon DEF Kept
<1> QED
  BY <1>1, <1>2, Invariance, PTL DEF Spec, NodesKeepPromise

\* Each node implements VotingPromise, which PosConsensus assumes of an honest
\* validator.
COROLLARY NodeImplementsPromise ==
  ASSUME NEW n \in Node
  PROVE  Spec => Promise(n)!Spec
<1>1. Init => Promise(n)!Init
  BY Zenon DEF Init, Promise!Init, Sent
<1>2. IInv /\ [Next]_vars => [Promise(n)!Next]_(Promise(n)!vars)
  BY NextKeeps, Zenon DEF Kept
<1> QED
  BY <1>1, <1>2, Invariance, PTL DEF Spec, Promise!Spec

\* Whatever nodes crash and restart between or inside handlers, and whatever
\* the other validators send, a node never sends votes for two blocks of one
\* round (execute_and_vote, process_local_timeout, RoundManager::start).
THEOREM OneVotePerRound == Spec => []VoteOncePerRound
<1>1. IInv => VoteOncePerRound
  <2> SUFFICES ASSUME IInv,
                      NEW m1 \in {m \in msgs : m.type = "vote"},
                      NEW m2 \in {m \in msgs : m.type = "vote"},
                      m1.vote.author = m2.vote.author, m1.vote.author \in Node,
                      m1.vote.block.round = m2.vote.block.round
               PROVE  m1.vote.block = m2.vote.block
    BY Zenon DEF VoteOncePerRound
  <2> DEFINE n == m1.vote.author
  <2>1. m1.vote.block \in Sent(n, msgs) /\ m2.vote.block \in Sent(n, msgs)
    BY Zenon DEF Sent
  <2>2. SentOK(sd[n], saved[n], Sent(n, msgs))
    BY Zenon DEF IInv, DiskOK
  <2> QED
    BY <2>1, <2>2, Zenon DEF SentOK
<1> QED
  BY <1>1, Invariance, PTL

\* A running node is never behind a round it has voted in, and in that round
\* it holds the vote it sent: a restart finds the certificates that started
\* the round and the saved vote on disk (RoundManager::start, save_vote).
THEOREM VotesAreKnown == Spec => []KnowsItsVotes
<1>1. IInv => KnowsItsVotes
  <2> SUFFICES ASSUME IInv,
                      NEW m \in {x \in msgs : x.type = "vote"},
                      m.vote.author \in Node, up[m.vote.author]
               PROVE  \/ rs[m.vote.author].round > m.vote.block.round
                      \/ /\ rs[m.vote.author].round = m.vote.block.round
                         /\ \E v \in rs[m.vote.author].vote_sent : v.block = m.vote.block
    BY Zenon DEF KnowsItsVotes
  <2> DEFINE n == m.vote.author
  <2>1. m.vote.block \in Sent(n, msgs)
    BY Zenon DEF Sent
  <2>2. Knows(rs[n], Sent(n, msgs))
    BY Zenon DEF IInv, RunOK
  <2> QED
    BY <2>1, <2>2, Zenon DEF Knows
<1> QED
  BY <1>1, Invariance, PTL

\* "No certificate formed. This should not happen": it does not; the votes
\* held when the new-round timer runs make a certificate
\* (process_new_round_timeout).
THEOREM TimerHasCertificate == Spec => []NewRoundTimerHasCertificate
<1>1. IInv => NewRoundTimerHasCertificate
  BY RoundOfNode, Zenon DEF NewRoundTimerHasCertificate, PendingOK
<1> QED
  BY <1>1, Invariance, PTL

\* A certificate the votes make has its timer running, or the timer has fired
\* and it is a quorum certificate whose block could not be inserted
\* (process_vote, process_new_round_timeout).
THEOREM CertificatesAreUsed == Spec => []CertificateIsUsed
<1>1. IInv => CertificateIsUsed
  BY RoundOfNode, Zenon DEF CertificateIsUsed, PendingOK
<1> QED
  BY <1>1, Invariance, PTL

\* The votes of a round make one quorum certificate at most, since two quorums
\* share a validator and a validator has one vote (insert_vote).
THEOREM OneQuorum == Spec => []OneQuorumPending
<1>1. IInv => OneQuorumPending
  BY RoundOfNode, PendingOneQuorum, Zenon DEF OneQuorumPending
<1> QED
  BY <1>1, Invariance, PTL

\* A running node always has a local timer set (process_local_timeout,
\* process_certificates, RoundManager::start).
THEOREM TimerIsSet == Spec => []LocalTimerSet
<1>1. IInv => LocalTimerSet
  <2> SUFFICES ASSUME IInv, NEW n \in Node, up[n] PROVE rs[n].local_timers > 0
    BY Zenon DEF LocalTimerSet
  <2>1. rs[n].local_timers \in 1 .. 2
    BY Zenon DEF IInv, RunOK, TimersOK
  <2> QED
    BY <2>1
<1> QED
  BY <1>1, Invariance, PTL

=============================================================================
