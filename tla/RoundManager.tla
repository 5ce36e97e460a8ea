---------------------------- MODULE RoundManager ----------------------------
(***************************************************************************)
(* The rounds of an epoch as a validator runs them: RoundManager with its  *)
(* RoundState (timers, current round), PendingVotes, VRF candidate and     *)
(* proposal generator, over the voting rules of SafetyRules.               *)
(*                                                                         *)
(* Node are the validators that run this code.  Peer are the other         *)
(* validators: any message that passes verification may come from them, at *)
(* any time.  A message of a node may be lost (never received), repeated   *)
(* or reordered: msgs is the set of all messages sent.                     *)
(*                                                                         *)
(* A block is the Proposal record of SafetyRules, and its quorum           *)
(* certificate is the block: the record holds the rounds of its parent and *)
(* grandparent.  Its id is the author of the proposal, or Nil.  A timeout  *)
(* certificate is its round, 0 for none.  Which ancestors a tree holds and *)
(* what a commit does is the subject of BlockStore; here the retrieval of  *)
(* a block the node has not executed itself may fail.                      *)
(*                                                                         *)
(* A timer that fires in another round than it was set for is ignored, so  *)
(* a new round drops the timers of the old one.                            *)
(***************************************************************************)
EXTENDS SafetyRules, ValidatorVerifier, FiniteSets

CONSTANTS Node, Peer,
          Proposers,    \* validators whose VRF output is below the threshold
          Vrf,          \* VRF number of a proposer
          Nil,
          MaxRound,     \* bound: the new-round timer of this round never fires
          MaxCrashes    \* bound on the crashes of all nodes together

ASSUME NodeAssumption ==
  /\ Validators = Node \cup Peer
  /\ Node \cap Peer = {}
  /\ Proposers \subseteq Validators
  /\ Vrf \in [Proposers -> Nat]
  /\ Nil \notin Validators
  /\ MaxRound \in Nat \ {0} /\ MaxCrashes \in Nat

VARIABLES up,       \* the process runs
          rs,       \* rs[n]: RoundState, candidate and generator of n
          store,    \* store[n]: certificates and blocks, all of them on disk
          sd,       \* sd[n]: SafetyData, on disk
          saved,    \* saved[n]: the vote save_vote keeps, on disk
          msgs,     \* messages sent by nodes
          crashes   \* how often a process has crashed

vars == <<up, rs, store, sd, saved, msgs, crashes>>

-----------------------------------------------------------------------------
(* Blocks, certificates and messages                                       *)

Genesis ==
  [epoch |-> 1, round |-> 0, one_chain_round |-> 0, two_chain_round |-> 0,
   id |-> Nil]

\* The block of the given round and id on top of the certified block q.
Extends(q, round, id) ==
  [epoch |-> 1, round |-> round, one_chain_round |-> q.round,
   two_chain_round |-> q.one_chain_round, id |-> id]

Blocks ==
  {b \in [epoch : {1}, round : 1 .. MaxRound, one_chain_round : 0 .. MaxRound,
          two_chain_round : 0 .. MaxRound, id : Proposers \cup {Nil}]
     : WellFormed(b)}

\* The round that the certificate of b commits.
CommitRound(b) ==
  IF b.round = b.one_chain_round + 1
       /\ b.one_chain_round = b.two_chain_round + 1
  THEN b.two_chain_round ELSE 0

\* A SyncInfo: the quorum certificate, the commit certificate and the timeout
\* certificate with the highest round.
SyncInfo(st) ==
  [hqc |-> st.hqc, hcc |-> st.hcc,
   tc |-> IF st.htc > st.hqc.round THEN st.htc ELSE 0]

HighestRound(i) == IF i.tc > i.hqc.round THEN i.tc ELSE i.hqc.round

HasNewerCertificates(i, j) ==
  \/ i.hqc.round > j.hqc.round
  \/ i.tc > j.tc
  \/ CommitRound(i.hcc) > CommitRound(j.hcc)

\* Messages.  to is the set of nodes the message is addressed to.
VoteMsg(v, i) == [type |-> "vote", vote |-> v, sync |-> i, to |-> Node]

ProposalMsg(b, i) == [type |-> "proposal", block |-> b, sync |-> i, to |-> Node]

SyncInfoMsg(i, to) == [type |-> "sync", sync |-> i, to |-> to]

\* ProposalMsg::verify_well_formed
WellFormedProposal(b, i) ==
  /\ b.id # Nil
  /\ b = Extends(i.hqc, HighestRound(i) + 1, b.id)

(* What the peers may send.  Peers that are a quorum bring any             *)
(* certificates; a vote of theirs comes with the timeout certificate of    *)
(* the round before (with another SyncInfo it acts as the two in turn).    *)
(* In MaxRound, which no node leaves, the peers are silent.                *)
PeerSyncInfos ==
  {i \in [hqc : Blocks \cup {Genesis}, hcc : Blocks \cup {Genesis},
          tc : 0 .. MaxRound - 1] :
     /\ i.tc # 0 => i.tc > i.hqc.round
     /\ HighestRound(i) < MaxRound
     /\ i.hcc = Genesis \/ CommitRound(i.hcc) > 0
     /\ i.hcc.round <= i.hqc.round
     /\ CheckVotingPower(Peer) \/ HighestRound(i) = 0}

PeerVote(p, b, timeout) ==
  VoteMsg([author |-> p, block |-> b, timeout |-> timeout],
          [hqc |-> Genesis, hcc |-> Genesis,
           tc |-> IF CheckVotingPower(Peer) THEN b.round - 1 ELSE 0])

PeerVotes ==
  {PeerVote(p, b, t) : p \in Peer, b \in {c \in Blocks : c.round < MaxRound}, t \in BOOLEAN}

PeerProposals ==
  {m \in {ProposalMsg(b, i) : b \in Blocks, i \in PeerSyncInfos} :
     /\ m.block.id \in Peer /\ m.block.round < MaxRound
     /\ WellFormedProposal(m.block, m.sync)}

-----------------------------------------------------------------------------
(* PendingVotes and RoundState.  r is a round state rs[n].                 *)

(* votes is author_to_vote, li_votes is li_digest_to_votes.                *)

Signers(r, b) == {v.author : v \in {w \in r.li_votes : w.block = b}}

QuorumCerts(r) == {b \in {v.block : v \in r.li_votes} : CheckVotingPower(Signers(r, b))}

\* get_certificate finds a quorum or a timeout certificate.
Certificate(r) == QuorumCerts(r) # {} \/ CheckVotingPower(r.partial_tc)

Seen(r, v) == {w \in r.votes : w.author = v.author}

\* vote_received: nothing new in this vote.
VoteReceived(r, v) ==
  \E w \in Seen(r, v) : w.block = v.block /\ (v.timeout => w.timeout)

\* Mutant of Equivocates: a second vote of an author is counted as well.
NeverEquivocates(r, v) == FALSE

Equivocates(r, v) == \E w \in Seen(r, v) : w.block # v.block

SetupNewRoundTimeout(r) ==
  IF r.new_round_sent THEN r
  ELSE [r EXCEPT !.new_round_sent = TRUE, !.new_round_timer = TRUE]

\* Mutant of InsertVote: a timeout certificate sets no timer.
InsertVoteForQuorum(r, v) ==
  LET r1 == [r EXCEPT !.votes = (@ \ Seen(r, v)) \cup {v},
                      !.li_votes = @ \cup {[author |-> v.author, block |-> v.block]}]
  IN  IF CheckVotingPower(Signers(r1, v.block)) THEN SetupNewRoundTimeout(r1)
      ELSE IF v.timeout THEN [r1 EXCEPT !.partial_tc = @ \cup {v.author}] ELSE r1

\* PendingVotes::insert_vote of a vote that is neither a duplicate nor an
\* equivocation, and what process_vote does with the result.  A vote that
\* completes a quorum certificate leaves its timeout signature unused.
InsertVote(r, v) ==
  LET r1 == [r EXCEPT !.votes = (@ \ Seen(r, v)) \cup {v},
                      !.li_votes = @ \cup {[author |-> v.author, block |-> v.block]}]
      r2 == [r1 EXCEPT !.partial_tc = @ \cup {v.author}]
  IN  IF CheckVotingPower(Signers(r1, v.block)) THEN SetupNewRoundTimeout(r1)
      ELSE IF ~ v.timeout THEN r1
      ELSE IF CheckVotingPower(r2.partial_tc) THEN SetupNewRoundTimeout(r2)
      ELSE r2

NoRound ==
  [round |-> 0, new_round_sent |-> FALSE, votes |-> {}, li_votes |-> {},
   partial_tc |-> {}, vote_sent |-> {}, local_timers |-> 0, new_round_timer |-> FALSE,
   proposal_timer |-> FALSE, candidate |-> {}, last_round_generated |-> 0]

\* Mutant of NewRound: the timeout signatures of the old round are kept.
NewRoundWithOldTimeouts(r, round) ==
  [NoRound EXCEPT !.round = round, !.local_timers = 1, !.proposal_timer = TRUE,
                  !.last_round_generated = r.last_round_generated,
                  !.partial_tc = r.partial_tc]

\* Mutant of NewRound: a new-round timer of the old round counts in the new one.
NewRoundWithOldTimer(r, round) ==
  [NoRound EXCEPT !.round = round, !.local_timers = 1, !.proposal_timer = TRUE,
                  !.last_round_generated = r.last_round_generated,
                  !.new_round_timer = r.new_round_timer]

\* RoundState::process_certificates starting the given round, with
\* VrfProposer::next_round and setup_proposal_timeout.  Only the generator
\* remembers anything of the old round.
NewRound(r, round) ==
  [NoRound EXCEPT !.round = round, !.local_timers = 1, !.proposal_timer = TRUE,
                  !.last_round_generated = r.last_round_generated]

RecordVote(r, vote) ==
  IF vote.block.round = r.round THEN [r EXCEPT !.vote_sent = {vote}] ELSE r

-----------------------------------------------------------------------------
(***************************************************************************)
(* Handlers.  A handler of node n works on a record w: the state of n, the *)
(* messages it sends (out), the vote it has obtained (vote), and ok, which *)
(* an error clears.  A call that may end in several ways is the set of its *)
(* outcomes; Then is the ? operator: what follows runs if the call was ok. *)
(***************************************************************************)
Work(n) ==
  [rs |-> rs[n], store |-> store[n], sd |-> sd[n], saved |-> saved[n],
   vote |-> {}, out |-> {}, ok |-> TRUE]

Fail(w) == [w EXCEPT !.ok = FALSE]

Then(outcomes, F(_)) ==
  UNION {IF w.ok THEN F(w) ELSE {w} : w \in outcomes}

If(condition, w) == IF condition THEN {w} ELSE {}

Send(w, m) == IF m.to = {} THEN w ELSE [w EXCEPT !.out = @ \cup {m}]

\* A message is passed on to all but its author and the node itself.
Relay(n, w, m, author) == Send(w, [m EXCEPT !.to = Node \ {n, author}])

\* ProposalGenerator::generate_proposal and SafetyRules::sign_proposal.  The
\* transactions of the proposal may be unavailable.
GenerateProposal(n, w) ==
  LET round == w.rs.round
      b == Extends(w.store.hqc, round, n)
      w1 == [w EXCEPT !.rs.last_round_generated = round]
  IN  IF w.rs.last_round_generated >= round THEN {Fail(w)}
      ELSE {Fail(w1)} \cup
           If(MayPropose(b, w.sd),
              Send([w1 EXCEPT !.sd = AfterPropose(b, @)],
                   ProposalMsg(b, SyncInfo(w.store))))

\* Bound: no proposals in MaxRound.
ProcessNewRoundEvent(n, w) ==
  IF n \in Proposers /\ w.rs.round < MaxRound THEN GenerateProposal(n, w) ELSE {w}

\* The blocks of lower rounds are forgotten here, although a tree keeps them
\* until a commit: whether they can be retrieved is left open.
StartRound(w, round) ==
  [w EXCEPT !.rs = NewRound(@, round),
            !.store.blocks = {b \in @ : b.round >= round}]

ProcessCertificates(n, w) ==
  LET round == HighestRound(SyncInfo(w.store)) + 1
  IN  IF round > w.rs.round THEN ProcessNewRoundEvent(n, StartRound(w, round))
      ELSE {w}

\* BlockTree::insert_quorum_cert
WithQuorumCert(w, q) ==
  [w EXCEPT !.store.hqc = IF q.round > @.round THEN q ELSE @,
            !.store.hcc = IF CommitRound(q) > CommitRound(@) THEN q ELSE @]

\* BlockStore::insert_quorum_cert: the retrieval of a block fails before the
\* certificate is inserted, the commit of an ancestor after it.
InsertQuorumCert(w, q) ==
  LET known == w.store.blocks \cup {Genesis, w.store.hqc, w.store.hcc}
  IN  {WithQuorumCert(w, q)}
        \cup If(q \notin known, Fail(w))
        \cup If(CommitRound(q) > CommitRound(w.store.hcc),
                Fail(WithQuorumCert(w, q)))

InsertTimeoutCertificate(w, tc) ==
  [w EXCEPT !.store.htc = IF tc > @ THEN tc ELSE @]

\* Mutant of SyncUp: the new certificates do not start a round.
SyncUpCertificates(n, w, i, helped) ==
  IF HasNewerCertificates(i, SyncInfo(w.store))
  THEN Then(InsertQuorumCert(w, i.hcc), LAMBDA w2 :
       Then(InsertQuorumCert(w2, i.hqc), LAMBDA w3 :
       {InsertTimeoutCertificate(w3, i.tc)}))
  ELSE {w}

SyncUp(n, w, i, helped) ==
  LET local == SyncInfo(w.store)
      w1 == IF helped # {} /\ HasNewerCertificates(local, i)
            THEN Send(w, SyncInfoMsg(local, helped)) ELSE w
  IN  IF HasNewerCertificates(i, local)
      THEN Then(InsertQuorumCert(w1, i.hcc), LAMBDA w2 :
           Then(InsertQuorumCert(w2, i.hqc), LAMBDA w3 :
           ProcessCertificates(n, InsertTimeoutCertificate(w3, i.tc))))
      ELSE {w1}

EnsureRoundAndSyncUp(n, round, i, helped) ==
  Then(SyncUp(n, Work(n), i, helped), LAMBDA w :
       {IF round = w.rs.round THEN w ELSE Fail(w)})

\* SafetyRules::construct_and_sign_vote: sd is on disk when it returns.
SignVote(w, b) ==
  IF RepeatsLastVote(b, w.sd) THEN [w EXCEPT !.vote = w.sd.last_vote]
  ELSE IF MayVote(b, w.sd) THEN [w EXCEPT !.vote = {b}, !.sd = AfterVote(b, @)]
  ELSE Fail(w)

\* Mutant of SaveVote: the vote is not saved.
SaveNothing(w) == w

SaveVote(w) == [w EXCEPT !.saved = w.vote]

\* The vote is the one SafetyRules returns, which need not be for b.
ExecuteAndVote(w, b) ==
  LET w1 == [w EXCEPT !.store.blocks = @ \cup {b}]
  IN  IF w.rs.vote_sent # {} THEN {Fail(w1)}
      ELSE Then({SignVote(w1, b)}, LAMBDA w2 : {SaveVote(w2)})

\* record_vote and the broadcast of the vote
ReleaseVote(n, w, b, timeout) ==
  LET vote == [author |-> n, block |-> b, timeout |-> timeout]
  IN  Send([w EXCEPT !.rs = RecordVote(@, vote)], VoteMsg(vote, SyncInfo(w.store)))

\* Mutant of TimeoutVote: a timeout carries a nil block, voted or not.
TimeoutVoteNil(w) ==
  {[w EXCEPT !.vote = {Extends(w.store.hqc, w.rs.round, Nil)}]}

\* The node's vote of this round, or a new vote for a nil block.
TimeoutVote(w) ==
  IF w.rs.vote_sent # {} THEN {[w EXCEPT !.vote = {v.block : v \in w.rs.vote_sent}]}
  ELSE IF w.store.hqc.round >= w.rs.round THEN {Fail(w)}
  ELSE ExecuteAndVote(w, Extends(w.store.hqc, w.rs.round, Nil))

SignTimeout(n, w) ==
  LET round == w.rs.round
      signed == \E v \in w.rs.vote_sent : v.timeout
      w1 == IF signed THEN w ELSE [w EXCEPT !.sd = AfterTimeout(round, @)]
  IN  IF ~ signed /\ ~ MayTimeout(1, round, w.sd) THEN {Fail(w)}
      ELSE {ReleaseVote(n, w1, b, TRUE) : b \in w.vote}

\* Mutant of ProcessLocalTimeout: the timer is set again after the early return.
ProcessLocalTimeoutLate(n, w) ==
  LET w1 == Send(w, SyncInfoMsg(SyncInfo(w.store), Node \ {n}))
  IN  IF Certificate(w.rs) THEN {w1}
      ELSE Then(TimeoutVote([w1 EXCEPT !.rs.local_timers = @ + 1]),
                LAMBDA w2 : SignTimeout(n, w2))

\* The local timer is set again first.  The SyncInfo is of no use to n itself.
ProcessLocalTimeout(n, w) ==
  LET w1 == Send([w EXCEPT !.rs.local_timers = @ + 1],
                 SyncInfoMsg(SyncInfo(w.store), Node \ {n}))
  IN  IF Certificate(w.rs) THEN {w1}
      ELSE Then(TimeoutVote(w1), LAMBDA w2 : SignTimeout(n, w2))

Finish(n, w) ==
  /\ rs' = [rs EXCEPT ![n] = w.rs]
  /\ store' = [store EXCEPT ![n] = w.store]
  /\ sd' = [sd EXCEPT ![n] = w.sd]
  /\ saved' = [saved EXCEPT ![n] = w.saved]
  /\ msgs' = msgs \cup w.out

-----------------------------------------------------------------------------
(* Actions                                                                 *)

Init ==
  /\ up = [n \in Node |-> FALSE]
  /\ rs = [n \in Node |-> NoRound]
  /\ store = [n \in Node |-> [hqc |-> Genesis, hcc |-> Genesis, htc |-> 0, blocks |-> {}]]
  /\ sd = [n \in Node |-> NewSafetyData(1)]
  /\ saved = [n \in Node |-> {}]
  /\ msgs = {}
  /\ crashes = 0

LastVote(n) ==
  [author |-> n, block |-> CHOOSE b \in saved[n] : TRUE, timeout |-> FALSE]

\* start_round_manager and RoundManager::start; an error of the new-round
\* event is only logged.
Restart(n) ==
  LET w1 == StartRound([Work(n) EXCEPT !.rs = NoRound],
                       HighestRound(SyncInfo(store[n])) + 1)
      w2 == IF saved[n] = {} THEN w1
            ELSE [w1 EXCEPT !.rs = RecordVote(@, LastVote(n))]
  IN  /\ ~ up[n]
      /\ up' = [up EXCEPT ![n] = TRUE]
      /\ \E w \in ProcessNewRoundEvent(n, w2) : Finish(n, w)
      /\ UNCHANGED crashes

Crash(n) ==
  /\ up[n]
  /\ crashes < MaxCrashes
  /\ up' = [up EXCEPT ![n] = FALSE]
  /\ rs' = [rs EXCEPT ![n] = NoRound]
  /\ crashes' = crashes + 1
  /\ UNCHANGED <<store, sd, saved, msgs>>

\* A crash inside execute_and_vote, once SafetyRules has persisted the vote:
\* before or after save_vote, and before the vote is sent.
CrashInVote(n) ==
  LET nil == Extends(store[n].hqc, rs[n].round, Nil)
      chosen == IF rs[n].proposal_timer THEN rs[n].candidate ELSE {}
      timed_out == If(~ Certificate(rs[n]) /\ store[n].hqc.round < rs[n].round, nil)
  IN  /\ up[n]
      /\ crashes < MaxCrashes
      /\ rs[n].vote_sent = {}
      /\ \E b \in chosen \cup timed_out :
           LET w == SignVote([Work(n) EXCEPT !.store.blocks = @ \cup {b}], b)
           IN  /\ w.ok
               /\ \E w1 \in {w, SaveVote(w)} : Finish(n, [w1 EXCEPT !.rs = NoRound])
      /\ up' = [up EXCEPT ![n] = FALSE]
      /\ crashes' = crashes + 1

LocalTimeout(n) ==
  /\ up[n]
  /\ rs[n].local_timers > 0
  /\ \E w \in ProcessLocalTimeout(n, [Work(n) EXCEPT !.rs.local_timers = @ - 1]) :
       Finish(n, w)
  /\ UNCHANGED <<up, crashes>>

\* Votes for the candidate; without one the round is timed out early, which
\* sets a local timer although one is running.
ProposalTimeout(n) ==
  LET w1 == [Work(n) EXCEPT !.rs.proposal_timer = FALSE]
  IN  /\ up[n]
      /\ rs[n].proposal_timer
      /\ \E w \in IF rs[n].candidate = {} THEN ProcessLocalTimeout(n, w1)
                  ELSE Then(ExecuteAndVote(w1, CHOOSE b \in rs[n].candidate : TRUE),
                            LAMBDA w2 : {ReleaseVote(n, w2, b, FALSE) : b \in w2.vote}) :
           Finish(n, w)
      /\ UNCHANGED <<up, crashes>>

\* The timer is not set again, whether or not the certificate is inserted.
NewRoundTimeout(n) ==
  LET w1 == [Work(n) EXCEPT !.rs.new_round_timer = FALSE]
      inserted == IF QuorumCerts(rs[n]) # {}
                  THEN UNION {InsertQuorumCert(w1, q) : q \in QuorumCerts(rs[n])}
                  ELSE If(CheckVotingPower(rs[n].partial_tc),
                          InsertTimeoutCertificate(w1, rs[n].round))
  IN  /\ up[n]
      /\ rs[n].new_round_timer
      /\ rs[n].round < MaxRound
      /\ \E w \in UNION {ProcessCertificates(n, x) : x \in inserted} : Finish(n, w)
      /\ UNCHANGED <<up, crashes>>

Received(n, type) == {m \in msgs : m.type = type /\ n \in m.to}

ReceiveVote(n, m) ==
  LET v == m.vote
      process(w) ==
        IF VoteReceived(w.rs, v) \/ Equivocates(w.rs, v) THEN {w}
        ELSE {Relay(n, [w EXCEPT !.rs = InsertVote(@, v)], m, v.author)}
  IN  /\ up[n]
      /\ ~ VoteReceived(rs[n], v)
      /\ v.block.round >= rs[n].round
      /\ \E w \in Then(EnsureRoundAndSyncUp(n, v.block.round, m.sync, {v.author} \cap Node),
                       process) :
           Finish(n, w)
      /\ UNCHANGED <<up, crashes>>

\* receive_proposal_candidate: the VRF number is below the candidate's.
BetterCandidate(r, b) == \A c \in r.candidate : Vrf[c.id] > Vrf[b.id]

\* A proposal is refused if its timestamp is past the deadline of the round or
\* if it cannot be executed, its parent not being in the tree.
ReceiveProposal(n, m) ==
  LET b == m.block
      process(w) ==
        IF ~ BetterCandidate(w.rs, b) THEN {w}
        ELSE {Relay(n, [w EXCEPT !.rs.candidate = {b}, !.store.blocks = @ \cup {b}], m, b.id),
              Fail(w)}
  IN  /\ up[n]
      /\ \/ b.round > rs[n].round
         \/ b.round = rs[n].round /\ BetterCandidate(rs[n], b)
      /\ b.id \in Proposers
      /\ \E w \in Then(EnsureRoundAndSyncUp(n, b.round, m.sync, {b.id} \cap Node), process) :
           Finish(n, w)
      /\ UNCHANGED <<up, crashes>>

ReceiveSyncInfo(n, m) ==
  /\ up[n]
  /\ HighestRound(m.sync) + 1 >= rs[n].round
  /\ \E w \in EnsureRoundAndSyncUp(n, HighestRound(m.sync) + 1, m.sync, {}) : Finish(n, w)
  /\ UNCHANGED <<up, crashes>>

Next ==
  \E n \in Node :
    \/ Restart(n)
    \/ Crash(n)
    \/ CrashInVote(n)
    \/ LocalTimeout(n)
    \/ ProposalTimeout(n)
    \/ NewRoundTimeout(n)
    \/ \E m \in Received(n, "vote") \cup PeerVotes : ReceiveVote(n, m)
    \/ \E m \in Received(n, "proposal") \cup PeerProposals : ReceiveProposal(n, m)
    \/ \E m \in Received(n, "sync") : ReceiveSyncInfo(n, m)
    \/ \E i \in PeerSyncInfos : ReceiveSyncInfo(n, SyncInfoMsg(i, Node))

Spec == Init /\ [][Next]_vars

(***************************************************************************)
(* Fairness.  A process that exits is started again, a timer that was set  *)
(* fires, and a message that is sent again and again, as a local timeout   *)
(* sends the SyncInfo and the timeout vote of a node, is received in the   *)
(* end.  Nothing is assumed of messages sent once: proposals, first votes, *)
(* relayed messages, answers to a peer that is behind.                     *)
(***************************************************************************)
RepeatedVotes(k) ==
  {VoteMsg(v, SyncInfo(store[k])) :
     v \in {x \in rs[k].vote_sent : x.timeout /\ ~ Certificate(rs[k])}}

ReceiveRepeatedVote(n, k) ==
  /\ up[k]
  /\ \E m \in Received(n, "vote") \cap RepeatedVotes(k) : ReceiveVote(n, m)

ReceiveRepeatedSyncInfo(n, k) ==
  /\ up[k]
  /\ \E m \in Received(n, "sync") \cap {SyncInfoMsg(SyncInfo(store[k]), Node \ {k})} :
       ReceiveSyncInfo(n, m)

Fairness ==
  \A n \in Node :
    /\ WF_vars(Restart(n))
    /\ WF_vars(LocalTimeout(n))
    /\ WF_vars(ProposalTimeout(n))
    /\ WF_vars(NewRoundTimeout(n))
    /\ \A k \in Node :
         /\ WF_vars(ReceiveRepeatedVote(n, k))
         /\ WF_vars(ReceiveRepeatedSyncInfo(n, k))

FairSpec == Spec /\ Fairness

-----------------------------------------------------------------------------
(* Properties                                                              *)

AnyVote == [author : Validators, block : Blocks, timeout : BOOLEAN]

\* The types of the state, at most one vote of its own and one candidate per
\* round, and no timeout signature in a round without a vote of its signer in
\* that round (RoundState, PendingVotes::insert_vote).
TypeOK ==
  /\ up \in [Node -> BOOLEAN]
  /\ crashes \in 0 .. MaxCrashes
  /\ \A n \in Node :
       /\ rs[n].round \in 0 .. MaxRound
       /\ rs[n].votes \subseteq AnyVote
       /\ rs[n].partial_tc \subseteq {v.author : v \in rs[n].votes}
       /\ rs[n].vote_sent \subseteq AnyVote
       /\ Cardinality(rs[n].vote_sent) <= 1
       /\ rs[n].candidate \subseteq Blocks
       /\ Cardinality(rs[n].candidate) <= 1
       /\ rs[n].local_timers \in 0 .. 2
       /\ store[n].hqc \in Blocks \cup {Genesis}
       /\ store[n].blocks \subseteq Blocks
       /\ Cardinality(saved[n]) <= 1
       /\ sd[n] \in SafetyData(Blocks)

\* The blocks n has voted for in the messages M, relayed votes included.
Sent(n, M) == {m.vote.block : m \in {x \in M : x.type = "vote" /\ x.vote.author = n}}

\* The promise of n's key, with the votes it has sent for the votes released.
Promise(n) == INSTANCE VotingPromise WITH votes <- Sent(n, msgs), Proposals <- Blocks

\* The votes a node sends are those VotingPromise lets its key release, one at
\* a time: whatever its handlers, its timers and its restarts do with a vote
\* (execute_and_vote, process_local_timeout, RoundManager::start), none is sent
\* for a round at or below that of an earlier vote for another block, and none
\* against the lock of an earlier vote.
NodesKeepPromise ==
  /\ \A n \in Node : Promise(n)!Init
  /\ [][\A n \in Node : [Promise(n)!Next]_(Promise(n)!vars)]_vars

\* All the votes a validator ever sends in a round, first ones, repeated ones
\* and the votes of its timeouts, are for one block, whatever it restarts in
\* between (execute_and_vote, process_local_timeout, RoundManager::start).
VoteOncePerRound ==
  \A m1, m2 \in {m \in msgs : m.type = "vote"} :
    /\ m1.vote.author = m2.vote.author
    /\ m1.vote.author \in Node
    /\ m1.vote.block.round = m2.vote.block.round
    => m1.vote.block = m2.vote.block

\* "No certificate formed. This should not happen": whenever the new-round
\* timer fires in its round, the votes collected hold a certificate
\* (process_new_round_timeout).
NewRoundTimerHasCertificate ==
  \A n \in Node : rs[n].new_round_timer => Certificate(rs[n])

\* A certificate that was formed is used: its timer is running, or it fired
\* and the block of a quorum certificate could not be inserted.  A timeout
\* certificate is never left behind (process_vote, process_new_round_timeout).
CertificateIsUsed ==
  \A n \in Node :
    Certificate(rs[n]) /\ ~ rs[n].new_round_timer => QuorumCerts(rs[n]) # {}

\* The votes of a round never hold two quorum certificates, although peers
\* may vote for several blocks: get_certificate, which takes the first one a
\* hash map yields, has no choice (insert_vote keeps one vote per author).
OneQuorumPending ==
  \A n \in Node : \A b, c \in QuorumCerts(rs[n]) : b = c

\* A validator never sits in a round without a local timer, so that it goes
\* on sending its SyncInfo and its timeout vote (process_local_timeout).
LocalTimerSet ==
  \A n \in Node : up[n] => rs[n].local_timers > 0

\* A running validator is never in a round below one it has voted in, and in
\* that round it knows the vote it sent: the certificates that started the
\* round and the vote itself are on disk before the vote leaves
\* (RoundManager::start, save_vote).
KnowsItsVotes ==
  \A m \in {x \in msgs : x.type = "vote"} :
    LET n == m.vote.author
    IN  n \in Node /\ up[n] =>
          \/ rs[n].round > m.vote.block.round
          \/ /\ rs[n].round = m.vote.block.round
             /\ \E v \in rs[n].vote_sent : v.block = m.vote.block

\* The rounds go on: whatever messages are lost and processes crash, all
\* nodes come to the last round and stay there.
RoundsAdvance ==
  \A n \in Node : <>[](up[n] /\ rs[n].round = MaxRound)

\* "A round r starts in the following cases: there is a QuorumCert for round
\* r-1, there is a TimeoutCertificate for round r-1": a node that has formed a
\* certificate of its round enters the next round, unless it crashes.
CertificateStartsRound ==
  \A n \in Node, r \in 1 .. MaxRound - 1 :
    (rs[n].round = r /\ Certificate(rs[n])) ~> (rs[n].round # r)

=============================================================================
