----------------------- MODULE ValidatorSafetyProofs -----------------------
(***************************************************************************)
(* Proofs about ValidatorSafety, for any number of hosts, epochs, rounds   *)
(* and requests: KeyInvariant is inductive, and with it every step of the  *)
(* hosts is a step of VotingPromise or leaves the released votes alone.    *)
(***************************************************************************)
EXTENDS ValidatorSafety, TLAPS

USE DEF Proposal, SafetyData

-----------------------------------------------------------------------------
(* What each rule does to a record that remembers the votes V and the      *)
(* timeouts T.                                                             *)

\* A record of a later epoch remembers whatever an earlier one did.
LEMMA NewRemembers ==
  ASSUME NEW sd \in SafetyData(Proposals), NEW V, NEW T, NEW epoch \in Nat,
         V \subseteq Proposals, T \subseteq [epoch : Nat, round : Nat],
         RemembersVotes(sd, V), RemembersTimeouts(sd, T), sd.epoch < epoch
  PROVE  /\ NewSafetyData(epoch) \in SafetyData(Proposals)
         /\ RemembersVotes(NewSafetyData(epoch), V)
         /\ RemembersTimeouts(NewSafetyData(epoch), T)
BY ProposalsAssumption
   DEF RemembersVotes, RemembersTimeouts, NewSafetyData

\* The record written by a vote remembers the vote as well.
LEMMA VoteRemembers ==
  ASSUME NEW sd \in SafetyData(Proposals), NEW V, NEW T, NEW p \in Proposals,
         V \subseteq Proposals, T \subseteq [epoch : Nat, round : Nat],
         RemembersVotes(sd, V), RemembersTimeouts(sd, T), MayVote(p, sd)
  PROVE  /\ AfterVote(p, sd) \in SafetyData(Proposals)
         /\ RemembersVotes(AfterVote(p, sd), V \cup {p})
         /\ RemembersTimeouts(AfterVote(p, sd), T)
<1> DEFINE new == AfterVote(p, sd)
<1>1. p \in Proposal(ProposalId)
  BY ProposalsAssumption, Zenon
<1>2. /\ new \in SafetyData(Proposals)
      /\ new.epoch = sd.epoch
      /\ new.last_voted_round = p.round
      /\ new.last_vote = {p}
      /\ new.preferred_round >= sd.preferred_round
      /\ new.preferred_round >= p.two_chain_round
  <2> DEFINE raised == UpdatePreferredRound(p, sd)
  <2>1. /\ raised \in SafetyData(Proposals)
        /\ raised.epoch = sd.epoch
        /\ raised.preferred_round >= sd.preferred_round
        /\ raised.preferred_round >= p.two_chain_round
    BY <1>1 DEF UpdatePreferredRound
  <2>2. new = [raised EXCEPT !.last_voted_round = p.round, !.last_vote = {p}]
    BY <2>1, Zenon DEF AfterVote, UpdateLastVoteRound
  <2> HIDE DEF raised, new
  <2> QED
    BY <1>1, <2>1, <2>2, Zenon
<1>3. /\ p.epoch = sd.epoch
      /\ p.one_chain_round >= sd.preferred_round
      /\ p.round > sd.last_voted_round
  BY Zenon DEF MayVote, VerifyPreferredRound, VerifyLastVoteRound
<1>4. RemembersVotes(new, V \cup {p})
  <2> HIDE DEF new
  <2>1. \A w \in new.last_vote :
          /\ w.epoch = new.epoch
          /\ w.round <= new.last_voted_round
          /\ w.two_chain_round <= new.preferred_round
    BY <1>1, <1>2, <1>3
  <2>2. ASSUME NEW v \in V, v.epoch = sd.epoch
        PROVE  /\ v.round < p.round
               /\ v.two_chain_round <= new.preferred_round
               /\ p.one_chain_round >= v.two_chain_round
    <3>1. v \in Proposal(ProposalId)
      BY ProposalsAssumption, Zenon
    <3>2. v.round <= sd.last_voted_round
          /\ v.two_chain_round <= sd.preferred_round
      BY <2>2, <3>1 DEF RemembersVotes
    <3> QED
      BY <1>1, <1>2, <1>3, <3>1, <3>2
  <2>3. ASSUME NEW v \in V, v.epoch # sd.epoch
        PROVE  v.epoch < sd.epoch
    BY <2>3, Zenon DEF RemembersVotes
  <2>4. \A v \in V \cup {p} :
          v \in Proposal(ProposalId)
    BY ProposalsAssumption, Zenon
  <2> QED
    BY <1>1, <1>2, <1>3, <2>1, <2>2, <2>3, <2>4 DEF RemembersVotes
<1>5. RemembersTimeouts(new, T)
  <2> HIDE DEF new
  <2> QED
    BY <1>1, <1>2, <1>3 DEF RemembersTimeouts
<1> QED
  BY <1>2, <1>4, <1>5, Zenon

\* Signing a proposal only raises preferred_round.
LEMMA ProposeRemembers ==
  ASSUME NEW sd \in SafetyData(Proposals), NEW V, NEW T, NEW p \in Proposals,
         V \subseteq Proposals, T \subseteq [epoch : Nat, round : Nat],
         RemembersVotes(sd, V), RemembersTimeouts(sd, T)
  PROVE  /\ AfterPropose(p, sd) \in SafetyData(Proposals)
         /\ RemembersVotes(AfterPropose(p, sd), V)
         /\ RemembersTimeouts(AfterPropose(p, sd), T)
<1> DEFINE new == AfterPropose(p, sd)
<1>1. p \in Proposal(ProposalId) /\ V \subseteq Proposal(ProposalId)
      /\ sd.last_vote \subseteq Proposal(ProposalId)
  BY ProposalsAssumption, Zenon
<1>2. /\ new \in SafetyData(Proposals)
      /\ new.epoch = sd.epoch
      /\ new.last_voted_round = sd.last_voted_round
      /\ new.last_vote = sd.last_vote
      /\ new.preferred_round >= sd.preferred_round
  BY <1>1 DEF AfterPropose, UpdatePreferredRound
<1> HIDE DEF new
<1>3. RemembersVotes(new, V)
  BY <1>1, <1>2 DEF RemembersVotes
<1> QED
  BY <1>2, <1>3, Zenon DEF new, RemembersTimeouts

\* Signing a timeout only raises last_voted_round, to the round timed out.
LEMMA TimeoutRemembers ==
  ASSUME NEW sd \in SafetyData(Proposals), NEW V, NEW T, NEW round \in Nat,
         V \subseteq Proposals, T \subseteq [epoch : Nat, round : Nat],
         RemembersVotes(sd, V), RemembersTimeouts(sd, T),
         MayTimeout(sd.epoch, round, sd)
  PROVE  /\ AfterTimeout(round, sd) \in SafetyData(Proposals)
         /\ RemembersVotes(AfterTimeout(round, sd), V)
         /\ RemembersTimeouts(AfterTimeout(round, sd),
              T \cup {[epoch |-> sd.epoch, round |-> round]})
<1> DEFINE new == AfterTimeout(round, sd)
<1>1. V \subseteq Proposal(ProposalId)
      /\ sd.last_vote \subseteq Proposal(ProposalId)
  BY ProposalsAssumption, Zenon
<1>2. /\ new \in SafetyData(Proposals)
      /\ new.epoch = sd.epoch
      /\ new.last_voted_round >= sd.last_voted_round
      /\ new.last_voted_round >= round
      /\ new.last_vote = sd.last_vote
      /\ new.preferred_round = sd.preferred_round
  BY DEF AfterTimeout, UpdateLastVoteRound, MayTimeout
<1> HIDE DEF new
<1>3. RemembersVotes(new, V)
  BY <1>1, <1>2 DEF RemembersVotes
<1>4. RemembersTimeouts(new, T \cup {[epoch |-> sd.epoch, round |-> round]})
  BY <1>2 DEF RemembersTimeouts
<1> QED
  BY <1>2, <1>3, <1>4, Zenon DEF new

\* Handing out the last vote again is already accounted for.
LEMMA RepeatRemembers ==
  ASSUME NEW sd \in SafetyData(Proposals), NEW V,
         V \subseteq Proposals, RemembersVotes(sd, V)
  PROVE  RemembersVotes(sd, V \cup sd.last_vote)
BY ProposalsAssumption, Zenon DEF RemembersVotes

-----------------------------------------------------------------------------
(* Reading and writing the files                                           *)

\* A host that can sign reads the one record on its disk, which remembers
\* everything signed so far.
LEMMA SignerReads ==
  ASSUME KeyInvariant, NEW h \in Host, CanSign(h),
         NEW sd \in StoredSafetyData(h)
  PROVE  /\ owner = h /\ running[h] /\ main[h] # {} /\ KeyFiles = main[h]
         /\ sd \in SafetyData(Proposals)
         /\ \A f \in main[h] : f.safety_data = sd
         /\ RemembersVotes(sd, votes)
         /\ RemembersTimeouts(sd, timeouts)
<1>1. owner = h /\ running[h] /\ main[h] # {}
  BY Zenon DEF CanSign, KeyInvariant, KeyCoherent, HostCoherent
<1>2. KeyFiles = main[h]
  BY <1>1, HostAssumption, Zenon DEF KeyFiles
<1>3. cache[h] \subseteq {f.safety_data : f \in main[h]}
  BY <1>1, Zenon DEF KeyInvariant, KeyCoherent, HostCoherent
<1>4. PICK f \in main[h] : sd = f.safety_data
  BY <1>3, Zenon DEF StoredSafetyData
<1>5. \A g \in main[h] : g = f
  BY Zenon DEF KeyInvariant, TypeOK
<1>6. f \in File
  BY DEF KeyInvariant, TypeOK
<1> QED
  BY <1>1, <1>2, <1>4, <1>5, <1>6, Zenon DEF KeyInvariant, DiskRemembers, File

\* What a read returns has the type of a record.
LEMMA ReadType ==
  ASSUME TypeOK, NEW h \in Host
  PROVE  /\ StoredSafetyData(h) \subseteq SafetyData(Proposals)
         /\ \A c, d \in StoredSafetyData(h) : c = d
BY DEF TypeOK, StoredSafetyData, File

\* Rewriting SAFETY_DATA keeps the file a file.
LEMMA WriteType ==
  ASSUME TypeOK, NEW h \in Host, NEW sd \in SafetyData(Proposals)
  PROVE  /\ FileWith(h, sd) \subseteq File
         /\ \A f \in FileWith(h, sd) : f.safety_data = sd
         /\ \A f, g \in FileWith(h, sd) : f = g
         /\ main[h] # {} <=> FileWith(h, sd) # {}
<1> DEFINE written(f) == [f EXCEPT !.safety_data = sd]
<1>1. \A f \in main[h] : written(f) \in File /\ written(f).safety_data = sd
  BY DEF TypeOK, File
<1>2. \A f, g \in main[h] : f = g
  BY Zenon DEF TypeOK
<1>3. FileWith(h, sd) = {written(f) : f \in main[h]}
  BY Zenon DEF FileWith
<1> HIDE DEF written
<1> QED
  BY <1>1, <1>2, <1>3

\* A write by the key's owner: the new record must remember what is signed
\* after the step.
LEMMA OwnerWrites ==
  ASSUME TypeOK, NEW h \in Host, owner = h, owner' = owner,
         NEW sd \in SafetyData(Proposals),
         main' = [main EXCEPT ![h] = FileWith(h, sd)],
         RemembersVotes(sd, votes'), RemembersTimeouts(sd, timeouts')
  PROVE  DiskRemembers'
<1>1. KeyFiles' = FileWith(h, sd)
  BY HostAssumption DEF TypeOK, KeyFiles
<1> QED
  BY <1>1, WriteType, Zenon DEF DiskRemembers

\* A step that touches no file of the key and signs nothing.
LEMMA KeyFilesKept ==
  ASSUME DiskRemembers, KeyFiles' = KeyFiles, votes' = votes,
         timeouts' = timeouts
  PROVE  DiskRemembers'
BY Zenon DEF DiskRemembers

\* The main file of a host that is not the owner is no file of the key.
LEMMA OtherHostWrites ==
  ASSUME TypeOK, NEW h \in Host, owner # h, NEW files,
         main' = [main EXCEPT ![h] = files],
         UNCHANGED <<save, operator>>
  PROVE  KeyFiles' = KeyFiles
BY HostAssumption DEF TypeOK, KeyFiles, operator

-----------------------------------------------------------------------------
(* The invariant is inductive                                              *)

\* Before the first start nothing is signed and nothing is on disk.
LEMMA InitEstablishes == Init => KeyInvariant
<1> SUFFICES ASSUME Init PROVE KeyInvariant
  BY Zenon
<1>1. TypeOK
  BY HostAssumption, Zenon DEF Init, TypeOK
<1>2. KeyCoherent
  BY HostAssumption, Zenon DEF Init, KeyCoherent, HostCoherent
<1>3. DiskRemembers
  BY HostAssumption, Zenon DEF Init, DiskRemembers, KeyFiles
<1> QED
  BY <1>1, <1>2, <1>3, Zenon DEF KeyInvariant

\* Start-up: a missing file is created only where nothing was signed yet, or
\* on a host that does not own the key.
LEMMA StartPreserves ==
  ASSUME KeyInvariant, NEW h \in Host, NEW started \in BOOLEAN,
         Start(h, started)
  PROVE  KeyInvariant'
<1> DEFINE empty == [safety_data |-> NewSafetyData(1), owner_account |-> TRUE]
<1> DEFINE found == IF main[h] # {} THEN main[h] ELSE {empty}
<1>1. empty \in File
  BY Zenon DEF File, NewSafetyData
<1>2. /\ found \subseteq File /\ found # {}
      /\ \A f, g \in found : f = g
  BY <1>1, Zenon DEF KeyInvariant, TypeOK
<1>3. /\ main' = [main EXCEPT ![h] = found]
      /\ cache' = [cache EXCEPT ![h] = {f.safety_data : f \in found}]
  BY Zenon DEF Start, KeyInvariant, TypeOK
<1> HIDE DEF found
<1>4. TypeOK'
  BY <1>2, <1>3 DEF Start, KeyInvariant, TypeOK, File, operator, signed,
       round_manager
<1>5. KeyCoherent'
  <2>1. ASSUME NEW g \in Host
        PROVE  HostCoherent(g)'
    <3>1. CASE g = h
      BY <1>2, <1>3, <3>1
         DEF Start, KeyInvariant, TypeOK, KeyCoherent, HostCoherent, operator
    <3>2. CASE g # h
      BY <1>3, <3>2 DEF Start, KeyInvariant, TypeOK, KeyCoherent, HostCoherent, operator,
           round_manager
    <3> QED
      BY <3>1, <3>2, Zenon
  <2>2. owner' = owner /\ fresh' = fresh
    BY Zenon DEF Start, operator
  <2>3. (owner # NoHost /\ main[owner] = {} => votes = {} /\ timeouts = {})'
    BY <1>2, <1>3, <2>2, Zenon DEF Start, KeyInvariant, TypeOK, KeyCoherent, signed
  <2> QED
    BY <2>1, <2>2, <2>3, Zenon DEF KeyInvariant, KeyCoherent
<1>6. DiskRemembers'
  <2>1. CASE main[h] # {} \/ owner # h
    <3>1. KeyFiles' = KeyFiles
      <4>1. CASE owner # h
        BY <1>3, <4>1, OtherHostWrites, Zenon DEF Start, KeyInvariant
      <4>2. CASE main[h] # {}
        BY <1>3, <4>2 DEF Start, KeyInvariant, TypeOK, KeyFiles, operator,
             found
      <4> QED
        BY <2>1, <4>1, <4>2, Zenon
    <3> QED
      BY <3>1, KeyFilesKept, Zenon DEF Start, KeyInvariant, signed
  <2>2. CASE main[h] = {} /\ owner = h
    <3>1. votes' = {} /\ timeouts' = {}
      BY <2>2, HostAssumption, Zenon DEF Start, KeyInvariant, KeyCoherent, signed
    <3>2. KeyFiles' = {empty}
      BY <1>3, <2>2, HostAssumption, ZenonT(30)
         DEF Start, KeyInvariant, TypeOK, KeyFiles, operator, found
    <3> QED
      BY <3>1, <3>2
         DEF DiskRemembers, RemembersVotes, RemembersTimeouts, NewSafetyData
  <2> QED
    BY <2>1, <2>2, Zenon
<1> QED
  BY <1>6, <1>4, <1>5, Zenon DEF KeyInvariant

\* A crash inside initialize_ happens before anything is signed, or on a host
\* that does not own the key.
LEMMA CrashInInitializePreserves ==
  ASSUME KeyInvariant, NEW h \in Host, CrashInInitialize(h)
  PROVE  KeyInvariant'
<1> DEFINE empty == [safety_data |-> NewSafetyData(1), owner_account |-> FALSE]
<1>1. empty \in File
  BY Zenon DEF File, NewSafetyData
<1>2. main' = [main EXCEPT ![h] = {empty}]
  BY Zenon DEF CrashInInitialize
<1>3. TypeOK'
  <2> HIDE DEF empty
  <2>1. /\ main' \in [Host -> SUBSET File]
        /\ \A g \in Host : \A e, f \in main'[g] : e = f
    BY <1>1, <1>2 DEF KeyInvariant, TypeOK
  <2> QED
    BY <2>1, Zenon DEF CrashInInitialize, KeyInvariant, TypeOK, memory, operator,
         signed, round_manager
<1>4. KeyCoherent'
  <2>1. ASSUME NEW g \in Host PROVE HostCoherent(g)'
    <3>1. CASE g = h
      BY <1>2, <3>1, Zenon DEF CrashInInitialize, KeyInvariant, TypeOK, KeyCoherent,
           HostCoherent, memory, operator, round_manager
    <3>2. CASE g # h
      BY <1>2, <3>2, Zenon DEF CrashInInitialize, KeyInvariant, TypeOK, KeyCoherent,
           HostCoherent, memory, operator, round_manager
    <3> QED
      BY <3>1, <3>2, Zenon
  <2> QED
    BY <1>2, <2>1 DEF CrashInInitialize, KeyInvariant, TypeOK, KeyCoherent,
         operator, signed
<1>5. DiskRemembers'
  <2>1. CASE owner # h
    <3>1. KeyFiles' = KeyFiles
      BY <1>2, <2>1, OtherHostWrites, Zenon DEF CrashInInitialize, KeyInvariant
    <3> QED
      BY <3>1, KeyFilesKept, Zenon DEF CrashInInitialize, KeyInvariant, signed
  <2>2. CASE owner = h
    <3>1. votes' = {} /\ timeouts' = {}
      BY <2>2, HostAssumption, Zenon
         DEF CrashInInitialize, KeyInvariant, KeyCoherent, signed
    <3>2. KeyFiles' = {empty}
      BY <1>2, <2>2, HostAssumption
         DEF CrashInInitialize, KeyInvariant, TypeOK, KeyFiles, operator
    <3> QED
      BY <3>1, <3>2
         DEF DiskRemembers, RemembersVotes, RemembersTimeouts, NewSafetyData
  <2> QED
    BY <2>1, <2>2, Zenon
<1> QED
  BY <1>3, <1>4, <1>5, Zenon DEF KeyInvariant

\* Losing the process loses only memory; what it wrote last must remember.
LEMMA DownPreserves ==
  ASSUME KeyInvariant, NEW h \in Host, Down(h), NEW files \in SUBSET File,
         main' = [main EXCEPT ![h] = files],
         \A f, g \in files : f = g, main[h] # {} => files # {},
         DiskRemembers'
  PROVE  KeyInvariant'
<1>1. TypeOK'
  BY DEF Down, KeyInvariant, TypeOK, operator, signed
<1>2. ASSUME NEW g \in Host PROVE HostCoherent(g)'
  <2>1. CASE g = h
    BY <2>1 DEF Down, KeyInvariant, TypeOK, HostCoherent
  <2>2. CASE g # h
    BY <2>2, Zenon DEF Down, KeyInvariant, TypeOK, KeyCoherent, HostCoherent, operator
  <2> QED
    BY <2>1, <2>2, Zenon
<1>3. KeyCoherent'
  BY <1>2 DEF Down, KeyInvariant, TypeOK, KeyCoherent, operator, signed
<1> QED
  BY <1>1, <1>3, Zenon DEF KeyInvariant

\* A crash drops the cache with the process and leaves the file.
LEMMA CrashPreserves ==
  ASSUME KeyInvariant, NEW h \in Host, Crash(h)
  PROVE  KeyInvariant'
<1>1. main' = [main EXCEPT ![h] = main[h]] /\ main[h] \in SUBSET File
      /\ \A f, g \in main[h] : f = g
  BY Zenon DEF Crash, KeyInvariant, TypeOK
<1>2. KeyFiles' = KeyFiles
  BY Zenon DEF Crash, Down, KeyFiles, operator
<1>3. DiskRemembers'
  BY <1>2, KeyFilesKept, Zenon DEF Crash, Down, KeyInvariant, signed
<1> QED
  BY <1>1, <1>3, DownPreserves, Zenon DEF Crash

\* A crash after the write: the written record remembers at least as much.
LEMMA CrashAfterPersistPreserves ==
  ASSUME KeyInvariant, NEW h \in Host, CrashAfterPersist(h)
  PROVE  KeyInvariant'
<1>0. PICK sd \in StoredSafetyData(h) : \E new \in Successors(sd) :
        main' = [main EXCEPT ![h] = FileWith(h, new)]
  BY Zenon DEF CrashAfterPersist
<1>1. PICK new \in Successors(sd) :
        main' = [main EXCEPT ![h] = FileWith(h, new)]
  BY <1>0, Zenon
<1>2. CanSign(h) /\ main[h] # {} /\ Down(h)
  BY Zenon DEF CrashAfterPersist
<1>3. /\ owner = h
      /\ sd \in SafetyData(Proposals)
      /\ RemembersVotes(sd, votes)
      /\ RemembersTimeouts(sd, timeouts)
  BY <1>2, SignerReads, Zenon
<1>4. votes \subseteq Proposals /\ timeouts \subseteq [epoch : Nat, round : Nat]
  BY Zenon DEF KeyInvariant, TypeOK
<1>5. /\ new \in SafetyData(Proposals)
      /\ RemembersVotes(new, votes)
      /\ RemembersTimeouts(new, timeouts)
  <2>1. CASE \E p \in Proposals : MayVote(p, sd) /\ new = AfterVote(p, sd)
    <3>1. PICK p \in Proposals : MayVote(p, sd) /\ new = AfterVote(p, sd)
      BY <2>1, Zenon
    <3>2. new \in SafetyData(Proposals) /\ RemembersVotes(new, votes \cup {p})
          /\ RemembersTimeouts(new, timeouts)
      BY <1>3, <1>4, <3>1, VoteRemembers, Zenon
    <3> QED
      BY <3>2, Zenon DEF RemembersVotes
  <2>2. CASE \E p \in Proposals : new = AfterPropose(p, sd)
    BY <1>3, <1>4, <2>2, ProposeRemembers, Zenon
  <2>3. CASE \E r \in TimeoutRounds :
               MayTimeout(sd.epoch, r, sd) /\ new = AfterTimeout(r, sd)
    <3>1. PICK r \in TimeoutRounds :
            MayTimeout(sd.epoch, r, sd) /\ new = AfterTimeout(r, sd)
      BY <2>3, Zenon
    <3>2. /\ new \in SafetyData(Proposals) /\ RemembersVotes(new, votes)
          /\ RemembersTimeouts(new,
               timeouts \cup {[epoch |-> sd.epoch, round |-> r]})
      BY <1>3, <1>4, <3>1, TimeoutRemembers, BoundsAssumption, Zenon
    <3> QED
      BY <3>2, Zenon DEF RemembersTimeouts
  <2> QED
    BY <2>1, <2>2, <2>3, Zenon DEF Successors
<1>6. votes' = votes /\ timeouts' = timeouts /\ owner' = owner
  BY <1>2, Zenon DEF Down, signed, operator
<1>7. DiskRemembers'
  BY <1>1, <1>3, <1>5, <1>6, OwnerWrites, Zenon DEF KeyInvariant
<1> QED
  BY <1>1, <1>2, <1>5, <1>7, WriteType, DownPreserves, Zenon DEF KeyInvariant

-----------------------------------------------------------------------------
(* Steps of a running process                                              *)

\* A step of a running process leaves its file where it is, and in its cache
\* nothing but what the file holds.
LeavesFile(h) ==
  \E files \in SUBSET File, copy \in SUBSET SafetyData(Proposals) :
    /\ main' = [main EXCEPT ![h] = files]
    /\ cache' = [cache EXCEPT ![h] = copy]
    /\ \A f, g \in files : f = g
    /\ \A c, d \in copy : c = d
    /\ main[h] # {} <=> files # {}
    /\ files # {} => copy \subseteq {f.safety_data : f \in files}

\* The four ways the storage serves a request all do.
LEMMA StorageLeavesFile ==
  ASSUME KeyInvariant, NEW h \in Host, running[h],
         \/ UNCHANGED <<main, cache>>
         \/ SetSafetyDataFails(h)
         \/ \E sd \in StoredSafetyData(h) : KeepInCache(h, sd)
         \/ \E sd \in SafetyData(Proposals) : SetSafetyData(h, sd)
  PROVE  LeavesFile(h)
<1> DEFINE Leaves(files, copy) ==
             /\ main' = [main EXCEPT ![h] = files]
             /\ cache' = [cache EXCEPT ![h] = copy]
             /\ \A f, g \in files : f = g
             /\ \A c, d \in copy : c = d
             /\ main[h] # {} <=> files # {}
             /\ files # {} => copy \subseteq {f.safety_data : f \in files}
<1>1. SUFFICES ASSUME TRUE
               PROVE  \E files \in SUBSET File,
                         copy \in SUBSET SafetyData(Proposals) :
                        Leaves(files, copy)
  BY Zenon DEF LeavesFile
<1>2. /\ StoredSafetyData(h) \subseteq SafetyData(Proposals)
      /\ main[h] \in SUBSET File /\ cache[h] \in SUBSET SafetyData(Proposals)
      /\ \A f, g \in main[h] : f = g
      /\ \A c, d \in cache[h] : c = d
      /\ main[h] # {} => cache[h] \subseteq {f.safety_data : f \in main[h]}
  BY ReadType, ZenonT(30) DEF KeyInvariant, TypeOK, KeyCoherent, HostCoherent
<1>3. CASE UNCHANGED <<main, cache>>
  <2>1. Leaves(main[h], cache[h])
    BY <1>2, <1>3, Zenon DEF KeyInvariant, TypeOK
  <2> HIDE DEF Leaves
  <2> QED
    BY <1>2, <2>1, Zenon
<1>4. CASE SetSafetyDataFails(h)
  <2>1. Leaves(main[h], {})
    BY <1>2, <1>4, Zenon DEF SetSafetyDataFails, KeyInvariant, TypeOK
  <2> HIDE DEF Leaves
  <2> QED
    BY <1>2, <2>1, Zenon
<1>5. ASSUME NEW sd \in StoredSafetyData(h), KeepInCache(h, sd)
      PROVE  \E files \in SUBSET File, copy \in SUBSET SafetyData(Proposals) :
               Leaves(files, copy)
  <2>1. main[h] # {} => {sd} \subseteq {f.safety_data : f \in main[h]}
    BY <1>2, Zenon DEF StoredSafetyData
  <2>2. Leaves(main[h], {sd})
    BY <1>2, <1>5, <2>1, Zenon DEF KeepInCache, KeyInvariant, TypeOK
  <2>3. {sd} \in SUBSET SafetyData(Proposals)
    BY <1>2, Zenon
  <2> HIDE DEF Leaves
  <2> QED
    BY <1>2, <2>2, <2>3, Zenon
<1>6. ASSUME NEW sd \in SafetyData(Proposals), SetSafetyData(h, sd)
      PROVE  \E files \in SUBSET File, copy \in SUBSET SafetyData(Proposals) :
               Leaves(files, copy)
  <2>1. /\ FileWith(h, sd) \in SUBSET File
        /\ \A f \in FileWith(h, sd) : f.safety_data = sd
        /\ \A f, g \in FileWith(h, sd) : f = g
        /\ main[h] # {} <=> FileWith(h, sd) # {}
    BY WriteType, Zenon DEF KeyInvariant
  <2>2. Leaves(FileWith(h, sd), {sd})
    BY <1>6, <2>1 DEF SetSafetyData
  <2>3. {sd} \in SUBSET SafetyData(Proposals)
    BY Zenon
  <2> HIDE DEF Leaves
  <2> QED
    BY <2>1, <2>2, <2>3, Zenon
<1> QED
  BY <1>3, <1>4, <1>5, <1>6, Zenon

\* It starts the voting only on the owner, and signs only there.
ProcessStep(h) ==
  /\ running[h]
  /\ LeavesFile(h)
  /\ save' = save /\ running' = running /\ owner' = owner /\ fresh' = fresh
  /\ \/ is_voting' = is_voting
     \/ owner = h /\ is_voting' = [is_voting EXCEPT ![h] = TRUE]
  /\ \/ round_epoch' = round_epoch
     \/ \E e \in Nat : round_epoch' = [round_epoch EXCEPT ![h] = e]
  /\ owner # h => votes' = votes /\ timeouts' = timeouts

\* The part of TypeOK about files and copies of them.
FilesTyped ==
  /\ main \in [Host -> SUBSET File]
  /\ save \in [Host -> SUBSET File]
  /\ cache \in [Host -> SUBSET SafetyData(Proposals)]
  /\ \A h \in Host : /\ \A f, g \in main[h] : f = g
                     /\ \A f, g \in save[h] : f = g
                     /\ \A c, d \in cache[h] : c = d

\* Such a step keeps everything coherent.
LEMMA ProcessStepCoherent ==
  ASSUME KeyInvariant, NEW h \in Host, ProcessStep(h)
  PROVE  KeyCoherent' /\ FilesTyped'
<1> USE DEF ProcessStep
<1>1. PICK files \in SUBSET File, copy \in SUBSET SafetyData(Proposals) :
        /\ main' = [main EXCEPT ![h] = files]
        /\ cache' = [cache EXCEPT ![h] = copy]
        /\ \A f, g \in files : f = g
        /\ \A c, d \in copy : c = d
        /\ main[h] # {} <=> files # {}
        /\ files # {} => copy \subseteq {f.safety_data : f \in files}
  BY Zenon DEF LeavesFile
<1>2. ASSUME NEW g \in Host PROVE HostCoherent(g)'
  <2>1. CASE g = h
    BY <1>1, <2>1 DEF KeyInvariant, TypeOK, KeyCoherent, HostCoherent, operator
  <2>2. CASE g # h
    BY <1>1, <2>2 DEF KeyInvariant, TypeOK, KeyCoherent, HostCoherent, operator
  <2> QED
    BY <2>1, <2>2, Zenon
<1>3. KeyCoherent'
  BY <1>1, <1>2, HostAssumption, ZenonT(30)
     DEF KeyInvariant, TypeOK, KeyCoherent, HostCoherent, operator
<1>4. FilesTyped'
  BY <1>1 DEF KeyInvariant, TypeOK, FilesTyped
<1> QED
  BY <1>3, <1>4, Zenon

\* A process step that signs nothing and whose write, if any, is on another
\* host than the owner or is none at all.
LEMMA QuietStepRemembers ==
  ASSUME KeyInvariant, NEW h \in Host, LeavesFile(h),
         UNCHANGED <<save, operator, votes, timeouts>>,
         owner # h \/ UNCHANGED main
  PROVE  DiskRemembers'
<1>1. CASE owner # h
  <2>1. PICK files : main' = [main EXCEPT ![h] = files]
    BY Zenon DEF LeavesFile
  <2> QED
    BY <1>1, <2>1, OtherHostWrites, KeyFilesKept, Zenon DEF KeyInvariant
<1>2. CASE UNCHANGED main
  <2>1. KeyFiles' = KeyFiles
    BY <1>2, Zenon DEF KeyFiles, operator
  <2> QED
    BY <2>1, KeyFilesKept, Zenon DEF KeyInvariant
<1> QED
  BY <1>1, <1>2, Zenon

\* guarded_initialize: the record of the new epoch is written, kept or lost
\* from the cache, and the released messages stay remembered.
LEMMA InitializePreserves ==
  ASSUME KeyInvariant, NEW h \in Host, NEW epoch \in Epochs, running[h],
         Initialize(h, epoch),
         UNCHANGED <<save, operator, votes, timeouts>>
  PROVE  LeavesFile(h) /\ signer' \in [Host -> BOOLEAN] /\ DiskRemembers'
<1>0. epoch \in Nat
  BY BoundsAssumption, Zenon
<1>1. LeavesFile(h)
  <2>1. NewSafetyData(epoch) \in SafetyData(Proposals)
    BY <1>0, Zenon DEF NewSafetyData
  <2> QED
    BY <2>1, StorageLeavesFile, Zenon DEF Initialize
<1>2. signer' \in [Host -> BOOLEAN]
  <2> DEFINE able == IF \E f \in main[h] : f.owner_account
                     THEN epoch \in ElectedEpochs ELSE signer[h]
  <2>1. signer \in [Host -> BOOLEAN]
    BY Zenon DEF KeyInvariant, TypeOK
  <2>2. able \in BOOLEAN
    <3>1. signer[h] \in BOOLEAN
      BY <2>1, Zenon
    <3>2. (epoch \in ElectedEpochs) \in BOOLEAN
      OBVIOUS
    <3> QED
      BY <3>1, <3>2, Zenon
  <2>3. signer' = signer \/ signer' = [signer EXCEPT ![h] = able]
    BY Zenon DEF Initialize
  <2> HIDE DEF able
  <2> QED
    BY <2>1, <2>2, <2>3, Zenon
<1>3. ASSUME owner = h, NEW sd \in StoredSafetyData(h), sd.epoch < epoch,
             SetSafetyData(h, NewSafetyData(epoch))
      PROVE  DiskRemembers'
  <2>1. /\ main[h] # {}
        /\ main' = [main EXCEPT ![h] = FileWith(h, NewSafetyData(epoch))]
    BY <1>3, Zenon DEF SetSafetyData
  <2>2. PICK f \in main[h] : sd = f.safety_data
    BY <2>1, Zenon DEF StoredSafetyData, KeyInvariant, KeyCoherent, HostCoherent
  <2>3. f \in KeyFiles
    BY <1>3, HostAssumption, Zenon DEF KeyFiles
  <2>4. sd \in SafetyData(Proposals) /\ RemembersVotes(sd, votes)
        /\ RemembersTimeouts(sd, timeouts)
    BY <2>2, <2>3, ReadType, Zenon DEF KeyInvariant, DiskRemembers
  <2>5. /\ NewSafetyData(epoch) \in SafetyData(Proposals)
        /\ RemembersVotes(NewSafetyData(epoch), votes)
        /\ RemembersTimeouts(NewSafetyData(epoch), timeouts)
    BY <1>0, <1>3, <2>4, NewRemembers, Zenon DEF KeyInvariant, TypeOK
  <2> QED
    BY <1>3, <2>1, <2>5, OwnerWrites, Zenon DEF KeyInvariant, operator
<1>4. DiskRemembers'
  BY <1>1, <1>3, QuietStepRemembers, Zenon
     DEF Initialize, SetSafetyDataFails, KeepInCache
<1> QED
  BY <1>1, <1>2, <1>4, Zenon

\* start_round_manager replaces the safety data only by that of a new epoch.
LEMMA StartRoundManagerPreserves ==
  ASSUME KeyInvariant, NEW h \in Host, NEW epoch \in Epochs,
         StartRoundManager(h, epoch)
  PROVE  KeyInvariant'
<1>1. epoch \in Nat
  BY BoundsAssumption, Zenon
<1>2. LeavesFile(h) /\ signer' \in [Host -> BOOLEAN] /\ DiskRemembers'
  BY InitializePreserves, Zenon DEF StartRoundManager, signed
<1>3. ProcessStep(h)
  BY <1>1, <1>2, Zenon DEF StartRoundManager, ProcessStep, signed, operator
<1>4. KeyCoherent' /\ FilesTyped'
  BY <1>3, ProcessStepCoherent, Zenon
<1>5. TypeOK'
  BY <1>1, <1>2, <1>4, Zenon
     DEF StartRoundManager, KeyInvariant, TypeOK, FilesTyped, operator, signed
<1> QED
  BY <1>2, <1>4, <1>5, Zenon DEF KeyInvariant

\* perform_initialize on a retry does no more than start_round_manager.
LEMMA RetryInitializePreserves ==
  ASSUME KeyInvariant, NEW h \in Host, NEW epoch \in Epochs,
         RetryInitialize(h, epoch)
  PROVE  KeyInvariant'
<1>1. epoch \in Nat
  BY BoundsAssumption, Zenon
<1>2. running[h]
  BY Zenon DEF RetryInitialize, KeyInvariant, KeyCoherent, HostCoherent
<1>3. LeavesFile(h) /\ signer' \in [Host -> BOOLEAN] /\ DiskRemembers'
  BY <1>2, InitializePreserves, Zenon DEF RetryInitialize, signed
<1>4. ProcessStep(h)
  BY <1>2, <1>3, Zenon DEF RetryInitialize, ProcessStep, signed, operator,
       round_manager
<1>5. KeyCoherent' /\ FilesTyped'
  BY <1>4, ProcessStepCoherent, Zenon
<1>6. TypeOK'
  BY <1>1, <1>3, <1>5, Zenon
     DEF RetryInitialize, KeyInvariant, TypeOK, FilesTyped, operator, signed,
         round_manager
<1> QED
  BY <1>3, <1>5, <1>6, Zenon DEF KeyInvariant

\* Reading fills the cache with what is on disk.
LEMMA ReadSafetyDataPreserves ==
  ASSUME KeyInvariant, NEW h \in Host, ReadSafetyData(h)
  PROVE  KeyInvariant'
<1>1. LeavesFile(h)
  BY StorageLeavesFile, Zenon DEF ReadSafetyData
<1>2. ProcessStep(h)
  BY <1>1, Zenon DEF ReadSafetyData, ProcessStep, signed, operator, round_manager
<1>3. KeyCoherent' /\ FilesTyped'
  BY <1>2, ProcessStepCoherent, Zenon
<1>4. DiskRemembers'
  BY <1>1, QuietStepRemembers, Zenon DEF ReadSafetyData, KeepInCache, signed
<1>5. TypeOK'
  BY <1>3, Zenon DEF ReadSafetyData, KeyInvariant, TypeOK, FilesTyped, operator,
       signed, round_manager
<1> QED
  BY <1>3, <1>4, <1>5, Zenon DEF KeyInvariant

-----------------------------------------------------------------------------
(* Signing                                                                 *)

\* Reading alone keeps the key's files; they must remember what is signed.
LEMMA SignerKeeps ==
  ASSUME KeyInvariant, NEW h \in Host, CanSign(h),
         NEW sd \in StoredSafetyData(h), KeepInCache(h, sd),
         UNCHANGED <<save, operator>>,
         RemembersVotes(sd, votes'), RemembersTimeouts(sd, timeouts')
  PROVE  DiskRemembers'
<1>1. KeyFiles' = KeyFiles
  BY Zenon DEF KeepInCache, KeyFiles, operator
<1>2. KeyFiles = main[h] /\ \A f \in main[h] : f.safety_data = sd
  BY SignerReads, Zenon
<1> QED
  BY <1>1, <1>2, Zenon DEF DiskRemembers

\* A write does as well, and a failed one signs nothing.
LEMMA SignerWrites ==
  ASSUME KeyInvariant, NEW h \in Host, CanSign(h),
         NEW sd \in SafetyData(Proposals), SetSafetyData(h, sd),
         UNCHANGED <<save, operator>>,
         RemembersVotes(sd, votes'), RemembersTimeouts(sd, timeouts')
  PROVE  DiskRemembers'
<1>1. owner = h
  BY Zenon DEF CanSign, KeyInvariant, KeyCoherent, HostCoherent
<1> QED
  BY <1>1, OwnerWrites, Zenon DEF SetSafetyData, KeyInvariant, operator

\* A write that fails drops the cache and keeps the file.
LEMMA SignerFails ==
  ASSUME KeyInvariant, NEW h \in Host, SetSafetyDataFails(h),
         UNCHANGED <<save, operator, votes, timeouts>>
  PROVE  DiskRemembers'
<1>1. KeyFiles' = KeyFiles
  BY Zenon DEF SetSafetyDataFails, KeyFiles, operator
<1> QED
  BY <1>1, KeyFilesKept, Zenon DEF KeyInvariant

\* construct_and_sign_vote: the file remembers the vote it hands out.
LEMMA VotePreserves ==
  ASSUME KeyInvariant, NEW h \in Host, NEW p \in Proposals,
         ConstructAndSignVote(h, p)
  PROVE  KeyInvariant'
<1>1. PICK sd \in StoredSafetyData(h) :
        \/ /\ RepeatsLastVote(p, sd)
           /\ KeepInCache(h, sd)
           /\ votes' = votes \cup sd.last_vote
        \/ /\ MayVote(p, sd)
           /\ SetSafetyData(h, AfterVote(p, sd))
           /\ votes' = votes \cup {p}
        \/ /\ MayVote(p, sd)
           /\ SetSafetyDataFails(h)
           /\ UNCHANGED votes
  BY Zenon DEF ConstructAndSignVote
<1>2. /\ CanSign(h) /\ timeouts' = timeouts
      /\ UNCHANGED <<save, operator>>
  BY Zenon DEF ConstructAndSignVote
<1>3. /\ owner = h /\ running[h] /\ sd \in SafetyData(Proposals)
      /\ RemembersVotes(sd, votes) /\ RemembersTimeouts(sd, timeouts)
      /\ votes \subseteq Proposals
      /\ timeouts \subseteq [epoch : Nat, round : Nat]
  BY <1>2, SignerReads, Zenon DEF KeyInvariant, TypeOK
<1>4. MayVote(p, sd) =>
        /\ AfterVote(p, sd) \in SafetyData(Proposals)
        /\ RemembersVotes(AfterVote(p, sd), votes \cup {p})
        /\ RemembersTimeouts(AfterVote(p, sd), timeouts)
  BY <1>3, VoteRemembers, Zenon
<1>5. LeavesFile(h)
  BY <1>1, <1>3, <1>4, StorageLeavesFile, Zenon
<1>6. DiskRemembers'
  <2>1. CASE KeepInCache(h, sd) /\ votes' = votes \cup sd.last_vote
    BY <1>2, <1>3, <2>1, RepeatRemembers, SignerKeeps, Zenon
  <2>2. CASE MayVote(p, sd) /\ SetSafetyData(h, AfterVote(p, sd))
             /\ votes' = votes \cup {p}
    BY <1>2, <1>4, <2>2, SignerWrites, Zenon
  <2>3. CASE SetSafetyDataFails(h) /\ UNCHANGED votes
    BY <1>2, <2>3, SignerFails, Zenon
  <2> QED
    BY <1>1, <2>1, <2>2, <2>3, Zenon
<1>7. ProcessStep(h)
  BY <1>3, <1>5, Zenon DEF ConstructAndSignVote, ProcessStep, operator, round_manager
<1>8. KeyCoherent' /\ FilesTyped'
  BY <1>7, ProcessStepCoherent, Zenon
<1>9. votes' \subseteq Proposals
  BY <1>1, <1>3, Zenon
<1>10. TypeOK'
  BY <1>8, <1>9, Zenon DEF ConstructAndSignVote, KeyInvariant, TypeOK, FilesTyped,
       operator, round_manager
<1> QED
  BY <1>6, <1>8, <1>10, Zenon DEF KeyInvariant

\* sign_proposal only raises preferred_round.
LEMMA ProposalPreserves ==
  ASSUME KeyInvariant, NEW h \in Host, NEW p \in Proposals, SignProposal(h, p)
  PROVE  KeyInvariant'
<1>1. PICK sd \in StoredSafetyData(h) :
        \/ SetSafetyData(h, AfterPropose(p, sd))
        \/ KeepInCache(h, sd)
        \/ SetSafetyDataFails(h)
  BY Zenon DEF SignProposal
<1>2. /\ CanSign(h) /\ votes' = votes /\ timeouts' = timeouts
      /\ UNCHANGED <<save, operator>>
  BY Zenon DEF SignProposal
<1>3. /\ owner = h /\ running[h] /\ sd \in SafetyData(Proposals)
      /\ RemembersVotes(sd, votes) /\ RemembersTimeouts(sd, timeouts)
      /\ votes \subseteq Proposals
      /\ timeouts \subseteq [epoch : Nat, round : Nat]
  BY <1>2, SignerReads, Zenon DEF KeyInvariant, TypeOK
<1>4. /\ AfterPropose(p, sd) \in SafetyData(Proposals)
      /\ RemembersVotes(AfterPropose(p, sd), votes)
      /\ RemembersTimeouts(AfterPropose(p, sd), timeouts)
  BY <1>3, ProposeRemembers, Zenon
<1>5. LeavesFile(h)
  BY <1>1, <1>3, <1>4, StorageLeavesFile, Zenon
<1>6. DiskRemembers'
  BY <1>1, <1>2, <1>3, <1>4, SignerKeeps, SignerWrites, SignerFails, Zenon
<1>7. ProcessStep(h)
  BY <1>3, <1>5, Zenon DEF SignProposal, ProcessStep, operator
<1>8. KeyCoherent' /\ FilesTyped'
  BY <1>7, ProcessStepCoherent, Zenon
<1>9. p.round \in Nat
  BY ProposalsAssumption, Zenon
<1>10. TypeOK'
  BY <1>8, <1>9, Zenon DEF SignProposal, KeyInvariant, TypeOK, FilesTyped, operator
<1> QED
  BY <1>6, <1>8, <1>10, Zenon DEF KeyInvariant

\* sign_timeout: the file bounds the timeout it hands out.
LEMMA TimeoutPreserves ==
  ASSUME KeyInvariant, NEW h \in Host, NEW round \in TimeoutRounds,
         SignTimeout(h, round)
  PROVE  KeyInvariant'
<1> DEFINE t == [epoch |-> round_epoch[h], round |-> round]
<1>1. PICK sd \in StoredSafetyData(h) :
        /\ MayTimeout(round_epoch[h], round, sd)
        /\ \/ /\ \/ SetSafetyData(h, AfterTimeout(round, sd))
                 \/ AfterTimeout(round, sd) = sd /\ KeepInCache(h, sd)
              /\ timeouts' = timeouts \cup {t}
           \/ SetSafetyDataFails(h) /\ UNCHANGED timeouts
  BY Zenon DEF SignTimeout
<1>2. /\ CanSign(h) /\ votes' = votes /\ UNCHANGED <<save, operator>>
  BY Zenon DEF SignTimeout
<1>3. /\ owner = h /\ running[h] /\ sd \in SafetyData(Proposals)
      /\ RemembersVotes(sd, votes) /\ RemembersTimeouts(sd, timeouts)
      /\ votes \subseteq Proposals
      /\ timeouts \subseteq [epoch : Nat, round : Nat]
  BY <1>2, SignerReads, Zenon DEF KeyInvariant, TypeOK
<1>4. round \in Nat /\ sd.epoch = round_epoch[h]
  BY <1>1, BoundsAssumption, Zenon DEF MayTimeout
<1>5. /\ AfterTimeout(round, sd) \in SafetyData(Proposals)
      /\ RemembersVotes(AfterTimeout(round, sd), votes)
      /\ RemembersTimeouts(AfterTimeout(round, sd), timeouts \cup {t})
  BY <1>1, <1>3, <1>4, TimeoutRemembers, Zenon
<1>6. t \in [epoch : Nat, round : Nat]
  BY <1>3, <1>4, Zenon
<1> HIDE DEF t
<1>7. LeavesFile(h)
  BY <1>1, <1>3, <1>5, StorageLeavesFile, Zenon
<1>8. DiskRemembers'
  <2>1. CASE SetSafetyData(h, AfterTimeout(round, sd))
             /\ timeouts' = timeouts \cup {t}
    BY <1>2, <1>5, <2>1, SignerWrites, Zenon
  <2>2. CASE AfterTimeout(round, sd) = sd /\ KeepInCache(h, sd)
             /\ timeouts' = timeouts \cup {t}
    BY <1>2, <1>5, <2>2, SignerKeeps, Zenon
  <2>3. CASE SetSafetyDataFails(h) /\ UNCHANGED timeouts
    BY <1>2, <2>3, SignerFails, Zenon
  <2> QED
    BY <1>1, <2>1, <2>2, <2>3, Zenon
<1>9. ProcessStep(h)
  BY <1>3, <1>7, Zenon DEF SignTimeout, ProcessStep, operator, round_manager
<1>10. KeyCoherent' /\ FilesTyped'
  BY <1>9, ProcessStepCoherent, Zenon
<1>11. timeouts' \subseteq [epoch : Nat, round : Nat]
  BY <1>1, <1>3, <1>6, Zenon
<1>12. TypeOK'
  BY <1>10, <1>11, Zenon DEF SignTimeout, KeyInvariant, TypeOK, FilesTyped, operator,
       round_manager
<1> QED
  BY <1>8, <1>10, <1>12, Zenon DEF KeyInvariant

-----------------------------------------------------------------------------
(* Hand-over                                                               *)

\* A step that signs nothing and after which the key's files are some of the
\* ones before it.
LEMMA KeyFilesShrink ==
  ASSUME DiskRemembers, KeyFiles' \subseteq KeyFiles, votes' = votes,
         timeouts' = timeouts
  PROVE  DiskRemembers'
BY Zenon DEF DiskRemembers

\* stop_voting moves the history into the saved file.
LEMMA StopVotingPreserves ==
  ASSUME KeyInvariant, NEW h \in Host, StopVoting(h)
  PROVE  KeyInvariant'
<1>1. FilesTyped'
  BY DEF StopVoting, KeyInvariant, TypeOK, FilesTyped
<1>2. TypeOK'
  BY <1>1, ZenonT(30) DEF StopVoting, KeyInvariant, TypeOK, FilesTyped, signed,
       round_manager
<1>3. ASSUME NEW g \in Host PROVE HostCoherent(g)'
  <2>1. CASE g = h
    BY <2>1, HostAssumption
       DEF StopVoting, KeyInvariant, TypeOK, KeyCoherent, HostCoherent,
           round_manager
  <2>2. CASE g # h
    BY <2>2, HostAssumption
       DEF StopVoting, KeyInvariant, TypeOK, KeyCoherent, HostCoherent,
           round_manager
  <2> QED
    BY <2>1, <2>2, Zenon
<1>4. KeyCoherent'
  BY <1>3, Zenon DEF StopVoting, KeyCoherent
<1>5. KeyFiles = main[h]
  BY HostAssumption, Zenon DEF StopVoting, KeyFiles
<1>6. KeyFiles' = main[h]
  BY DEF StopVoting, KeyInvariant, TypeOK, KeyFiles
<1>7. DiskRemembers'
  BY <1>5, <1>6, KeyFilesShrink, Zenon DEF StopVoting, KeyInvariant, signed
<1> QED
  BY <1>2, <1>4, <1>7, Zenon DEF KeyInvariant

\* A copy of the saved file carries the same history.
LEMMA CopySavedPreserves ==
  ASSUME KeyInvariant, NEW h \in Host, NEW to \in Host, CopySaved(h, to)
  PROVE  KeyInvariant'
<1>1. TypeOK'
  BY DEF CopySaved, KeyInvariant, TypeOK, memory, signed, round_manager
<1>2. KeyCoherent'
  BY Zenon DEF CopySaved, KeyInvariant, KeyCoherent, HostCoherent, memory, signed,
       round_manager
<1>3. owner = NoHost /\ owner' = NoHost /\ h \in fresh
  BY Zenon DEF CopySaved, KeyInvariant, KeyCoherent
<1>4. ASSUME NEW f \in KeyFiles' PROVE f \in KeyFiles
  <2>1. PICK g \in fresh' : f \in save'[g]
    BY <1>3, Zenon DEF KeyFiles
  <2>2. g \in Host
    BY <2>1, <1>1, Zenon DEF TypeOK
  <2>3. f \in save[h] \/ (g \in fresh /\ f \in save[g])
    BY <2>1, <2>2 DEF CopySaved, KeyInvariant, TypeOK
  <2> QED
    BY <1>3, <2>3, Zenon DEF KeyFiles
<1>5. DiskRemembers'
  BY <1>4, KeyFilesShrink, Zenon DEF CopySaved, KeyInvariant, signed
<1> QED
  BY <1>1, <1>2, <1>5, Zenon DEF KeyInvariant

\* start_voting(true) leaves the file as it is.
LEMMA StartVotingLocalPreserves ==
  ASSUME KeyInvariant, NEW h \in Host, StartVotingLocal(h)
  PROVE  KeyInvariant'
<1>1. running[h]
  BY Zenon DEF StartVotingLocal, KeyInvariant, KeyCoherent, HostCoherent
<1>2. LeavesFile(h)
  BY <1>1, StorageLeavesFile, Zenon DEF StartVotingLocal
<1>3. ProcessStep(h)
  BY <1>1, <1>2, Zenon DEF StartVotingLocal, ProcessStep, signed, operator,
       round_manager
<1>4. KeyCoherent' /\ FilesTyped'
  BY <1>3, ProcessStepCoherent, Zenon
<1>5. DiskRemembers'
  BY <1>2, QuietStepRemembers, Zenon DEF StartVotingLocal, signed
<1>6. TypeOK'
  BY <1>4, Zenon DEF StartVotingLocal, KeyInvariant, TypeOK, FilesTyped, operator,
       signed, round_manager
<1> QED
  BY <1>4, <1>5, <1>6, Zenon DEF KeyInvariant

\* start_voting(false) brings the history back and refreshes the cache.
LEMMA StartVotingSavedPreserves ==
  ASSUME KeyInvariant, NEW h \in Host, StartVotingSaved(h)
  PROVE  KeyInvariant'
<1>1. FilesTyped'
  BY DEF StartVotingSaved, KeyInvariant, TypeOK, FilesTyped, File
<1>2. TypeOK'
  BY <1>1, Zenon DEF StartVotingSaved, KeyInvariant, TypeOK, FilesTyped, signed,
       round_manager
<1>3. owner = NoHost /\ running[h] /\ save[h] # {}
  BY Zenon DEF StartVotingSaved, KeyInvariant, KeyCoherent, HostCoherent
<1>4. ASSUME NEW g \in Host PROVE HostCoherent(g)'
  <2>1. CASE g = h
    BY <1>3, <2>1
       DEF StartVotingSaved, KeyInvariant, TypeOK, HostCoherent, round_manager
  <2>2. CASE g # h
    <3>1. /\ running'[g] = running[g] /\ main'[g] = main[g]
          /\ cache'[g] = cache[g] /\ is_voting'[g] = is_voting[g]
          /\ round_epoch'[g] = round_epoch[g] /\ owner' # g
      BY <2>2 DEF StartVotingSaved, KeyInvariant, TypeOK, round_manager
    <3>2. HostCoherent(g)
      BY Zenon DEF KeyInvariant, KeyCoherent
    <3>3. owner # g
      BY <1>3, HostAssumption, Zenon
    <3> QED
      BY <3>1, <3>2, <3>3, Zenon DEF HostCoherent
  <2> QED
    BY <2>1, <2>2, Zenon
<1>5. KeyCoherent'
  BY <1>3, <1>4 DEF StartVotingSaved, KeyInvariant, TypeOK, KeyCoherent
<1>6. KeyFiles' = save[h]
  BY HostAssumption DEF StartVotingSaved, KeyInvariant, TypeOK, KeyFiles
<1>7. save[h] \subseteq KeyFiles
  BY <1>3, Zenon DEF StartVotingSaved, KeyFiles
<1>8. DiskRemembers'
  BY <1>6, <1>7, KeyFilesShrink, Zenon DEF StartVotingSaved, KeyInvariant, signed
<1> QED
  BY <1>2, <1>5, <1>8, Zenon DEF KeyInvariant

-----------------------------------------------------------------------------
(* The theorems                                                            *)

\* A step that changes nothing keeps the invariant.
LEMMA StutterPreserves ==
  ASSUME KeyInvariant, UNCHANGED vars
  PROVE  KeyInvariant'
<1> USE DEF vars, memory, operator, signed, round_manager
<1>1. TypeOK'
  BY Zenon DEF KeyInvariant, TypeOK
<1>2. KeyCoherent'
  BY Zenon DEF KeyInvariant, KeyCoherent, HostCoherent
<1>3. DiskRemembers'
  BY Zenon DEF KeyInvariant, DiskRemembers, KeyFiles
<1> QED
  BY <1>1, <1>2, <1>3, Zenon DEF KeyInvariant

\* Every step of every host keeps the invariant.
LEMMA NextPreserves == KeyInvariant /\ [Next]_vars => KeyInvariant'
<1> SUFFICES ASSUME KeyInvariant, [Next]_vars PROVE KeyInvariant'
  BY Zenon
<1>1. CASE UNCHANGED vars
  BY <1>1, StutterPreserves, Zenon
<1>2. CASE Next
  <2>1. PICK h \in Host :
    \/ \E started_as_voter \in BOOLEAN : Start(h, started_as_voter)
    \/ CrashInInitialize(h)
    \/ Crash(h)
    \/ \E epoch \in Epochs : StartRoundManager(h, epoch)
    \/ \E epoch \in Epochs : RetryInitialize(h, epoch)
    \/ ReadSafetyData(h)
    \/ \E p \in Proposals : ConstructAndSignVote(h, p)
    \/ \E p \in Proposals : SignProposal(h, p)
    \/ \E round \in TimeoutRounds : SignTimeout(h, round)
    \/ CrashAfterPersist(h)
    \/ StopVoting(h)
    \/ \E to \in Host \ {h} : CopySaved(h, to)
    \/ StartVotingLocal(h)
    \/ StartVotingSaved(h)
    BY <1>2, Zenon DEF Next
  <2> QED
    BY <2>1, StartPreserves, CrashInInitializePreserves, CrashPreserves,
       StartRoundManagerPreserves, RetryInitializePreserves,
       ReadSafetyDataPreserves, VotePreserves, ProposalPreserves,
       TimeoutPreserves, CrashAfterPersistPreserves, StopVotingPreserves,
       CopySavedPreserves, StartVotingLocalPreserves, StartVotingSavedPreserves, Zenon
<1> QED
  BY <1>1, <1>2, Zenon

\* The invariant that ties files, caches, processes and signatures together
\* holds for any number of hosts, epochs, rounds and requests.
THEOREM KeyInvariantHolds == Spec => []KeyInvariant
BY InitEstablishes, NextPreserves, PTL DEF Spec

\* A host that can sign reads what is on its disk, at every moment.
THEOREM SignsFromDiskHolds == Spec => []SignsFromDisk
<1>1. KeyInvariant => SignsFromDisk
  BY Zenon DEF KeyInvariant, KeyCoherent, HostCoherent, SignsFromDisk, CanSign
<1> QED
  BY <1>1, KeyInvariantHolds, PTL

\* Every released vote and timeout is bounded by what is on disk, at every
\* moment and through every crash (construct_and_sign_vote, sign_timeout).
THEOREM DiskRemembersHolds == Spec => []DiskRemembers
<1>1. KeyInvariant => DiskRemembers
  BY Zenon DEF KeyInvariant
<1> QED
  BY <1>1, KeyInvariantHolds, PTL

\* Two hosts with the key never vote side by side.
THEOREM OneVoterHolds == Spec => []OneVoter
<1>1. KeyInvariant => OneVoter
  BY Zenon DEF KeyInvariant, KeyCoherent, HostCoherent, OneVoter
<1> QED
  BY <1>1, KeyInvariantHolds, PTL

\* Only construct_and_sign_vote releases votes, and only sign_timeout
\* releases timeouts.
LEMMA WhoSigns ==
  ASSUME [Next]_vars
  PROVE  /\ \/ votes' = votes
            \/ \E h \in Host, p \in Proposals : ConstructAndSignVote(h, p)
         /\ \/ timeouts' = timeouts
            \/ \E h \in Host, round \in TimeoutRounds : SignTimeout(h, round)
BY ZenonT(30) DEF Next, vars, signed, Start, CrashInInitialize, Crash, Down,
       StartRoundManager, RetryInitialize, ReadSafetyData,
       ConstructAndSignVote, SignProposal, SignTimeout, CrashAfterPersist,
       StopVoting, CopySaved, StartVotingLocal, StartVotingSaved

\* What construct_and_sign_vote releases: at most one vote, which is new, or
\* which the file already holds.
LEMMA WhatIsReleased ==
  ASSUME KeyInvariant, NEW h \in Host, NEW p \in Proposals,
         ConstructAndSignVote(h, p), votes' # votes
  PROVE  \E w \in Proposals, sd \in SafetyData(Proposals) :
           /\ votes' = votes \cup {w} /\ w \notin votes
           /\ RemembersVotes(sd, votes) /\ RemembersTimeouts(sd, timeouts)
           /\ \E f \in KeyFiles : f.safety_data = sd
           /\ w \in sd.last_vote \/ MayVote(w, sd)
<1>1. CanSign(h)
  BY Zenon DEF ConstructAndSignVote
<1>2. PICK sd \in StoredSafetyData(h) :
        \/ votes' = votes \cup sd.last_vote
        \/ MayVote(p, sd) /\ votes' = votes \cup {p}
  BY Zenon DEF ConstructAndSignVote
<1>3. /\ sd \in SafetyData(Proposals)
      /\ RemembersVotes(sd, votes) /\ RemembersTimeouts(sd, timeouts)
      /\ \E f \in KeyFiles : f.safety_data = sd
  BY <1>1, SignerReads, Zenon
<1>4. CASE votes' = votes \cup sd.last_vote
  <2>1. PICK w \in sd.last_vote : w \notin votes
    BY <1>4, Zenon
  <2>2. sd.last_vote = {w}
    BY <1>3, <2>1, Zenon DEF RemembersVotes
  <2>3. w \in Proposals
    BY <1>3, <2>1, Zenon
  <2> QED
    BY <1>3, <1>4, <2>1, <2>2, <2>3, Zenon
<1>5. CASE MayVote(p, sd) /\ votes' = votes \cup {p}
  BY <1>3, <1>5, Zenon
<1> QED
  BY <1>2, <1>4, <1>5, Zenon

\* A new vote above what the safety data remembers may be released.
LEMMA ReleaseKeepsPromise ==
  ASSUME NEW sd \in SafetyData(Proposals), NEW w \in Proposals,
         votes \subseteq Proposals, w \notin votes, RemembersVotes(sd, votes),
         w \in sd.last_vote \/ MayVote(w, sd)
  PROVE  Promise!MayRelease(w)
<1> SUFFICES ASSUME NEW v \in votes
             PROVE  \/ v.epoch < w.epoch
                    \/ /\ v.epoch = w.epoch
                       /\ v.round < w.round
                       /\ w.one_chain_round >= v.two_chain_round
  BY Zenon DEF Promise!MayRelease
<1>1. v \in Proposal(ProposalId) /\ w \in Proposal(ProposalId)
  BY ProposalsAssumption, Zenon
<1>2. CASE w \in sd.last_vote
  <2>1. w.epoch = sd.epoch /\ \A u \in sd.last_vote : u = w
    BY <1>2, Zenon DEF RemembersVotes
  <2> QED
    BY <1>1, <1>2, <2>1, Zenon DEF RemembersVotes
<1>3. CASE MayVote(w, sd)
  BY <1>1, <1>3
     DEF RemembersVotes, MayVote, VerifyPreferredRound, VerifyLastVoteRound
<1> QED
  BY <1>2, <1>3, Zenon

\* Every step of the hosts is a release allowed by the promise, or none.
LEMMA StepKeepsPromise ==
  ASSUME KeyInvariant, [Next]_vars
  PROVE  [Promise!Next]_(Promise!vars)
<1>1. CASE votes' = votes
  BY <1>1, Zenon DEF Promise!vars
<1>2. ASSUME NEW h \in Host, NEW p \in Proposals,
             ConstructAndSignVote(h, p), votes' # votes
      PROVE  Promise!Next
  <2>1. PICK w \in Proposals, sd \in SafetyData(Proposals) :
          /\ votes' = votes \cup {w} /\ w \notin votes
          /\ RemembersVotes(sd, votes)
          /\ w \in sd.last_vote \/ MayVote(w, sd)
    BY <1>2, WhatIsReleased, Zenon
  <2>2. Promise!MayRelease(w)
    BY <2>1, ReleaseKeepsPromise, Zenon DEF KeyInvariant, TypeOK
  <2> QED
    BY <2>1, <2>2, Zenon DEF Promise!Next, Promise!Release
<1> QED
  BY <1>1, <1>2, WhoSigns, Zenon

\* The hosts together implement the promise: votes go up in (epoch, round)
\* and respect the lock, across crashes, failed writes and hand-overs.
THEOREM PromiseKept == Spec => KeepsPromise
<1>1. Init => Promise!Init
  BY Zenon DEF Init, Promise!Init
<1>2. KeyInvariant /\ [Next]_vars => [Promise!Next]_(Promise!vars)
  BY StepKeepsPromise, Zenon
<1> QED
  BY <1>1, <1>2, KeyInvariantHolds, PTL DEF Spec, KeepsPromise, Promise!Spec

\* No equivocation, and the lock, follow from the promise.
THEOREM VotesAgree == Spec => [](NoEquivocation /\ LockRespected)
<1> DEFINE Agree == NoEquivocation /\ LockRespected
<1> USE DEF NoEquivocation, LockRespected, Promise!NoEquivocation,
            Promise!LockRespected
<1>1. Init => Agree
  BY Zenon DEF Init
<1>2. KeyInvariant /\ Agree /\ [Next]_vars => Agree'
  <2> SUFFICES ASSUME KeyInvariant, Agree, [Next]_vars PROVE Agree'
    BY Zenon
  <2>1. votes \subseteq Proposal(ProposalId)
    BY ProposalsAssumption, Zenon DEF KeyInvariant, TypeOK
  <2>2. CASE votes' = votes
    BY <2>2, Zenon
  <2>3. ASSUME NEW p \in Proposals, Promise!MayRelease(p),
               votes' = votes \cup {p}
        PROVE  Agree'
    <3>1. p \in Proposal(ProposalId)
      BY ProposalsAssumption, Zenon
    <3>2. \A v \in votes :
            \/ v.epoch < p.epoch
            \/ /\ v.epoch = p.epoch /\ v.round < p.round
               /\ p.one_chain_round >= v.two_chain_round
      BY <2>3, Zenon DEF Promise!MayRelease
    <3>3. NoEquivocation'
      BY <2>1, <2>3, <3>1, <3>2
    <3>4. LockRespected'
      BY <2>1, <2>3, <3>1, <3>2
    <3> QED
      BY <3>3, <3>4, Zenon
  <2> QED
    BY <2>2, <2>3, StepKeepsPromise, Zenon
       DEF Promise!Next, Promise!Release, Promise!vars
<1> QED
  BY <1>1, <1>2, KeyInvariantHolds, PTL DEF Spec

\* A signed timeout is never below a released vote of its epoch.
THEOREM TimeoutNotBelowVoteHolds == Spec => TimeoutNotBelowVote
<1> DEFINE A == \A t \in timeouts' \ timeouts : \A v \in votes :
                  v.epoch = t.epoch => v.round <= t.round
<1>1. KeyInvariant /\ [Next]_vars => [A]_vars
  <2> SUFFICES ASSUME KeyInvariant, [Next]_vars PROVE A
    BY Zenon
  <2>1. CASE timeouts' = timeouts
    BY <2>1, Zenon
  <2>2. ASSUME NEW h \in Host, NEW round \in TimeoutRounds,
               SignTimeout(h, round)
        PROVE  A
    <3>1. CanSign(h)
      BY <2>2, Zenon DEF SignTimeout
    <3>2. PICK sd \in StoredSafetyData(h) :
            /\ MayTimeout(round_epoch[h], round, sd)
            /\ \/ timeouts' = timeouts \cup
                     {[epoch |-> round_epoch[h], round |-> round]}
               \/ timeouts' = timeouts
      BY <2>2, Zenon DEF SignTimeout
    <3>3. sd \in SafetyData(Proposals) /\ RemembersVotes(sd, votes)
      BY <3>1, SignerReads, Zenon
    <3>4. votes \subseteq Proposal(ProposalId) /\ round \in Nat
      BY ProposalsAssumption, BoundsAssumption, Zenon DEF KeyInvariant, TypeOK
    <3>5. ASSUME NEW v \in votes, v.epoch = round_epoch[h]
          PROVE  v.round <= round
      <4>1. sd.epoch = round_epoch[h] /\ round >= sd.last_voted_round
        BY <3>2, Zenon DEF MayTimeout
      <4>2. v.round <= sd.last_voted_round
        BY <3>3, <3>4, <3>5, <4>1 DEF RemembersVotes
      <4> QED
        BY <3>3, <3>4, <4>1, <4>2
    <3> QED
      BY <3>2, <3>5
  <2> QED
    BY <2>1, <2>2, WhoSigns, Zenon
<1> QED
  BY <1>1, KeyInvariantHolds, PTL DEF Spec, TimeoutNotBelowVote

\* A timed-out round gets no vote for a new proposal any more.
THEOREM VoteAboveTimeoutHolds == Spec => VoteAboveTimeout
<1> DEFINE A == \A v \in votes' \ votes : \A t \in timeouts :
                  \/ v.epoch # t.epoch
                  \/ v.round > t.round
                  \/ \E f \in KeyFiles : v \in f.safety_data.last_vote
<1>1. KeyInvariant /\ [Next]_vars => [A]_vars
  <2> SUFFICES ASSUME KeyInvariant, [Next]_vars PROVE A
    BY Zenon
  <2>1. CASE votes' = votes
    BY <2>1, Zenon
  <2>2. ASSUME NEW h \in Host, NEW p \in Proposals,
               ConstructAndSignVote(h, p), votes' # votes
        PROVE  A
    <3>1. PICK w \in Proposals, sd \in SafetyData(Proposals) :
            /\ votes' = votes \cup {w}
            /\ RemembersTimeouts(sd, timeouts)
            /\ \E f \in KeyFiles : f.safety_data = sd
            /\ w \in sd.last_vote \/ MayVote(w, sd)
      BY <2>2, WhatIsReleased, Zenon
    <3>2. timeouts \subseteq [epoch : Nat, round : Nat]
          /\ w \in Proposal(ProposalId)
      BY ProposalsAssumption, Zenon DEF KeyInvariant, TypeOK
    <3>3. CASE MayVote(w, sd)
      BY <3>1, <3>2, <3>3
         DEF MayVote, VerifyLastVoteRound, RemembersTimeouts
    <3>4. CASE w \in sd.last_vote
      BY <3>1, <3>4, Zenon
    <3> QED
      BY <3>1, <3>3, <3>4, Zenon
  <2> QED
    BY <2>1, <2>2, WhoSigns, Zenon
<1> QED
  BY <1>1, KeyInvariantHolds, PTL DEF Spec, VoteAboveTimeout

=============================================================================
