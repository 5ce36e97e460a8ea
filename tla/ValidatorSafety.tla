-------------------------- MODULE ValidatorSafety --------------------------
(***************************************************************************)
(* One validator key and the hosts that hold it: the persistent safety     *)
(* storage (persistent_safety_storage.rs over secure/storage on_disk.rs),  *)
(* the SafetyRules that read and write it, the retry of                    *)
(* MetricsSafetyRules, the proposal generator's memory, and the            *)
(* start_voting / stop_voting hand-over between a prime host and its       *)
(* running backup (tests/pos/backup_voter_test.py).                        *)
(*                                                                         *)
(* main[h] is the secure storage file of host h, save[h] the file with the *)
(* ".save" suffix.  A file is present or not: a set with at most one       *)
(* element.  A main file without SAFETY_DATA (created empty at start-up)   *)
(* is the empty set too: the only reader that can meet it treats the two   *)
(* alike.  A running process works one request at a time, so a request is  *)
(* one step; a crash inside it is an action of its own.                    *)
(*                                                                         *)
(* A certificate carried by a request is taken to have passed verify_qc:   *)
(* Proposals is the set of requests that pass it.                          *)
(***************************************************************************)
EXTENDS SafetyRules, FiniteSets

CONSTANTS Host,         \* hosts configured with the validator's key
          FirstVoter,   \* the host the operator lets vote first
          NoHost,       \* the key is between two hosts
          ProposalId,
          Proposals,    \* requests to vote or to propose
          TimeoutRounds,
          Epochs,       \* epochs the ledger reaches; the first one is 1
          ElectedEpochs \* epochs whose validator set contains the key

ASSUME HostAssumption == FirstVoter \in Host /\ NoHost \notin Host

ASSUME ProposalsAssumption ==
  /\ Proposals \subseteq Proposal(ProposalId)
  /\ \A p \in Proposals : WellFormed(p)

ASSUME BoundsAssumption ==
  TimeoutRounds \subseteq Nat /\ Epochs \subseteq Nat /\ 1 \in Epochs

VARIABLES
  main, save,             \* files
  running,                \* the process is up
  cache,                  \* PersistentSafetyStorage::cached_safety_data
  signer,                 \* SafetyRules::validator_signer is Some
  is_voting,              \* EpochManager::is_voting / RoundManager
  round_epoch,            \* epoch of the RoundManager, 0 if there is none
  last_round_generated,   \* ProposalGenerator
  ledger_epoch,           \* epoch of the host's PoS ledger
  owner,                  \* operator: the host that may vote, or NoHost
  fresh,                  \* operator: hosts whose ".save" is the last one
  votes, timeouts   \* what left the process, signed

round_manager == <<round_epoch, last_round_generated>>
memory == <<cache, signer, is_voting, round_manager>>
signed == <<votes, timeouts>>
operator == <<owner, fresh>>
vars == <<main, save, running, memory, ledger_epoch, operator, signed>>

File == [safety_data : SafetyData(Proposals), owner_account : BOOLEAN]

Init ==
  /\ main = [h \in Host |-> {}]
  /\ save = [h \in Host |-> {}]
  /\ running = [h \in Host |-> FALSE]
  /\ cache = [h \in Host |-> {}]
  /\ signer = [h \in Host |-> FALSE]
  /\ is_voting = [h \in Host |-> FALSE]
  /\ round_epoch = [h \in Host |-> 0]
  /\ last_round_generated = [h \in Host |-> 0]
  /\ ledger_epoch = [h \in Host |-> 1]
  /\ owner = FirstVoter
  /\ fresh = {}
  /\ votes = {}
  /\ timeouts = {}

-----------------------------------------------------------------------------
(* PersistentSafetyStorage                                                 *)

\* safety_data(): the cached copy, else the file.  Empty: the read fails.
StoredSafetyData(h) ==
  IF cache[h] # {} THEN cache[h] ELSE {f.safety_data : f \in main[h]}

FileWith(h, sd) == {[f EXCEPT !.safety_data = sd] : f \in main[h]}

\* Mutant of SetSafetyData: only the cached copy is updated.
SetCachedSafetyData(h, sd) ==
  main[h] # {} /\ cache' = [cache EXCEPT ![h] = {sd}] /\ UNCHANGED main

\* set_safety_data() that succeeds: the file is replaced by a rename.
SetSafetyData(h, sd) ==
  /\ main[h] # {}
  /\ main' = [main EXCEPT ![h] = FileWith(h, sd)]
  /\ cache' = [cache EXCEPT ![h] = {sd}]

\* set_safety_data() that fails (no such file, I/O error): the cache is
\* dropped and the request returns the error.
SetSafetyDataFails(h) ==
  /\ cache' = [cache EXCEPT ![h] = {}]
  /\ UNCHANGED main

\* A request that only reads leaves the copy it read in the cache.
KeepInCache(h, sd) ==
  /\ cache' = [cache EXCEPT ![h] = {sd}]
  /\ UNCHANGED main

-----------------------------------------------------------------------------
(* Start-up and crash                                                      *)

\* SafetyRulesManager::new and EpochManager::new.  initialize_ keeps a file
\* that has SAFETY_DATA and otherwise writes the two keys.  The operator
\* sets pos_started_as_voter only on the host that may vote.
Start(h, started_as_voter) ==
  /\ ~running[h]
  /\ started_as_voter => owner = h
  /\ main' = [main EXCEPT ![h] =
       IF @ # {} THEN @
       ELSE {[safety_data |-> NewSafetyData(1), owner_account |-> TRUE]}]
  /\ cache' = [cache EXCEPT ![h] = {f.safety_data : f \in main'[h]}]
  /\ running' = [running EXCEPT ![h] = TRUE]
  /\ is_voting' = [is_voting EXCEPT ![h] = started_as_voter]
  /\ UNCHANGED <<save, signer, round_manager, ledger_epoch, operator, signed>>

\* A crash between the two writes of initialize_.
CrashInInitialize(h) ==
  /\ ~running[h]
  /\ main[h] = {}
  /\ main' = [main EXCEPT ![h] =
       {[safety_data |-> NewSafetyData(1), owner_account |-> FALSE]}]
  /\ UNCHANGED <<save, running, memory, ledger_epoch, operator, signed>>

\* The process is gone; the files stay.
Down(h) ==
  /\ running[h]
  /\ running' = [running EXCEPT ![h] = FALSE]
  /\ cache' = [cache EXCEPT ![h] = {}]
  /\ signer' = [signer EXCEPT ![h] = FALSE]
  /\ is_voting' = [is_voting EXCEPT ![h] = FALSE]
  /\ round_epoch' = [round_epoch EXCEPT ![h] = 0]
  /\ last_round_generated' = [last_round_generated EXCEPT ![h] = 0]
  /\ UNCHANGED <<save, ledger_epoch, operator, signed>>

Crash(h) == Down(h) /\ UNCHANGED main

-----------------------------------------------------------------------------
(* guarded_initialize, for the epoch the ledger says                       *)

\* Mutant of Initialize: a restart within the epoch starts afresh.
InitializeAfresh(h, epoch) ==
  /\ SetSafetyData(h, NewSafetyData(epoch))
  /\ signer' = [signer EXCEPT ![h] = epoch \in ElectedEpochs]

Initialize(h, epoch) ==
  \/ /\ StoredSafetyData(h) = {}
     /\ UNCHANGED <<main, cache, signer>>
  \/ \E sd \in StoredSafetyData(h) :
       /\ sd.epoch < epoch
       /\ SetSafetyDataFails(h)
       /\ UNCHANGED signer
  \/ \E sd \in StoredSafetyData(h) :
       /\ IF sd.epoch < epoch
          THEN SetSafetyData(h, NewSafetyData(epoch))
          ELSE KeepInCache(h, sd)
       /\ signer' = [signer EXCEPT ![h] =
            IF \E f \in main[h] : f.owner_account
            THEN epoch \in ElectedEpochs
            ELSE @]

\* EpochManager::start_round_manager, at start-up and at each new epoch,
\* with a new ProposalGenerator.
StartRoundManager(h, epoch) ==
  /\ running[h]
  /\ epoch > round_epoch[h]
  /\ epoch >= ledger_epoch[h]
  /\ ledger_epoch' = [ledger_epoch EXCEPT ![h] = epoch]
  /\ round_epoch' = [round_epoch EXCEPT ![h] = epoch]
  /\ last_round_generated' = [last_round_generated EXCEPT ![h] = 0]
  /\ Initialize(h, epoch)
  /\ UNCHANGED <<save, running, is_voting, operator, signed>>

\* MetricsSafetyRules: a signing request that meets NotInitialized calls
\* perform_initialize and tries again.  The second try is the request's own
\* action.  The ledger may have moved on since the round manager started.
RetryInitialize(h, epoch) ==
  /\ round_epoch[h] # 0
  /\ ~signer[h]
  /\ epoch >= ledger_epoch[h]
  /\ ledger_epoch' = [ledger_epoch EXCEPT ![h] = epoch]
  /\ Initialize(h, epoch)
  /\ UNCHANGED <<save, running, is_voting, round_manager, operator, signed>>

\* guarded_consensus_state, and any request refused after it has read the
\* safety data.
ReadSafetyData(h) ==
  /\ running[h]
  /\ \E sd \in StoredSafetyData(h) : KeepInCache(h, sd)
  /\ UNCHANGED <<save, running, signer, is_voting, round_manager, ledger_epoch,
                 operator, signed>>

-----------------------------------------------------------------------------
(* Signing requests of the round manager                                   *)

\* RoundManager::is_validator, and signer()? as the first check of a request.
CanSign(h) ==
  is_voting[h] /\ round_epoch[h] \in ElectedEpochs /\ signer[h]

ConstructAndSignVote(h, p) ==
  /\ CanSign(h)
  /\ p.epoch = round_epoch[h]
  /\ \E sd \in StoredSafetyData(h) :
       \/ /\ RepeatsLastVote(p, sd)
          /\ KeepInCache(h, sd)
          /\ votes' = votes \cup sd.last_vote
       \/ /\ MayVote(p, sd)
          /\ SetSafetyData(h, AfterVote(p, sd))
          /\ votes' = votes \cup {p}
       \/ /\ MayVote(p, sd)
          /\ SetSafetyDataFails(h)
          /\ UNCHANGED votes
  /\ UNCHANGED <<save, running, signer, is_voting, round_manager, ledger_epoch,
                 operator, timeouts>>

\* ProposalGenerator::generate_proposal, then sign_proposal.  The generator
\* remembers the round before anything can fail.  No rule reads what was
\* proposed.
SignProposal(h, p) ==
  /\ CanSign(h)
  /\ p.epoch = round_epoch[h]
  /\ last_round_generated[h] < p.round
  /\ last_round_generated' = [last_round_generated EXCEPT ![h] = p.round]
  /\ \E sd \in StoredSafetyData(h) :
       \/ /\ MayPropose(p, sd)
          /\ IF AfterPropose(p, sd) # sd
             THEN SetSafetyData(h, AfterPropose(p, sd))
             ELSE KeepInCache(h, sd)
       \/ /\ MayPropose(p, sd)
          /\ AfterPropose(p, sd) # sd
          /\ SetSafetyDataFails(h)
       \/ /\ ~MayPropose(p, sd)
          /\ KeepInCache(h, sd)
  /\ UNCHANGED <<save, running, signer, is_voting, round_epoch, ledger_epoch,
                 operator, votes, timeouts>>

SignTimeout(h, round) ==
  /\ CanSign(h)
  /\ \E sd \in StoredSafetyData(h) :
       /\ MayTimeout(round_epoch[h], round, sd)
       /\ \/ /\ IF AfterTimeout(round, sd) # sd
                THEN SetSafetyData(h, AfterTimeout(round, sd))
                ELSE KeepInCache(h, sd)
             /\ timeouts' = timeouts \cup
                  {[epoch |-> round_epoch[h], round |-> round]}
          \/ /\ AfterTimeout(round, sd) # sd
             /\ SetSafetyDataFails(h)
             /\ UNCHANGED timeouts
  /\ UNCHANGED <<save, running, signer, is_voting, round_manager, ledger_epoch,
                 operator, votes>>

\* The safety data a signing request would persist.
Successors(sd) ==
  {AfterVote(p, sd) : p \in {q \in Proposals : MayVote(q, sd)}}
    \cup {AfterPropose(p, sd) : p \in {q \in Proposals : MayPropose(q, sd)}}
    \cup {AfterTimeout(r, sd) :
            r \in {t \in TimeoutRounds : MayTimeout(sd.epoch, t, sd)}}

\* A crash inside a signing request, after the write and before the vote,
\* the proposal or the timeout is handed back.
CrashAfterPersist(h) ==
  /\ CanSign(h)
  /\ main[h] # {}
  /\ \E sd \in StoredSafetyData(h) : \E new \in Successors(sd) :
       sd.epoch = round_epoch[h] /\ main' = [main EXCEPT ![h] = FileWith(h, new)]
  /\ Down(h)

-----------------------------------------------------------------------------
(* Hand-over of the key between hosts                                      *)

\* Mutant of StopVoting: the file moves but the round manager goes on voting.
StopVotingFileOnly(h) ==
  /\ owner = h /\ main[h] # {}
  /\ save' = [save EXCEPT ![h] = main[h]]
  /\ main' = [main EXCEPT ![h] = {}]
  /\ owner' = NoHost /\ fresh' = {h}
  /\ UNCHANGED <<running, memory, ledger_epoch, signed>>

\* RoundManager::stop_voting: the file is renamed to ".save".  The cached
\* copy is left as it is.
StopVoting(h) ==
  /\ round_epoch[h] # 0
  /\ owner = h
  /\ main[h] # {}
  /\ save' = [save EXCEPT ![h] = main[h]]
  /\ main' = [main EXCEPT ![h] = {}]
  /\ is_voting' = [is_voting EXCEPT ![h] = FALSE]
  /\ owner' = NoHost
  /\ fresh' = {h}
  /\ UNCHANGED <<running, cache, signer, round_manager, ledger_epoch, signed>>

\* The operator copies the saved file to another host.
CopySaved(from, to) ==
  /\ from \in fresh
  /\ save' = [save EXCEPT ![to] = save[from]]
  /\ fresh' = fresh \cup {to}
  /\ UNCHANGED <<main, running, memory, ledger_epoch, owner, signed>>

\* start_voting(initialize = true): vote with the local safety data.
StartVotingLocal(h) ==
  /\ round_epoch[h] # 0
  /\ owner = h
  /\ is_voting' = [is_voting EXCEPT ![h] = TRUE]
  /\ UNCHANGED <<main, save, running, cache, signer, round_manager,
                 ledger_epoch, operator, signed>>

\* start_voting(initialize = false): replace_with_suffix.  Both files must
\* name the account, so it fails while the main file is missing.
StartVotingSaved(h) ==
  /\ round_epoch[h] # 0
  /\ h \in fresh
  /\ \E f \in main[h] : f.owner_account
  /\ \E f \in save[h] : f.owner_account
  /\ main' = [main EXCEPT ![h] = save[h]]
  /\ save' = [save EXCEPT ![h] = {}]
  /\ cache' = [cache EXCEPT ![h] = {f.safety_data : f \in save[h]}]
  /\ is_voting' = [is_voting EXCEPT ![h] = TRUE]
  /\ owner' = h
  /\ fresh' = {}
  /\ UNCHANGED <<running, signer, round_manager, ledger_epoch, signed>>

-----------------------------------------------------------------------------
Next ==
  \E h \in Host :
    \/ \E started_as_voter \in BOOLEAN : Start(h, started_as_voter)
    \/ CrashInInitialize(h)
    \/ Crash(h)
    \/ \E epoch \in Epochs : StartRoundManager(h, epoch)
    \/ \E epoch \in Epochs : RetryInitialize(h, epoch)
    \/ ReadSafetyData(h)
    \/ \E p \in Proposals : ConstructAndSignVote(h, p)
    \/ \E p \in Proposals : SignProposal(h, p)
    \/ \E round \in TimeoutRounds : SignTimeout(h, round)
    \/ CrashAfterPersist(h)
    \/ StopVoting(h)
    \/ \E to \in Host \ {h} : CopySaved(h, to)
    \/ StartVotingLocal(h)
    \/ StartVotingSaved(h)

Spec == Init /\ [][Next]_vars

-----------------------------------------------------------------------------
\* Type invariant: files, cached copies and signed messages have the shape
\* the code gives them.
TypeOK ==
  /\ main \in [Host -> SUBSET File]
  /\ save \in [Host -> SUBSET File]
  /\ \A h \in Host : /\ \A f, g \in main[h] : f = g
                     /\ \A f, g \in save[h] : f = g
                     /\ \A c, d \in cache[h] : c = d
  /\ running \in [Host -> BOOLEAN]
  /\ cache \in [Host -> SUBSET SafetyData(Proposals)]
  /\ signer \in [Host -> BOOLEAN]
  /\ is_voting \in [Host -> BOOLEAN]
  /\ round_epoch \in [Host -> Nat]
  /\ last_round_generated \in [Host -> Nat]
  /\ ledger_epoch \in [Host -> Nat]
  /\ owner \in Host \cup {NoHost}
  /\ fresh \subseteq Host
  /\ votes \subseteq Proposals
  /\ timeouts \subseteq [epoch : Nat, round : Nat]

\* The files that carry the key's history: the voting host's own file, or
\* every copy of the saved file while the key is between hosts.
KeyFiles ==
  IF owner = NoHost THEN UNION {save[h] : h \in fresh} ELSE main[owner]

\* sd remembers enough of the votes V to keep the promise: its epoch is the
\* highest voted in, its two counters bound the votes of that epoch, and its
\* last_vote is the highest of them or is above them all.
RemembersVotes(sd, V) ==
  /\ \A u, w \in sd.last_vote : u = w
  /\ \A w \in sd.last_vote :
       /\ w.epoch = sd.epoch
       /\ w.round <= sd.last_voted_round
       /\ w.two_chain_round <= sd.preferred_round
  /\ \A v \in V :
       \/ v.epoch < sd.epoch
       \/ /\ v.epoch = sd.epoch
          /\ v.round <= sd.last_voted_round
          /\ v.two_chain_round <= sd.preferred_round
          /\ \E w \in sd.last_vote :
               \/ v = w
               \/ v.round < w.round /\ w.one_chain_round >= v.two_chain_round

RemembersTimeouts(sd, T) ==
  \A t \in T :
    \/ t.epoch < sd.epoch
    \/ t.epoch = sd.epoch /\ t.round <= sd.last_voted_round

\* Whatever has left the process is on disk first: at every moment, a crash
\* included, the file the key will be used with next remembers the released
\* votes and bounds the released timeouts (set_safety_data before Ok(vote),
\* the rename in on_disk.rs, the renames of the hand-over).
DiskRemembers ==
  \A f \in KeyFiles :
    /\ RemembersVotes(f.safety_data, votes)
    /\ RemembersTimeouts(f.safety_data, timeouts)

\* A host that can sign signs from what is on its disk: the cached copy left
\* behind by stop_voting or by a failed write is never signed from.
SignsFromDisk ==
  \A h \in Host :
    CanSign(h) => cache[h] \subseteq {f.safety_data : f \in main[h]}

\* Only the host the operator let vote can sign, and while it votes its file
\* is in place: two hosts with one key never vote side by side, whatever
\* crashes and restarts happen around the hand-over.
OneVoter ==
  \A h \in Host : is_voting[h] => owner = h /\ main[h] # {}

\* How processes, files and the operator's choice fit together at every
\* moment; the part of the inductive invariant that is not about signatures.
\* A voting process runs on the owner; a running owner has its file; a cached
\* copy equals the file, if there is one, and dies with the process; nothing
\* was signed before the owner's first start.
HostCoherent(h) ==
  /\ is_voting[h] => running[h] /\ owner = h
  /\ running[h] /\ owner = h => main[h] # {}
  /\ running[h] /\ main[h] # {}
       => cache[h] \subseteq {f.safety_data : f \in main[h]}
  /\ ~running[h] => cache[h] = {} /\ round_epoch[h] = 0

KeyCoherent ==
  /\ \A h \in Host : HostCoherent(h)
  /\ fresh # {} => owner = NoHost
  /\ owner # NoHost /\ main[owner] = {} => votes = {} /\ timeouts = {}

\* The inductive invariant behind KeepsPromise and the two action properties.
KeyInvariant == TypeOK /\ KeyCoherent /\ DiskRemembers

\* A timeout is never signed for a round below one already voted in
\* (guarded_sign_timeout), on whichever host the vote was cast.
TimeoutNotBelowVote ==
  [][\A t \in timeouts' \ timeouts : \A v \in votes :
       v.epoch = t.epoch => v.round <= t.round]_vars

\* Once a round is timed out no new proposal of that round or below gets a
\* vote; only a vote persisted before may still be handed out again.
VoteAboveTimeout ==
  [][\A v \in votes' \ votes : \A t \in timeouts :
       \/ v.epoch # t.epoch
       \/ v.round > t.round
       \/ \E f \in KeyFiles : v \in f.safety_data.last_vote]_vars

Promise == INSTANCE VotingPromise

\* The hosts together keep the promise of VotingPromise: votes are released
\* in order and under the lock, across crashes, failed writes, new epochs and
\* hand-overs.
KeepsPromise == Promise!Spec

\* One vote per epoch and round, whichever host cast it and whatever crashed
\* in between (guarded_construct_and_sign_vote hands out last_vote again).
NoEquivocation == Promise!NoEquivocation

\* Every later vote of an epoch extends a certified block at least as high as
\* the grandparent block of each earlier one (the preferred round).
LockRespected == Promise!LockRespected

=============================================================================
