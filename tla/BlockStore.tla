----------------------------- MODULE BlockStore -----------------------------
(***************************************************************************)
(* One node's store of PoS blocks in one epoch: the in-memory BlockTree,   *)
(* the ConsensusDB and the PoS ledger on disk, the executor's speculation  *)
(* cache, and the certificates that drive them.                            *)
(*                                                                         *)
(* A handler of the RoundManager runs to its end before the next one, but  *)
(* writes to disk several times on the way and may return early at any     *)
(* fallible call.  It is modelled as a program, the sequence `work' of the *)
(* calls it has still to make; one step executes the first call with the   *)
(* one write it makes.  The process may crash between any two of them.     *)
(*                                                                         *)
(* A certificate is named by the block it certifies.  Which blocks are     *)
(* ever certified is the outcome of the whole network (`certified'): any   *)
(* set with the properties PosConsensus establishes.  The blocks between a *)
(* certificate and genesis can be retrieved from a peer, or not.           *)
(***************************************************************************)
EXTENDS Naturals, Sequences, FiniteSets

CONSTANTS Blocks, Genesis,
          Round, Parent, Ancestors,   \* of each block, as in PosConsensus
          TimeoutRounds,              \* rounds a TimeoutCertificate may have
          MaxPruned                   \* max_pruned_blocks_in_mem

ASSUME BlocksAssumption ==
  /\ Genesis \in Blocks
  /\ Round \in [Blocks -> Nat]
  /\ Parent \in [Blocks -> Blocks]
  /\ Round[Genesis] = 0
  /\ Parent[Genesis] = Genesis
  /\ \A b \in Blocks \ {Genesis} : Round[Parent[b]] < Round[b]

ASSUME AncestorsAssumption ==
  /\ Ancestors \in [Blocks -> SUBSET Blocks]
  /\ Ancestors[Genesis] = {Genesis}
  /\ \A b \in Blocks \ {Genesis} :
       Ancestors[b] = {b} \cup Ancestors[Parent[b]]

ASSUME BoundsAssumption ==
  /\ TimeoutRounds \subseteq Nat
  /\ MaxPruned \in Nat

VARIABLES certified,   \* blocks that ever get a quorum certificate
          up,          \* is the process running?
          mem,         \* BlockTree, speculation cache and current_round
          db,          \* ConsensusDB and the PoS ledger
          work         \* calls the current handler has still to make

vars == <<certified, up, mem, db, work>>

-----------------------------------------------------------------------------
(* Certificates                                                            *)

Max(m, n) == IF m >= n THEN m ELSE n

Extends(b, g) == g \in Ancestors[b]

\* construct_ledger_info: what the votes for q commit; round 0 for nothing.
Commits(q) ==
  /\ q # Genesis
  /\ Round[Parent[Parent[q]]] + 1 = Round[Parent[q]]
  /\ Round[Parent[q]] + 1 = Round[q]

CommitInfo(q) == IF Commits(q) THEN Parent[Parent[q]] ELSE Genesis

CommitRound(q) == Round[CommitInfo(q)]

\* What a network with fewer than a third of Byzantine power certifies.
Certifiable(C) ==
  /\ Genesis \in C
  /\ \A b \in C : Parent[b] \in C
  /\ \A b, c \in C : Round[b] = Round[c] => b = c
  /\ \A q, b \in C :
       Commits(q) /\ Round[b] >= CommitRound(q) => Extends(b, CommitInfo(q))

\* BlockReader::sync_info of some peer, and SyncInfo::verify.
SyncInfos ==
  {i \in [hqc : certified, hcc : certified, tc : TimeoutRounds \cup {0}] :
     /\ Round[i.hqc] >= Round[i.hcc]
     /\ i.hcc = Genesis \/ Commits(i.hcc)
     /\ i.tc = 0 \/ i.tc > Round[i.hqc]}

HighestRound(i) == Max(Round[i.hqc], i.tc)

\* SyncInfo::new drops a timeout certificate the hqc has overtaken.
LocalSyncInfo ==
  [hqc |-> mem.hqc, hcc |-> mem.hcc,
   tc |-> IF mem.htc > Round[mem.hqc] THEN mem.htc ELSE 0]

HasNewerCertificates(i, j) ==
  \/ Round[i.hqc] > Round[j.hqc]
  \/ i.tc > j.tc
  \/ CommitRound(i.hcc) > CommitRound(j.hcc)

-----------------------------------------------------------------------------
(* Recovery                                                                *)

\* LedgerRecoveryData::find_root: the certificate that commits the root.
RootLedgerInfos(d) == {q \in d.qcs : Commits(q) /\ CommitInfo(q) = d.root}

FindRoot(d) ==
  \/ d.root = Genesis
  \/ /\ d.root \in d.blocks
     /\ d.root \in d.qcs
     /\ RootLedgerInfos(d) # {}

\* RecoveryData::find_blocks_to_prune keeps what is chained to the root.
Kept(d) ==
  {b \in d.blocks \ {d.root} :
     /\ Extends(b, d.root)
     /\ \A a \in Ancestors[b] : Round[a] > Round[d.root] => a \in d.blocks}

\* BlockStore::build and RoundManager::start
Recovered(d) ==
  LET blocks == Kept(d) \cup {d.root}
      qcs    == (d.qcs \cap blocks) \cup {d.root}
      hqc    == CHOOSE q \in qcs : \A c \in qcs : Round[c] <= Round[q]
      li     == IF d.root = Genesis THEN Genesis
                ELSE CHOOSE q \in RootLedgerInfos(d) : TRUE
      newer  == {q \in qcs : CommitRound(q) > Round[d.root]}
  IN [tree |-> blocks, root |-> d.root, qcs |-> qcs, hqc |-> hqc,
      hcc |-> IF newer = {} THEN li
              ELSE CHOOSE q \in newer :
                     \A c \in newer : CommitRound(c) <= CommitRound(q),
      htc |-> d.tc, pruned |-> <<>>, cache |-> Kept(d),
      round |-> Max(Round[hqc], d.tc) + 1]

\* StorageWriteProxy::start deletes the dangling blocks.
CleanedUp(d) ==
  LET dangling == d.blocks \ (Kept(d) \cup {d.root})
  IN [d EXCEPT !.blocks = @ \ dangling, !.qcs = @ \ dangling]

EmptyDB ==
  [blocks |-> {}, qcs |-> {}, tc |-> 0, ledger |-> {}, root |-> Genesis]

Init ==
  /\ certified \in {C \in SUBSET Blocks : Certifiable(C)}
  /\ up = TRUE
  /\ db = EmptyDB
  /\ mem = Recovered(EmptyDB)
  /\ work = <<>>

Crash ==
  /\ up
  /\ up' = FALSE
  /\ work' = <<>>
  /\ UNCHANGED <<certified, mem, db>>

Restart ==
  /\ ~up
  /\ FindRoot(db)
  /\ up' = TRUE
  /\ mem' = Recovered(db)
  /\ db' = CleanedUp(db)
  /\ UNCHANGED <<certified, work>>

-----------------------------------------------------------------------------
(* Handlers: what each one sets out to do                                  *)

Call(name, arg) == [call |-> name, arg |-> arg]

Idle == up /\ work = <<>>

Begin(calls) ==
  /\ Idle
  /\ work' = calls
  /\ UNCHANGED <<certified, up, mem, db>>

\* RoundManager::sync_up
SyncUp(i) ==
  IF HasNewerCertificates(i, LocalSyncInfo)
  THEN <<Call("insert_quorum_cert", i.hcc), Call("insert_quorum_cert", i.hqc),
         Call("insert_timeout_certificate", i.tc),
         Call("process_certificates", Genesis)>>
  ELSE <<>>

\* process_sync_info_msg, and process_vote_msg up to the vote
ReceiveSyncInfo(i) ==
  /\ HighestRound(i) + 1 >= mem.round
  /\ HasNewerCertificates(i, LocalSyncInfo)
  /\ Begin(SyncUp(i))

\* process_proposal_msg of a proposal that ProposalMsg::verify accepts
ReceiveProposal(b, i) ==
  /\ b # Genesis
  /\ i.hqc = Parent[b]
  /\ Round[b] = HighestRound(i) + 1
  /\ Round[b] >= mem.round
  /\ Begin(SyncUp(i) \o <<Call("process_proposal", b)>>)

\* process_local_timeout: the NIL block of the current round
GenerateNilBlock(b) ==
  /\ b # Genesis
  /\ Parent[b] = mem.hqc
  /\ Round[b] = mem.round
  /\ Begin(<<Call("process_proposal", b)>>)

\* new_qc_aggregated: process_certificates runs whether or not the insertion
\* succeeds.
NewQCAggregated(q) ==
  /\ Round[q] = mem.round
  /\ Begin(<<Call("insert_quorum_cert", q),
             Call("always_process_certificates", Genesis)>>)

\* new_tc_aggregated
NewTCAggregated(r) ==
  /\ r = mem.round
  /\ Begin(<<Call("insert_timeout_certificate", r),
             Call("always_process_certificates", Genesis)>>)

-----------------------------------------------------------------------------
(* Calls: one step each                                                    *)

Next1(name) == up /\ work # <<>> /\ Head(work).call = name

Arg == Head(work).arg

Rest == Tail(work)

\* An early return with an error leaves the handler; only the last call of
\* new_qc_aggregated and new_tc_aggregated is made all the same.
Abandoned ==
  IF Rest # <<>> /\ Rest[Len(Rest)].call = "always_process_certificates"
  THEN <<Rest[Len(Rest)]>> ELSE <<>>

NeedFetch(q) ==
  Round[q] >= Round[mem.root] /\ q \notin mem.qcs /\ q \notin mem.tree

QCBlockExist(q) ==
  Round[q] >= Round[mem.root] /\ q \notin mem.qcs /\ q \in mem.tree

\* The blocks fetch_quorum_cert asks peers for, lowest round first.
ToFetch(q) ==
  LET missing == {a \in Ancestors[q] :
                    a \notin mem.tree /\ Round[a] > Round[mem.root]}
  IN CHOOSE s \in [1 .. Cardinality(missing) -> missing] :
       \A m, n \in DOMAIN s : m < n => Round[s[m]] < Round[s[n]]

\* BlockStore::insert_quorum_cert
InsertQuorumCert ==
  /\ Next1("insert_quorum_cert")
  /\ work' =
       (IF NeedFetch(Arg)
        THEN [n \in DOMAIN ToFetch(Arg) |->
                Call("insert_fetched", ToFetch(Arg)[n])]
             \o <<Call("insert_single_quorum_cert", Arg)>>
        ELSE IF QCBlockExist(Arg)
        THEN <<Call("insert_single_quorum_cert", Arg)>>
        ELSE <<>>)
       \o <<Call("commit", Arg)>> \o Rest
  /\ UNCHANGED <<certified, up, mem, db>>

\* No peer answers BlockRetriever::request_block.
RetrievalFails ==
  /\ Next1("insert_quorum_cert")
  /\ NeedFetch(Arg)
  /\ work' = Abandoned
  /\ UNCHANGED <<certified, up, mem, db>>

\* Mutant of InsertFetched: the block's own certificate is not inserted.
InsertFetchedBlockOnly ==
  /\ Next1("insert_fetched")
  /\ work' = <<Call("execute_and_insert_block", Arg)>> \o Rest
  /\ UNCHANGED <<certified, up, mem, db>>

\* One iteration of fetch_quorum_cert's loop over the pending blocks
InsertFetched ==
  /\ Next1("insert_fetched")
  /\ work' = (IF Arg \in mem.tree \/ Round[Arg] <= Round[mem.root]
              THEN <<>>
              ELSE <<Call("insert_single_quorum_cert", Parent[Arg]),
                     Call("execute_and_insert_block", Arg),
                     Call("try_commit", Parent[Arg])>>)
             \o Rest
  /\ UNCHANGED <<certified, up, mem, db>>

\* Mutant of WithQuorumCert: the highest certificate is not raised.
WithCommitCert(m, q) ==
  [m EXCEPT !.qcs = @ \cup {q},
            !.hcc = IF CommitRound(q) > CommitRound(@) THEN q ELSE @]

\* insert_single_quorum_cert and BlockTree::insert_quorum_cert
WithQuorumCert(m, q) ==
  [m EXCEPT !.qcs = @ \cup {q},
            !.hqc = IF Round[q] > Round[@] THEN q ELSE @,
            !.hcc = IF CommitRound(q) > CommitRound(@) THEN q ELSE @]

InsertSingleQuorumCert ==
  /\ Next1("insert_single_quorum_cert")
  /\ IF Arg \in mem.tree
     THEN /\ db' = [db EXCEPT !.qcs = @ \cup {Arg}]
          /\ mem' = WithQuorumCert(mem, Arg)
          /\ work' = Rest
     ELSE /\ work' = Abandoned
          /\ UNCHANGED <<mem, db>>
  /\ UNCHANGED <<certified, up>>

\* Executor::execute_block needs the parent's result.  When it is missing,
\* execute_and_insert_block re-executes path_from_root(parent): TreeExecuted
\* says that every block with such a path is executed, so this fails too.
Executable(b) == Parent[b] = db.root \/ Parent[b] \in mem.cache

\* execute_and_insert_block, up to the early return for a known block
Inserts(b) ==
  IF Round[mem.root] < Round[b] /\ Executable(b)
  THEN /\ db' = [db EXCEPT !.blocks = @ \cup {b}]
       /\ mem' = [mem EXCEPT !.tree = @ \cup {b}, !.cache = @ \cup {b}]
       /\ work' = Rest
  ELSE /\ work' = Abandoned
       /\ UNCHANGED <<mem, db>>

ExecuteAndInsertBlock ==
  /\ Next1("execute_and_insert_block")
  /\ Inserts(Arg)
  /\ UNCHANGED <<certified, up>>

\* The end of ensure_round_and_sync_up, then process_proposal
ProcessProposal ==
  /\ Next1("process_proposal")
  /\ IF Round[Arg] = mem.round /\ Arg \notin mem.tree
     THEN Inserts(Arg)
     ELSE /\ work' = Rest
          /\ UNCHANGED <<mem, db>>
  /\ UNCHANGED <<certified, up>>

\* BlockTree::path_from_root; the empty set where the code gives up.
PathFromRoot(g) ==
  LET path == {a \in Ancestors[g] : Round[a] > Round[mem.root]}
  IN IF Extends(g, mem.root) /\ path \subseteq mem.tree THEN path ELSE {}

\* BlockStore::commit up to save_ledger_blocks, from insert_quorum_cert or,
\* with its error logged and dropped, from fetch_quorum_cert
Commit ==
  /\ Next1("commit") \/ Next1("try_commit")
  /\ LET g == CommitInfo(Arg)
     IN IF CommitRound(Arg) <= Round[mem.root]
        THEN work' = Rest /\ UNCHANGED db
        ELSE IF g \notin mem.tree
        THEN /\ work' = IF Head(work).call = "commit" THEN Abandoned ELSE Rest
             /\ UNCHANGED db
        ELSE /\ db' = [db EXCEPT !.ledger = @ \cup PathFromRoot(g)]
             /\ work' = <<Call("commit_blocks", g), Call("prune_tree", g)>>
                        \o Rest
  /\ UNCHANGED <<certified, up, mem>>

\* What Executor::commit_blocks unwraps and asserts of the blocks to commit.
CommitBlocksAsserts(g) ==
  /\ PathFromRoot(g) # {}
  /\ PathFromRoot(g) \subseteq mem.cache
  /\ PathFromRoot(g) \subseteq db.ledger
  /\ g \in db.qcs

\* Mutant of CommitBlocks: the speculation cache is emptied.
CommitBlocksAndReset ==
  /\ Next1("commit_blocks") /\ CommitBlocksAsserts(Arg)
  /\ db' = [db EXCEPT !.root = Arg] /\ mem' = [mem EXCEPT !.cache = {}]
  /\ work' = Rest
  /\ UNCHANGED <<certified, up>>

\* Executor::commit_blocks writes the ledger, SpeculationCache::prune
CommitBlocks ==
  /\ Next1("commit_blocks")
  /\ CommitBlocksAsserts(Arg)
  /\ db' = [db EXCEPT !.root = Arg]
  /\ mem' = [mem EXCEPT !.cache = {b \in @ \ {Arg} : Extends(b, Arg)}]
  /\ work' = Rest
  /\ UNCHANGED <<certified, up>>

\* Mutant of BlocksToPrune: the new root goes with the old ones.
BlocksToPruneWithRoot(g) ==
  {b \in mem.tree : Extends(b, mem.root) /\ (b = g \/ ~Extends(b, g))}

\* BlockTree::find_blocks_to_prune
BlocksToPrune(g) ==
  {b \in mem.tree : Extends(b, mem.root) /\ ~Extends(b, g)}

\* Mutant of WithoutOldest: remove_block leaves the certificate behind.
WithoutOldestBlocks(buffer, m) ==
  LET n == IF Len(buffer) > MaxPruned THEN Len(buffer) - MaxPruned ELSE 0
  IN [m EXCEPT !.pruned = SubSeq(buffer, n + 1, Len(buffer)),
               !.tree = @ \ {buffer[k] : k \in 1 .. n}]

\* process_pruned_blocks: the oldest blocks of the buffer leave the tree.
WithoutOldest(buffer, m) ==
  LET n == IF Len(buffer) > MaxPruned THEN Len(buffer) - MaxPruned ELSE 0
      gone == {buffer[k] : k \in 1 .. n}
  IN [m EXCEPT !.pruned = SubSeq(buffer, n + 1, Len(buffer)),
               !.tree = @ \ gone, !.qcs = @ \ gone]

Orderings(S) ==
  {s \in [1 .. Cardinality(S) -> S] : \A m, n \in DOMAIN s : s[m] = s[n] => m = n}

\* Mutant of PruneTree: the ledger blocks are deleted too.
PruneTreeAndLedger ==
  /\ Next1("prune_tree")
  /\ LET gone == BlocksToPrune(Arg)
     IN /\ db' = [db EXCEPT !.blocks = @ \ gone, !.qcs = @ \ gone,
                            !.ledger = @ \ gone]
        /\ \E order \in Orderings(gone) :
             mem' = WithoutOldest(mem.pruned \o order, [mem EXCEPT !.root = Arg])
  /\ work' = Rest
  /\ UNCHANGED <<certified, up>>

\* BlockStore::prune_tree; a failure to delete from the database is logged.
PruneTree ==
  /\ Next1("prune_tree")
  /\ LET gone == BlocksToPrune(Arg)
     IN /\ \/ db' = [db EXCEPT !.blocks = @ \ gone, !.qcs = @ \ gone]
           \/ UNCHANGED db
        /\ \E order \in Orderings(gone) :
             mem' = WithoutOldest(mem.pruned \o order, [mem EXCEPT !.root = Arg])
  /\ work' = Rest
  /\ UNCHANGED <<certified, up>>

\* Mutant of InsertTimeoutCertificate: it is not persisted.
ReplaceTimeoutCertificate ==
  /\ Next1("insert_timeout_certificate")
  /\ mem' = [mem EXCEPT !.htc = Max(@, Arg)]
  /\ work' = Rest
  /\ UNCHANGED <<certified, up, db>>

InsertTimeoutCertificate ==
  /\ Next1("insert_timeout_certificate")
  /\ IF Arg > mem.htc
     THEN /\ db' = [db EXCEPT !.tc = Arg]
          /\ mem' = [mem EXCEPT !.htc = Arg]
     ELSE UNCHANGED <<mem, db>>
  /\ work' = Rest
  /\ UNCHANGED <<certified, up>>

\* RoundState::process_certificates
ProcessCertificates ==
  /\ Next1("process_certificates") \/ Next1("always_process_certificates")
  /\ mem' = [mem EXCEPT !.round = Max(@, HighestRound(LocalSyncInfo) + 1)]
  /\ work' = Rest
  /\ UNCHANGED <<certified, up, db>>

Next ==
  \/ Crash
  \/ Restart
  \/ \E i \in SyncInfos : ReceiveSyncInfo(i)
  \/ \E b \in Blocks, i \in SyncInfos : ReceiveProposal(b, i)
  \/ \E b \in Blocks : GenerateNilBlock(b)
  \/ \E q \in certified : NewQCAggregated(q)
  \/ \E r \in TimeoutRounds : NewTCAggregated(r)
  \/ InsertQuorumCert
  \/ RetrievalFails
  \/ InsertFetched
  \/ InsertSingleQuorumCert
  \/ ExecuteAndInsertBlock
  \/ ProcessProposal
  \/ Commit
  \/ CommitBlocks
  \/ PruneTree
  \/ InsertTimeoutCertificate
  \/ ProcessCertificates

Spec == Init /\ [][Next]_vars

-----------------------------------------------------------------------------
(* Properties                                                              *)

\* Type invariant.
TypeOK ==
  /\ certified \subseteq Blocks
  /\ up \in BOOLEAN
  /\ mem.tree \subseteq Blocks /\ mem.qcs \subseteq mem.tree
  /\ {mem.root, mem.hqc, mem.hcc} \subseteq certified
  /\ mem.htc \in Nat /\ mem.round \in Nat
  /\ mem.cache \subseteq mem.tree
  /\ Len(mem.pruned) <= MaxPruned
  /\ db.blocks \subseteq Blocks /\ db.qcs \subseteq certified
  /\ db.ledger \subseteq Blocks /\ db.root \in certified /\ db.tc \in Nat

\* Whatever instant the process stops at, StorageWriteProxy::start finds the
\* root, its certificate and its ledger info in ConsensusDB.  If it did not,
\* the RecoveryManager would take over, whose sync_to is a no-op.
AlwaysRecoverable == FindRoot(db)

\* Nothing commit_blocks unwraps or asserts is missing: the path from the
\* root to the committed block is in the tree, executed and saved, and the
\* committed block's certificate is in ConsensusDB.
CommitNeverPanics ==
  up /\ work # <<>> /\ Head(work).call = "commit_blocks"
    => CommitBlocksAsserts(Head(work).arg)

\* A restart does not set the node back: ConsensusDB holds the highest
\* certificates the node has acted on.
RestartKeepsCertificates ==
  up => /\ Recovered(db).hqc = mem.hqc
        /\ Recovered(db).htc = mem.htc
        /\ CommitRound(Recovered(db).hcc) = CommitRound(mem.hcc)

\* The executor has the result of every block that descends from its root.
TreeExecuted ==
  up => \A b \in mem.tree : b # db.root /\ Extends(b, db.root) => b \in mem.cache

\* The highest certified block is linked to the root, so the leader can build
\* on it (generate_proposal, broadcast_pivot_decision: "HQC already pruned").
HqcOnTree == up => mem.hqc = mem.root \/ PathFromRoot(mem.hqc) # {}

\* process_block_retrieval can serve every ancestor of the certificates the
\* node advertises: pruning removes a block from the tree only after
\* save_ledger_blocks has kept it or it has lost.
CanServeChain ==
  up => Ancestors[mem.hqc] \ {Genesis} \subseteq mem.tree \cup db.ledger

=============================================================================
