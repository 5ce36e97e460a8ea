-------------------------- MODULE BlockStoreProofs --------------------------
(***************************************************************************)
(* BlockStore for every tree of blocks and every set of them that comes to *)
(* be certified: wherever the process stops, the database holds what a     *)
(* restart needs; a commit finds all it asserts; the highest certificates  *)
(* survive a restart, stay linked to the root and can be served.           *)
(***************************************************************************)
EXTENDS BlockStoreCalls

-----------------------------------------------------------------------------
(* insert_single_quorum_cert                                               *)

\* A certificate of a block of the tree goes to memory and disk.
LEMMA CertInserted ==
  ASSUME Types, StoreOK, NEW q \in certified, q \in mem.tree, certified' = certified,
         up' \in BOOLEAN, db' = [db EXCEPT !.qcs = @ \cup {q}], mem' = WithQuorumCert(mem, q)
  PROVE  /\ Types' /\ StoreOK'
         /\ Round[mem.hqc] <= Round[mem'.hqc] /\ Round[q] <= Round[mem'.hqc]
         /\ Held \subseteq Held' /\ q \in Held'
<1>1. /\ q \in Blocks /\ mem.hqc \in Blocks /\ mem.hcc \in Blocks /\ mem.root \in Blocks
      /\ Round[q] \in Nat /\ Round[mem.hqc] \in Nat /\ Round[mem.root] \in Nat
      /\ CommitRound(q) \in Nat /\ CommitRound(mem.hcc) \in Nat
  BY BlockFacts, CommitRounds, Zenon DEF Types, Mems
<1>2. /\ db'.qcs = db.qcs \cup {q}
      /\ db'.blocks = db.blocks /\ db'.tc = db.tc /\ db'.ledger = db.ledger
      /\ db'.root = db.root /\ db' \in Dbs
  BY <1>1, Zenon DEF Types, Dbs
<1>3. /\ mem'.tree = mem.tree /\ mem'.root = mem.root /\ mem'.qcs = mem.qcs \cup {q}
      /\ mem'.htc = mem.htc /\ mem'.pruned = mem.pruned /\ mem'.cache = mem.cache
      /\ mem'.hqc = (IF Round[q] > Round[mem.hqc] THEN q ELSE mem.hqc)
      /\ mem'.hcc = (IF CommitRound(q) > CommitRound(mem.hcc) THEN q ELSE mem.hcc)
      /\ mem' \in Mems
  BY <1>1, Zenon DEF Types, Mems, WithQuorumCert
<1>4. Types' /\ Final' = Final
  BY <1>2, <1>3, SameCertified, Zenon DEF Types
<1>5. /\ Round[mem.hqc] <= Round[mem'.hqc] /\ Round[q] <= Round[mem'.hqc]
      /\ CommitRound(mem.hcc) <= CommitRound(mem'.hcc)
      /\ CommitRound(q) <= CommitRound(mem'.hcc)
      /\ Round[mem'.hqc] \in Nat /\ CommitRound(mem'.hcc) \in Nat
  BY <1>1, <1>3
<1>6. RootsOK'
  BY <1>2, <1>3, <1>4 DEF StoreOK, RootsOK
<1>7. TreeOK'
  <2>1. ASSUME NEW b \in mem.tree PROVE b = Genesis \/ Round[Parent[b]] <= Round[mem'.hqc]
    <3>1. Round[Parent[b]] \in Nat
      BY BlockFacts, Zenon DEF Types, Mems
    <3> QED
      BY <1>1, <1>5, <3>1 DEF StoreOK, TreeOK
  <2> QED
    BY <1>2, <1>3, <2>1, Zenon DEF StoreOK, TreeOK
<1>8. PrunedOK'
  BY <1>3, Zenon DEF StoreOK, PrunedOK
<1>9. DiskOK'
  <2>1. ASSUME NEW c \in db.qcs, c \in mem.tree, Commits(c), CommitInfo(c) = db.root
        PROVE  c \in db'.qcs /\ c \in mem'.tree
    BY <1>2, <1>3, <2>1, Zenon
  <2> QED
    BY <1>2, <1>3, <2>1, Zenon DEF StoreOK, DiskOK
<1>10. QcsOK'
  <2>1. /\ mem'.qcs \subseteq mem'.tree \cap certified'
        /\ \A c \in mem'.qcs : Round[c] > Round[mem'.root] => c \in db'.qcs
        /\ db'.qcs \subseteq certified'
    BY <1>2, <1>3, Zenon DEF StoreOK, QcsOK
  <2>2. ASSUME NEW c \in db'.qcs
        PROVE  Round[c] <= Round[mem'.hqc] /\ CommitRound(c) <= CommitRound(mem'.hcc)
    <3>1. c \in Blocks /\ Round[c] \in Nat /\ CommitRound(c) \in Nat
      BY <2>1, <1>4, BlockFacts, CommitRounds, Zenon DEF Types
    <3>2. CASE c = q
      BY <1>5, <3>2, Zenon
    <3>3. CASE c \in db.qcs
      BY <1>1, <1>5, <3>1, <3>3 DEF StoreOK, QcsOK
    <3> QED
      BY <1>2, <3>2, <3>3, Zenon
  <2>3. /\ mem'.hqc \in mem'.tree \cap certified'
        /\ mem'.hqc = Genesis \/ mem'.hqc \in db'.qcs
        /\ mem'.hcc \in certified'
    BY <1>2, <1>3, Zenon DEF StoreOK, QcsOK
  <2>4. CommitRound(mem'.hcc) > Round[db'.root] => mem'.hcc \in db'.qcs \cap mem'.tree
    BY <1>2, <1>3, Zenon DEF StoreOK, QcsOK
  <2>5. ASSUME NEW a \in Final, Round[a] > Round[mem.root], Round[a] <= Round[mem'.hqc]
        PROVE  a \in db'.qcs
    <3>1. a \in Blocks /\ a \in certified /\ Round[a] \in Nat
      BY FinalFacts, BlockFacts, Zenon
    <3>2. CASE Round[a] <= Round[mem.hqc]
      BY <1>2, <2>5, <3>2, Zenon DEF StoreOK, QcsOK
    <3>3. CASE Round[a] > Round[mem.hqc]
      <4>1. mem'.hqc = q /\ Round[a] <= Round[q]
        BY <1>1, <1>3, <2>5, <3>1, <3>3
      <4>2. a \in Ancestors[q]
        BY <4>1, FinalFacts, Zenon DEF Extends
      <4>3. SUFFICES ASSUME a # q PROVE FALSE
        BY <1>2, Zenon
      <4>4. q # Genesis
        BY <1>1, <3>1, <3>3, <4>1, GenesisFacts
      <4>5. a \in Ancestors[Parent[q]] /\ Parent[q] \in Blocks /\ Round[Parent[q]] \in Nat
        BY <1>1, <4>2, <4>3, <4>4, BlockFacts, Zenon
      <4>6. Round[a] <= Round[Parent[q]]
        BY <3>1, <4>5, AncestorRound
      <4>7. Round[Parent[q]] <= Round[mem.hqc]
        BY <4>4, Zenon DEF StoreOK, TreeOK
      <4> QED
        BY <1>1, <3>1, <3>3, <4>5, <4>6, <4>7
    <3> QED
      BY <1>1, <3>1, <3>2, <3>3
  <2> QED
    BY <1>3, <1>4, <2>1, <2>2, <2>3, <2>4, <2>5, Zenon DEF QcsOK
<1>11. Held \subseteq Held' /\ q \in Held'
  BY <1>2, <1>3, Zenon DEF Held
<1> QED
  BY <1>4, <1>5, <1>6, <1>7, <1>8, <1>9, <1>10, <1>11, Zenon DEF StoreOK

\* A step that adds to the certificates held and leaves the rest of a plain
\* program to run.
LEMMA NextCall ==
  ASSUME IInv, Types', StoreOK', certified' = certified, up' = up, db'.root = mem'.root,
         NEW name, Next1(name), name # "commit_blocks", name # "prune_tree",
         Held \subseteq Held', Round[mem.hqc] <= Round[mem'.hqc], Round[mem'.hqc] \in Nat,
         Head(work).call \in Inserting => Arg \in Held' /\ Round[Arg] <= Round[mem'.hqc],
         work' = Rest
  PROVE  IInv'
<1> HIDE DEF Calls
<1> DEFINE H == Held'
<1> DEFINE h == Round[mem'.hqc]
<1>1. /\ up /\ work \in Seq(Calls) /\ work # <<>>
      /\ Plain(work, certified, Held, Round[mem.hqc])
      /\ Round[mem.hqc] \in Nat /\ certified \in SUBSET Blocks
  BY Running, Zenon
<1>2. Held \subseteq H /\ Round[mem.hqc] <= h /\ h \in Nat
  BY Zenon
<1>3. Head(work).call \in Inserting => Head(work).arg \in H /\ Round[Head(work).arg] <= h
  BY Zenon DEF Arg
<1> HIDE DEF H, h
<1>4. Plain(work, certified, H, h)
  BY <1>1, <1>2, PlainMore, Zenon
<1>5. Tail(work) \in Seq(Calls) /\ Plain(Tail(work), certified, H, h)
  BY <1>1, <1>2, <1>3, <1>4, PlainTail, Zenon
<1>6. WorkOK'
  BY <1>1, <1>5, PlainWork, Zenon DEF H, h, Rest
<1> QED
  BY <1>6, Zenon DEF IInv

\* insert_single_quorum_cert saves the certificate, then puts it in the tree.
LEMMA InsertSingleQuorumCertKeeps ==
  ASSUME IInv, InsertSingleQuorumCert
  PROVE  IInv'
<1> HIDE DEF Calls
<1>1. /\ up /\ work \in Seq(Calls) /\ work # <<>> /\ db.root = mem.root
      /\ CallOK(work, 1, certified, Held, Round[mem.hqc]) /\ Head(work) = work[1]
  BY Running, Zenon DEF InsertSingleQuorumCert
<1>2. Head(work).call = "insert_single_quorum_cert" /\ Head(work).arg = Arg
  BY Zenon DEF InsertSingleQuorumCert, Next1, Arg
<1>3. Arg \in certified
  BY <1>1, <1>2, Zenon DEF CallOK, Inserting
<1>4. CASE Arg \in mem.tree
  <2>1. /\ certified' = certified /\ up' = up /\ work' = Rest /\ up' \in BOOLEAN
        /\ db' = [db EXCEPT !.qcs = @ \cup {Arg}] /\ mem' = WithQuorumCert(mem, Arg)
        /\ Types /\ StoreOK
    BY <1>4, Zenon DEF InsertSingleQuorumCert, IInv, Types
  <2>2. /\ Types' /\ StoreOK' /\ Held \subseteq Held' /\ Arg \in Held'
        /\ Round[mem.hqc] <= Round[mem'.hqc] /\ Round[Arg] <= Round[mem'.hqc]
    BY <1>3, <1>4, <2>1, CertInserted, Zenon
  <2>3. db'.root = db.root /\ mem'.root = mem.root
    BY <2>1, Zenon DEF WithQuorumCert, Types, Dbs, Mems
  <2>4. Round[mem'.hqc] \in Nat
    BY <2>2, BlockFacts, Zenon DEF Types, Mems
  <2>5. Next1("insert_single_quorum_cert")
    BY Zenon DEF InsertSingleQuorumCert
  <2> QED
    BY <1>1, <2>1, <2>2, <2>3, <2>4, <2>5, NextCall, Zenon
<1>5. CASE Arg \notin mem.tree
  <2>1. Abandoned \in Seq(Calls) /\ Plain(Abandoned, certified, Held, Round[mem.hqc])
    BY <1>1, AbandonedPlain, Zenon
  <2>2. work' = Abandoned /\ certified' = certified /\ up' = up /\ mem' = mem /\ db' = db
    BY <1>5, Zenon DEF InsertSingleQuorumCert
  <2> QED
    BY <1>1, <2>1, <2>2, PlainStep, Zenon
<1> QED
  BY <1>4, <1>5, Zenon

-----------------------------------------------------------------------------
(* execute_and_insert_block and process_proposal                           *)

\* A block whose parent is executed joins the tree.
LEMMA BlockInserted ==
  ASSUME Types, StoreOK, db.root = mem.root, NEW b \in Blocks \ {Genesis},
         Round[mem.root] < Round[b], Executable(b), Round[Parent[b]] <= Round[mem.hqc],
         certified' = certified, up' \in BOOLEAN, db' = [db EXCEPT !.blocks = @ \cup {b}],
         mem' = [mem EXCEPT !.tree = @ \cup {b}, !.cache = @ \cup {b}]
  PROVE  /\ Types' /\ StoreOK' /\ Held \subseteq Held'
         /\ mem'.hqc = mem.hqc /\ db'.root = mem'.root
<1>1. /\ db'.blocks = db.blocks \cup {b}
      /\ db'.qcs = db.qcs /\ db'.tc = db.tc /\ db'.ledger = db.ledger
      /\ db'.root = db.root /\ db' \in Dbs
  BY Zenon DEF Types, Dbs
<1>2. /\ mem'.tree = mem.tree \cup {b} /\ mem'.cache = mem.cache \cup {b}
      /\ mem'.root = mem.root /\ mem'.qcs = mem.qcs /\ mem'.hqc = mem.hqc
      /\ mem'.hcc = mem.hcc /\ mem'.htc = mem.htc /\ mem'.pruned = mem.pruned
      /\ mem' \in Mems
  BY Zenon DEF Types, Mems
<1>3. IsFiniteSet(mem.tree \cup {b})
  BY FS_AddElement, Zenon DEF Types
<1>4. Types' /\ Final' = Final
  BY <1>1, <1>2, <1>3, SameCertified, Zenon DEF Types
<1>5. /\ Parent[b] \in mem.tree /\ Parent[b] \in Blocks /\ Extends(Parent[b], mem.root)
      /\ mem.root \in Blocks /\ Round[mem.root] \in Nat /\ Round[b] \in Nat
  <2>1. mem.root \in Blocks /\ Round[mem.root] \in Nat /\ Round[b] \in Nat /\ Parent[b] \in Blocks
    BY BlockFacts, Zenon DEF Types, Mems
  <2>2. CASE Parent[b] = db.root
    BY <2>1, <2>2, BlockFacts, Zenon DEF StoreOK, RootsOK, Extends
  <2>3. CASE Parent[b] \in mem.cache
    BY <2>1, <2>3, Zenon DEF StoreOK, TreeOK
  <2> QED
    BY <2>1, <2>2, <2>3, Zenon DEF Executable
<1>6. Extends(b, mem.root) /\ b # mem.root /\ Ancestors[b] = {b} \cup Ancestors[Parent[b]]
  BY <1>5, BlockFacts DEF Extends
<1>7. RootsOK' /\ PrunedOK'
  BY <1>1, <1>2, <1>4 DEF StoreOK, RootsOK, PrunedOK
<1>8. TreeOK'
  <2>1. ASSUME NEW d \in mem'.tree, Extends(d, mem.root)
        PROVE  /\ \A a \in Ancestors[d] : Round[a] > Round[mem.root] => a \in mem'.tree
               /\ d = Genesis \/ d \in db'.blocks
    <3>1. CASE d = b
      BY <1>1, <1>2, <1>5, <1>6, <3>1, Zenon DEF StoreOK, TreeOK
    <3>2. CASE d \in mem.tree
      BY <1>1, <1>2, <2>1, <3>2, Zenon DEF StoreOK, TreeOK
    <3> QED
      BY <1>2, <3>1, <3>2, Zenon
  <2>2. \A d \in db'.blocks : Extends(d, mem.root) => d \in mem'.tree
    BY <1>1, <1>2, Zenon DEF StoreOK, TreeOK
  <2>3. \A d \in mem'.tree : d = Genesis \/ Round[Parent[d]] <= Round[mem.hqc]
    BY <1>2, Zenon DEF StoreOK, TreeOK
  <2>4. mem'.cache = {d \in mem'.tree : d # db.root /\ Extends(d, db.root)}
    BY <1>2, <1>6, Zenon DEF StoreOK, TreeOK
  <2> QED
    BY <1>1, <1>2, <2>1, <2>2, <2>3, <2>4, Zenon DEF TreeOK
<1>9. QcsOK'
  BY <1>1, <1>2, <1>4 DEF StoreOK, QcsOK
<1>10. DiskOK'
  BY <1>1, <1>2, Zenon DEF StoreOK, DiskOK
<1>11. Held \subseteq Held'
  BY <1>1, <1>2, Zenon DEF Held
<1> QED
  BY <1>1, <1>2, <1>4, <1>7, <1>8, <1>9, <1>10, <1>11, Zenon DEF StoreOK

\* execute_and_insert_block after its caller has made the checks it relies on
LEMMA InsertsKeeps ==
  ASSUME IInv, NEW name \in {"execute_and_insert_block", "process_proposal"}, Next1(name),
         Inserts(Arg), certified' = certified, up' = up
  PROVE  IInv'
<1> HIDE DEF Calls
<1>1. /\ up /\ work \in Seq(Calls) /\ work # <<>> /\ db.root = mem.root
      /\ CallOK(work, 1, certified, Held, Round[mem.hqc]) /\ Head(work) = work[1]
      /\ Round[mem.hqc] \in Nat
  BY Running, Zenon
<1>2. Head(work).call = name /\ Head(work).arg = Arg
  BY Zenon DEF Next1, Arg
<1>3. Arg \in Blocks \ {Genesis} /\ Round[Parent[Arg]] <= Round[mem.hqc]
  BY <1>1, <1>2, NothingPromised, Zenon DEF CallOK, Inserting
<1>4. CASE Round[mem.root] < Round[Arg] /\ Executable(Arg)
  <2>1. /\ work' = Rest
        /\ db' = [db EXCEPT !.blocks = @ \cup {Arg}]
        /\ mem' = [mem EXCEPT !.tree = @ \cup {Arg}, !.cache = @ \cup {Arg}]
    BY <1>4, Zenon DEF Inserts
  <2>4. Types /\ StoreOK
    BY Zenon DEF IInv
  <2>5. up' \in BOOLEAN
    BY <2>4, Zenon DEF Types
  <2>2. /\ Types' /\ StoreOK' /\ Held \subseteq Held'
        /\ mem'.hqc = mem.hqc /\ db'.root = mem'.root
    BY <1>1, <1>3, <1>4, <2>1, <2>4, <2>5, BlockInserted, Zenon
  <2>3. Head(work).call \notin Inserting
    BY <1>2, Zenon DEF Inserting
  <2> QED
    BY <1>1, <2>1, <2>2, <2>3, NextCall
<1>5. CASE ~ (Round[mem.root] < Round[Arg] /\ Executable(Arg))
  <2>1. Abandoned \in Seq(Calls) /\ Plain(Abandoned, certified, Held, Round[mem.hqc])
    BY <1>1, AbandonedPlain, Zenon
  <2>2. work' = Abandoned /\ mem' = mem /\ db' = db
    BY <1>5, Zenon DEF Inserts
  <2> QED
    BY <1>1, <2>1, <2>2, PlainStep, Zenon
<1> QED
  BY <1>4, <1>5, Zenon

\* execute_and_insert_block saves the block, then puts it in the tree.
LEMMA ExecuteAndInsertBlockKeeps ==
  ASSUME IInv, ExecuteAndInsertBlock
  PROVE  IInv'
  BY InsertsKeeps, Zenon DEF ExecuteAndInsertBlock

\* A call that changes nothing and promises nothing.
LEMMA QuietCall ==
  ASSUME IInv, NEW name, Next1(name), name # "commit_blocks", name # "prune_tree",
         name \notin Inserting, certified' = certified, up' = up, mem' = mem, db' = db,
         work' = Rest
  PROVE  IInv'
<1> HIDE DEF Calls
<1>1. db.root = mem.root /\ Round[mem.hqc] \in Nat
  BY Running, Zenon
<1>2. Types' /\ StoreOK' /\ Held' = Held
  <2>1. up' \in BOOLEAN
    BY Zenon DEF IInv, Types
  <2> QED
    BY <2>1, SameStore, Zenon
<1>3. Head(work).call \notin Inserting
  BY Zenon DEF Next1
<1>4. Held \subseteq Held' /\ Round[mem.hqc] <= Round[mem'.hqc] /\ Round[mem'.hqc] \in Nat
  BY <1>1, <1>2
<1> QED
  BY <1>1, <1>2, <1>3, <1>4, NextCall, Zenon

\* process_proposal inserts a block of the current round that is not there yet.
LEMMA ProcessProposalKeeps ==
  ASSUME IInv, ProcessProposal
  PROVE  IInv'
<1>1. Next1("process_proposal") /\ certified' = certified /\ up' = up
  BY Zenon DEF ProcessProposal
<1>2. CASE Round[Arg] = mem.round /\ Arg \notin mem.tree
  BY <1>1, <1>2, InsertsKeeps, Zenon DEF ProcessProposal
<1>3. CASE ~ (Round[Arg] = mem.round /\ Arg \notin mem.tree)
  <2>1. work' = Rest /\ mem' = mem /\ db' = db
    BY <1>3, Zenon DEF ProcessProposal
  <2> QED
    BY <1>1, <2>1, QuietCall, Zenon DEF Inserting
<1> QED
  BY <1>2, <1>3, Zenon

-----------------------------------------------------------------------------
(* commit                                                                  *)

\* What a certificate that is held commits above the root is certified on disk.
LEMMA CommitFinal ==
  ASSUME Types, StoreOK, NEW q \in Held, CommitRound(q) > Round[mem.root]
  PROVE  /\ Commits(q) /\ q \in db.qcs /\ q \in mem.tree
         /\ CommitInfo(q) \in Blocks /\ CommitInfo(q) \in Final /\ CommitInfo(q) \in db.qcs
         /\ Round[CommitInfo(q)] = CommitRound(q) /\ CommitRound(q) < Round[mem.hqc]
<1>1. q \in certified /\ q \in Blocks /\ mem.root \in Blocks /\ mem.hqc \in Blocks
  BY Zenon DEF Held, Types, Mems
<1>2. /\ Round[q] \in Nat /\ Round[mem.root] \in Nat /\ Round[mem.hqc] \in Nat
      /\ CommitRound(q) \in Nat /\ CommitInfo(q) \in Blocks /\ CommitRound(q) <= Round[q]
  BY <1>1, BlockFacts, CommitRounds, Zenon
<1>3. Commits(q) /\ CommitRound(q) < Round[q]
  BY <1>1, <1>2, CommitRounds
<1>4. q \in mem.tree /\ q \in db.qcs
  BY <1>2 DEF Held
<1>5. Round[q] <= Round[mem.hqc]
  BY <1>4, Zenon DEF StoreOK, QcsOK
<1>6. CommitInfo(q) \in Final /\ Round[CommitInfo(q)] = CommitRound(q)
  BY <1>1, <1>3, Zenon DEF Final, CommitRound
<1>7. CommitRound(q) < Round[mem.hqc] /\ CommitRound(q) <= Round[mem.hqc]
  BY <1>2, <1>3, <1>5
<1>8. CommitInfo(q) \in db.qcs
  BY <1>6, <1>7, Zenon DEF StoreOK, QcsOK
<1> QED
  BY <1>2, <1>3, <1>4, <1>6, <1>7, <1>8, Zenon

\* save_ledger_blocks adds to the ledger.
LEMMA LedgerSaved ==
  ASSUME Types, StoreOK, NEW P \in SUBSET Blocks, certified' = certified, up' \in BOOLEAN,
         db' = [db EXCEPT !.ledger = @ \cup P], mem' = mem
  PROVE  /\ Types' /\ StoreOK' /\ Held' = Held
         /\ db'.root = db.root /\ db'.qcs = db.qcs /\ db'.ledger = db.ledger \cup P
<1>1. /\ db'.blocks = db.blocks /\ db'.qcs = db.qcs /\ db'.tc = db.tc
      /\ db'.root = db.root /\ db' \in Dbs /\ db'.ledger = db.ledger \cup P
  BY Zenon DEF Types, Dbs
<1>2. Types' /\ Final' = Final
  BY <1>1, SameCertified, Zenon DEF Types
<1>3. RootsOK' /\ PrunedOK'
  BY <1>1, <1>2 DEF StoreOK, RootsOK, PrunedOK
<1>4. TreeOK'
  BY <1>1, Zenon DEF StoreOK, TreeOK
<1>5. QcsOK'
  BY <1>1, <1>2, Zenon DEF StoreOK, QcsOK
<1>6. DiskOK'
  BY <1>1, Zenon DEF StoreOK, DiskOK
<1>7. Held' = Held
  BY <1>1, Zenon DEF Held
<1> QED
  BY <1>1, <1>2, <1>3, <1>4, <1>5, <1>6, <1>7, Zenon DEF StoreOK

\* commit runs save_ledger_blocks and leaves commit_blocks and prune_tree to be
\* called, or has nothing to do.
LEMMA CommitKeeps ==
  ASSUME IInv, Commit
  PROVE  IInv'
<1> HIDE DEF Calls
<1>1. PICK name \in {"commit", "try_commit"} : Next1(name)
  BY Zenon DEF Commit
<1>2. /\ up /\ work \in Seq(Calls) /\ work # <<>> /\ db.root = mem.root
      /\ CallOK(work, 1, certified, Held, Round[mem.hqc]) /\ Head(work) = work[1]
      /\ Plain(work, certified, Held, Round[mem.hqc])
      /\ Round[mem.hqc] \in Nat /\ certified \in SUBSET Blocks
  BY <1>1, Running, Zenon
<1>3. Head(work).call = name /\ Head(work).arg = Arg
  BY <1>1, Zenon DEF Next1, Arg
<1>4. Arg \in Held /\ Arg \in Blocks
  BY <1>2, <1>3, NothingPromised, Zenon DEF CallOK, Inserting
<1>5. certified' = certified /\ up' = up /\ mem' = mem /\ Types /\ StoreOK /\ up' \in BOOLEAN
  BY Zenon DEF Commit, IInv, Types
<1>6. name \notin Inserting /\ name # "commit_blocks" /\ name # "prune_tree"
  BY Zenon DEF Inserting
<1>7. PICK g \in Blocks : g = CommitInfo(Arg)
  BY <1>4, CommitRounds, Zenon
<1>8. CASE work' = Rest /\ db' = db
  BY <1>1, <1>5, <1>6, <1>8, QuietCall, Zenon
<1>9. CASE work' = Abandoned /\ db' = db
  <2>1. Abandoned \in Seq(Calls) /\ Plain(Abandoned, certified, Held, Round[mem.hqc])
    BY <1>2, AbandonedPlain, Zenon
  <2> QED
    BY <1>2, <1>5, <1>9, <2>1, PlainStep, Zenon
<1>10. CASE /\ ~ (CommitRound(Arg) <= Round[mem.root]) /\ g \in mem.tree
           /\ db' = [db EXCEPT !.ledger = @ \cup PathFromRoot(g)]
           /\ work' = <<Call("commit_blocks", g), Call("prune_tree", g)>> \o Rest
  <2>1. Round[mem.root] \in Nat /\ CommitRound(Arg) \in Nat
    BY <1>4, <1>5, BlockFacts, CommitRounds, Zenon DEF Types, Mems
  <2>2. CommitRound(Arg) > Round[mem.root]
    BY <1>10, <2>1
  <2>3. /\ Commits(Arg) /\ Arg \in db.qcs /\ Arg \in mem.tree /\ g \in Blocks /\ g \in db.qcs
        /\ Round[g] > Round[mem.root]
    BY <1>4, <1>5, <1>7, <2>2, CommitFinal, Zenon
  <2>4. PathFromRoot(g) \in SUBSET Blocks
    BY <2>3, BlockFacts, Zenon DEF PathFromRoot
  <2>5. /\ Types' /\ StoreOK' /\ Held' = Held
        /\ db'.root = db.root /\ db'.qcs = db.qcs /\ db'.ledger = db.ledger \cup PathFromRoot(g)
    BY <1>5, <1>10, <2>4, LedgerSaved, Zenon
  <2> DEFINE x == Call("commit_blocks", g)
  <2> DEFINE y == Call("prune_tree", g)
  <2>6. x \in Calls /\ y \in Calls /\ x.call = "commit_blocks" /\ x.arg = g
    BY <2>3, CallFacts, Zenon DEF Names
  <2>7. Rest \in Seq(Calls) /\ Plain(Rest, certified, Held, Round[mem.hqc])
    BY <1>2, <1>3, <1>6, PlainTail, Zenon DEF Rest
  <2>8. /\ work' \in Seq(Calls) /\ work' # <<>> /\ Len(work') >= 2
        /\ Head(work') = x /\ work'[2] = y /\ Tail(Tail(work')) = Rest
    <3>1. work' = <<x, y>> \o Rest
      BY <1>10, Zenon
    <3> HIDE DEF x, y
    <3> DEFINE w == <<x, y>> \o Rest
    <3>2. /\ w \in Seq(Calls) /\ w # <<>> /\ Len(w) >= 2
          /\ Head(w) = x /\ w[2] = y /\ Tail(Tail(w)) = Rest
      BY <2>6, <2>7, TwoBefore, SMTT(20)
    <3> HIDE DEF w
    <3>3. work' = w
      BY <3>1, Zenon DEF w
    <3> QED
      BY <3>2, <3>3, Zenon
  <2>9. Committing' /\ ~ Pruning' /\ Arg' = g
    BY <2>6, <2>8, Zenon DEF Committing, Pruning, Arg
  <2>10. PathFromRoot(g)' = PathFromRoot(g)
    BY <1>5, Zenon DEF PathFromRoot
  <2>11. CommitReady(g)'
    BY <1>5, <1>10, <1>7, <2>3, <2>5, <2>10, Zenon DEF CommitReady
  <2>12. Plain(Tail(Tail(work')), certified', Held', Round[mem'.hqc])
    BY <1>5, <2>5, <2>7, <2>8, Zenon
  <2>13. WorkOK'
    BY <1>2, <1>5, <2>5, <2>8, <2>9, <2>11, <2>12, Zenon DEF WorkOK
  <2> QED
    BY <2>5, <2>13, Zenon DEF IInv
<1> QED
  BY <1>8, <1>9, <1>10, <1>7, Zenon DEF Commit

-----------------------------------------------------------------------------
(* commit_blocks                                                           *)

\* path_from_root succeeds for every block that descends from the root.
LEMMA PathComplete ==
  ASSUME Types, StoreOK, NEW b \in mem.tree, Extends(b, mem.root)
  PROVE  /\ PathFromRoot(b) = {a \in Ancestors[b] : Round[a] > Round[mem.root]}
         /\ PathFromRoot(b) \subseteq mem.tree
         /\ Round[b] > Round[mem.root] => b \in PathFromRoot(b)
<1>1. {a \in Ancestors[b] : Round[a] > Round[mem.root]} \subseteq mem.tree
  BY Zenon DEF StoreOK, TreeOK
<1>2. b \in Ancestors[b]
  BY BlockFacts, Zenon DEF Types, Mems
<1> QED
  BY <1>1, <1>2, Zenon DEF PathFromRoot

\* The block a commit is about: certified, above the root and final.
LEMMA CommitTarget ==
  ASSUME Types, StoreOK, NEW g, CommitReady(g)
  PROVE  /\ g \in Final /\ g \in certified /\ g \in Blocks /\ g # Genesis
         /\ Extends(g, mem.root) /\ g \in db.blocks
         /\ Round[g] \in Nat /\ Round[mem.root] \in Nat
<1>1. PICK q \in db.qcs : q \in mem.tree /\ Commits(q) /\ CommitInfo(q) = g
  BY Zenon DEF CommitReady
<1>2. g \in Final
  BY <1>1, Zenon DEF Final, StoreOK, QcsOK
<1>3. g \in certified /\ g \in Blocks /\ mem.root \in Blocks
  BY <1>2, FinalFacts, Zenon DEF Types, Mems
<1>4. Round[g] \in Nat /\ Round[mem.root] \in Nat /\ Round[g] > Round[mem.root]
  BY <1>3, BlockFacts, Zenon DEF CommitReady
<1>5. g # Genesis /\ Round[mem.root] <= Round[g]
  BY <1>4, GenesisFacts
<1>6. Extends(g, mem.root)
  BY <1>3, <1>5, FinalFacts, Zenon DEF StoreOK, RootsOK
<1>7. g \in db.blocks
  BY <1>5, <1>6, Zenon DEF CommitReady, StoreOK, TreeOK
<1> QED
  BY <1>2, <1>3, <1>4, <1>5, <1>6, <1>7, Zenon

\* The executor's root moves to the committed block.
LEMMA RootCommitted ==
  ASSUME Types, StoreOK, db.root = mem.root, NEW g \in Blocks, CommitReady(g),
         certified' = certified, up' \in BOOLEAN, db' = [db EXCEPT !.root = g],
         mem' = [mem EXCEPT !.cache = {b \in @ \ {g} : Extends(b, g)}]
  PROVE  /\ Types' /\ StoreOK' /\ Held' = Held /\ mem'.hqc = mem.hqc /\ db'.root = g
<1>1. /\ db'.blocks = db.blocks /\ db'.qcs = db.qcs /\ db'.tc = db.tc
      /\ db'.ledger = db.ledger /\ db'.root = g /\ db' \in Dbs
  BY Zenon DEF Types, Dbs
<1>2. /\ mem'.tree = mem.tree /\ mem'.root = mem.root /\ mem'.qcs = mem.qcs
      /\ mem'.hqc = mem.hqc /\ mem'.hcc = mem.hcc /\ mem'.htc = mem.htc
      /\ mem'.pruned = mem.pruned
      /\ mem'.cache = {b \in mem.cache \ {g} : Extends(b, g)} /\ mem' \in Mems
  BY Zenon DEF Types, Mems
<1>3. Types' /\ Final' = Final
  BY <1>1, <1>2, SameCertified, Zenon DEF Types
<1>4. /\ g \in Final /\ Extends(g, mem.root) /\ g \in db.blocks /\ g # Genesis
      /\ Round[g] \in Nat /\ Round[mem.root] \in Nat /\ mem.root \in Blocks
      /\ g \in mem.tree /\ g \in db.qcs /\ Round[g] > Round[mem.root]
  BY CommitTarget, Zenon DEF CommitReady, Types, Mems
<1>5. RootsOK' /\ PrunedOK'
  BY <1>1, <1>2, <1>3, <1>4 DEF StoreOK, RootsOK, PrunedOK
<1>6. TreeOK'
  <2>1. ASSUME NEW b \in mem.tree, b # g, Extends(b, g) PROVE b \in mem.cache
    <3>1. b \in Blocks /\ Round[b] \in Nat
      BY BlockFacts, Zenon DEF Types, Mems
    <3>2. Extends(b, mem.root)
      BY <1>4, <2>1, <3>1, ExtendsTransitive, Zenon
    <3>3. Round[g] < Round[b]
      BY <2>1, <3>1, AncestorRound, Zenon DEF Extends
    <3>4. b # mem.root
      BY <1>4, <3>1, <3>3
    <3> QED
      BY <3>2, <3>4, Zenon DEF StoreOK, TreeOK
  <2>2. mem'.cache = {b \in mem.tree : b # g /\ Extends(b, g)}
    <3>1. mem.cache \subseteq mem.tree
      BY Zenon DEF StoreOK, TreeOK
    <3> QED
      BY <1>2, <2>1, <3>1, Zenon
  <2> QED
    BY <1>1, <1>2, <2>2, Zenon DEF StoreOK, TreeOK
<1>7. QcsOK'
  <2>1. CommitRound(mem.hcc) > Round[g] => CommitRound(mem.hcc) > Round[mem.root]
    BY <1>4, CommitRounds DEF Types, Mems
  <2> QED
    BY <1>1, <1>2, <1>3, <2>1, SMTT(20) DEF StoreOK, QcsOK
<1>8. DiskOK'
  <2>1. ASSUME NEW a \in Ancestors[g] \ {Genesis} PROVE a \in db.ledger
    <3>1. a \in Blocks /\ Round[a] \in Nat /\ Extends(g, a)
      BY BlockFacts, Zenon DEF Extends
    <3>2. CASE Round[a] > Round[mem.root]
      BY <1>4, <3>2, PathComplete, Zenon DEF CommitReady
    <3>3. CASE Round[a] <= Round[mem.root]
      <4>1. Extends(mem.root, a)
        BY <1>4, <3>1, <3>3, ExtendsLinear, Zenon
      <4> QED
        BY <4>1, Zenon DEF Extends, StoreOK, DiskOK
    <3> QED
      BY <1>4, <3>1, <3>2, <3>3
  <2>2. \E q \in db.qcs : q \in mem.tree /\ Commits(q) /\ CommitInfo(q) = g
    BY Zenon DEF CommitReady
  <2>3. db.tc = mem.htc
    BY Zenon DEF StoreOK, DiskOK
  <2> QED
    BY <1>1, <1>2, <1>4, <2>1, <2>2, <2>3, Zenon DEF DiskOK
<1>9. Held' = Held
  BY <1>1, <1>2, Zenon DEF Held
<1> QED
  BY <1>1, <1>2, <1>3, <1>5, <1>6, <1>7, <1>8, <1>9, Zenon DEF StoreOK

\* commit_blocks moves the root on disk to the committed block.
LEMMA CommitBlocksKeeps ==
  ASSUME IInv, CommitBlocks
  PROVE  IInv'
<1> HIDE DEF Calls
<1>1. PICK g : g = Arg
  BY Zenon
<1>2. /\ up /\ work # <<>> /\ Committing /\ ~ Pruning /\ work \in Seq(Calls)
      /\ Types /\ StoreOK
  BY Zenon DEF CommitBlocks, Next1, Committing, Pruning, IInv, WorkOK
<1>3. /\ Len(work) >= 2 /\ work[2] = Call("prune_tree", g) /\ CommitReady(g)
      /\ Plain(Tail(Tail(work)), certified, Held, Round[mem.hqc])
      /\ db.root = mem.root
  BY <1>1, <1>2, Zenon DEF IInv, WorkOK
<1>4. g \in Blocks
  BY <1>2, <1>3, CommitTarget, Zenon
<1>5. /\ certified' = certified /\ up' = up /\ work' = Tail(work)
      /\ db' = [db EXCEPT !.root = g]
      /\ mem' = [mem EXCEPT !.cache = {b \in @ \ {g} : Extends(b, g)}]
  BY <1>1, Zenon DEF CommitBlocks, Rest
<1>6. up' \in BOOLEAN
  BY <1>2, <1>5, Zenon
<1>7. /\ Types' /\ StoreOK' /\ Held' = Held /\ mem'.hqc = mem.hqc /\ db'.root = g
  BY <1>2, <1>3, <1>4, <1>5, <1>6, RootCommitted, Zenon
<1>8. work' \in Seq(Calls) /\ work' # <<>> /\ Head(work') = work[2]
  <2>1. /\ Tail(work) \in Seq(Calls) /\ Len(Tail(work)) = Len(work) - 1 /\ Len(work) \in Nat
        /\ \A i \in 1 .. Len(Tail(work)) : Tail(work)[i] = work[i + 1]
    BY <1>2, HeadTailProperties
  <2> DEFINE t == Tail(work)
  <2>2. t \in Seq(Calls) /\ Len(t) >= 1 /\ t[1] = work[2]
    BY <1>3, <2>1
  <2> HIDE DEF t
  <2>3. t # <<>> /\ Head(t) = t[1]
    BY <2>2
  <2> QED
    BY <1>5, <2>2, <2>3, Zenon DEF t
<1>9. Head(work').call = "prune_tree" /\ Head(work').arg = g
  BY <1>3, <1>8 DEF Call
<1>10. Pruning' /\ ~ Committing' /\ Arg' = g
  BY <1>8, <1>9, Zenon DEF Pruning, Committing, Arg
<1>11. Plain(Tail(work'), certified', Held', Round[mem'.hqc])
  BY <1>3, <1>5, <1>7, Zenon
<1>12. WorkOK'
  BY <1>2, <1>5, <1>7, <1>8, <1>10, <1>11, Zenon DEF WorkOK
<1> QED
  BY <1>7, <1>12, Zenon DEF IInv

-----------------------------------------------------------------------------
(* prune_tree                                                              *)

\* The tree's root follows the executor's, g; del leaves memory and off disk, and
\* neither holds a descendant of g: the effect of prune_tree, and of a restart.
PrunedTo(g, del, off) ==
  /\ g = db.root /\ certified' = certified /\ up' \in BOOLEAN
  /\ \A b \in del \cup off : ~ Extends(b, g)
  /\ db' \in Dbs /\ db'.blocks = db.blocks \ off /\ db'.qcs = db.qcs \ off
  /\ db'.tc = db.tc /\ db'.ledger = db.ledger /\ db'.root = g
  /\ mem' \in Mems /\ mem'.tree = mem.tree \ del /\ mem'.root = g
  /\ mem'.hqc = mem.hqc /\ mem'.htc = mem.htc /\ mem'.cache = mem.cache /\ PrunedOK'
  /\ mem'.qcs \subseteq mem'.tree \cap certified
  /\ \A q \in mem'.qcs : Round[q] > Round[g] => q \in db'.qcs
  /\ mem'.hcc \in certified /\ CommitRound(mem'.hcc) = CommitRound(mem.hcc)
  /\ CommitRound(mem.hcc) > Round[g] => mem'.hcc \in db'.qcs \cap mem'.tree

\* Pruning to a committed block leaves a store of which everything said still
\* holds.
LEMMA TreePruned ==
  ASSUME Types, StoreOK, NEW g, NEW del, NEW off, PrunedTo(g, del, off)
  PROVE  Types' /\ StoreOK' /\ Held \subseteq Held'
<1>a. /\ g = db.root /\ certified' = certified /\ up' \in BOOLEAN
      /\ \A b \in del \cup off : ~ Extends(b, g)
  BY Zenon DEF PrunedTo
<1>b. /\ db'.blocks = db.blocks \ off /\ db'.qcs = db.qcs \ off
      /\ db'.tc = db.tc /\ db'.ledger = db.ledger /\ db'.root = g
  BY Zenon DEF PrunedTo
<1>c. /\ mem'.tree = mem.tree \ del /\ mem'.root = g /\ mem'.hqc = mem.hqc
      /\ mem'.htc = mem.htc /\ mem'.cache = mem.cache
  BY Zenon DEF PrunedTo
<1>1. /\ g \in Blocks /\ mem.root \in Blocks /\ g \in Final /\ Extends(g, mem.root)
      /\ Round[g] \in Nat /\ Round[mem.root] \in Nat /\ Round[mem.root] <= Round[g]
      /\ Extends(g, g)
  BY <1>a, Chain, BlockFacts, Zenon DEF StoreOK, RootsOK, Extends
<1>2. Types' /\ Final' = Final
  <2>1. IsFiniteSet(mem'.tree)
    BY <1>c, FS_Subset, Zenon DEF Types
  <2> QED
    BY <2>1, SameCertified, Zenon DEF Types, PrunedTo
<1>3. ASSUME NEW c \in certified, Round[g] <= Round[c]
      PROVE  c \notin del /\ c \notin off
  BY <1>a, <1>1, <1>3, FinalFacts, Zenon
<1>4. ASSUME NEW c \in certified, c \in del \/ c \in off
      PROVE  Round[c] \in Nat /\ Round[c] <= Round[g]
  <2>1. Round[c] \in Nat
    BY BlockFacts, Zenon DEF Types
  <2> QED
    BY <1>1, <1>3, <1>4, <2>1
<1>5. ASSUME NEW b \in Blocks, Extends(b, g)
      PROVE  Extends(b, mem.root) /\ b \notin del /\ b \notin off
  BY <1>a, <1>1, <1>5, ExtendsTransitive, Zenon
<1>6. RootsOK'
  BY <1>a, <1>b, <1>c, <1>1, <1>2, <1>5, Zenon DEF StoreOK, RootsOK
<1>7. TreeOK'
  <2>1. mem.tree \subseteq Blocks /\ db.blocks \subseteq Blocks
    BY Zenon DEF Types, Mems, Dbs
  <2>2. ASSUME NEW b \in mem'.tree, Extends(b, g)
        PROVE  /\ \A a \in Ancestors[b] : Round[a] > Round[g] => a \in mem'.tree
               /\ b = Genesis \/ b \in db'.blocks
    <3>1. b \in mem.tree /\ b \in Blocks /\ Extends(b, mem.root) /\ b \notin off
      BY <1>c, <1>5, <2>1, <2>2, Zenon
    <3>2. ASSUME NEW a \in Ancestors[b], Round[a] > Round[g] PROVE a \in mem'.tree
      <4>1. a \in Blocks /\ Round[a] \in Nat /\ Extends(b, a)
        BY <3>1, BlockFacts, Zenon DEF Extends
      <4>2. Round[a] > Round[mem.root] /\ Round[g] <= Round[a]
        BY <1>1, <3>2, <4>1
      <4>3. a \in mem.tree
        BY <3>1, <4>2, Zenon DEF StoreOK, TreeOK
      <4>4. Extends(a, g)
        BY <1>1, <2>2, <3>1, <4>1, <4>2, ExtendsLinear, Zenon
      <4> QED
        BY <1>c, <1>5, <4>1, <4>3, <4>4, Zenon
    <3>3. b = Genesis \/ b \in db'.blocks
      BY <1>b, <3>1, Zenon DEF StoreOK, TreeOK
    <3> QED
      BY <3>2, <3>3, Zenon
  <2>3. \A b \in db'.blocks : Extends(b, g) => b \in mem'.tree
    BY <1>b, <1>c, <1>5, <2>1, Zenon DEF StoreOK, TreeOK
  <2>4. \A b \in mem'.tree : b = Genesis \/ Round[Parent[b]] <= Round[mem.hqc]
    BY <1>c, Zenon DEF StoreOK, TreeOK
  <2>5. mem'.cache = {b \in mem'.tree : b # g /\ Extends(b, g)}
    BY <1>a, <1>c, Zenon DEF StoreOK, TreeOK
  <2> QED
    BY <1>b, <1>c, <2>2, <2>3, <2>4, <2>5, Zenon DEF TreeOK
<1>8. QcsOK'
  <2>1. /\ mem'.qcs \subseteq mem'.tree \cap certified
        /\ \A q \in mem'.qcs : Round[q] > Round[g] => q \in db'.qcs
        /\ mem'.hcc \in certified /\ CommitRound(mem'.hcc) = CommitRound(mem.hcc)
        /\ CommitRound(mem'.hcc) > Round[g] => mem'.hcc \in db'.qcs \cap mem'.tree
    BY Zenon DEF PrunedTo
  <2>2. db'.qcs \subseteq certified /\ db'.qcs \subseteq db.qcs
    BY <1>b, Zenon DEF StoreOK, QcsOK
  <2>3. /\ \A q \in db'.qcs : Round[q] <= Round[mem.hqc]
        /\ \A q \in db'.qcs : CommitRound(q) <= CommitRound(mem'.hcc)
    BY <2>1, <2>2, Zenon DEF StoreOK, QcsOK
  <2>4. mem.hqc \in mem'.tree \cap certified /\ (mem.hqc = Genesis \/ mem.hqc \in db'.qcs)
    BY <1>a, <1>b, <1>c, Chain, Zenon DEF StoreOK, QcsOK
  <2>6. ASSUME NEW a \in Final, Round[a] > Round[g], Round[a] <= Round[mem.hqc]
        PROVE  a \in db'.qcs
    <3>1. a \in certified /\ a \in Blocks /\ Round[a] \in Nat
      BY FinalFacts, BlockFacts, Zenon
    <3>2. Round[a] > Round[mem.root] /\ Round[g] <= Round[a]
      BY <1>1, <2>6, <3>1
    <3> QED
      <4>1. a \in db.qcs
        BY <2>6, <3>2, Zenon DEF StoreOK, QcsOK
      <4> QED
        BY <1>b, <1>3, <3>1, <3>2, <4>1, Zenon
  <2>7. Final' = Final
    BY <1>2, Zenon
  <2> QED
    BY <1>a, <1>b, <1>c, <2>1, <2>2, <2>3, <2>4, <2>6, <2>7, Zenon DEF QcsOK
<1>9. DiskOK'
  <2>1. ASSUME NEW q \in db.qcs, q \in mem.tree, Commits(q), CommitInfo(q) = g
        PROVE  q \in db'.qcs /\ q \in mem'.tree
    <3>1. q \in Blocks
      BY <2>1, Zenon DEF Types, Mems
    <3>2. Extends(q, g)
      BY <2>1, <3>1, CommitRounds, Zenon
    <3> QED
      BY <1>a, <1>b, <1>c, <2>1, <3>2, Zenon
  <2>2. (g \in db.blocks => g \in db'.blocks) /\ (g \in db.qcs => g \in db'.qcs)
    BY <1>a, <1>b, <1>1, Zenon
  <2> QED
    BY <1>a, <1>b, <1>c, <2>1, <2>2, Zenon DEF StoreOK, DiskOK
<1>10. Held \subseteq Held'
  <2> SUFFICES ASSUME NEW q \in Held PROVE q \in Held'
    BY Zenon
  <2>1. q \in certified /\ Round[q] \in Nat
    BY BlockFacts, Zenon DEF Types, Held
  <2>2. CASE Round[q] <= Round[g]
    BY <1>a, <1>c, <2>1, <2>2, Zenon DEF Held
  <2>3. CASE Round[q] > Round[g]
    <3>1. ~ (Round[q] <= Round[mem.root]) /\ Round[g] <= Round[q]
      BY <1>1, <2>1, <2>3
    <3>2. q \in mem.tree /\ q \in db.qcs
      BY <3>1, Zenon DEF Held
    <3> QED
      BY <1>a, <1>b, <1>c, <1>3, <2>1, <3>1, <3>2, Zenon DEF Held
  <2> QED
    BY <1>1, <2>1, <2>2, <2>3
<1> QED
  BY <1>2, <1>6, <1>7, <1>8, <1>9, <1>10, Zenon DEF StoreOK, PrunedTo

\* prune_tree keeps the certificates above the new root.
LEMMA CertsKept ==
  ASSUME Types, StoreOK, NEW g, g = db.root, NEW del, NEW off,
         \A b \in del \cup off : ~ Extends(b, g)
  PROVE  /\ \A q \in mem.qcs \ del : Round[q] > Round[g] => q \in db.qcs \ off
         /\ CommitRound(mem.hcc) > Round[g] =>
              mem.hcc \in db.qcs \ off /\ mem.hcc \in mem.tree \ del
<1>1. /\ g \in Final /\ Round[g] \in Nat /\ Round[mem.root] \in Nat
      /\ Round[mem.root] <= Round[g]
  BY Chain, BlockFacts, Zenon DEF StoreOK, RootsOK
<1>2. ASSUME NEW c \in certified, Round[g] <= Round[c]
      PROVE  c \notin del /\ c \notin off
  BY <1>1, <1>2, FinalFacts, Zenon
<1>3. ASSUME NEW q \in mem.qcs, Round[q] > Round[g] PROVE q \in db.qcs \ off
  <2>1. q \in certified /\ Round[q] \in Nat
    BY BlockFacts, Zenon DEF Types, StoreOK, QcsOK
  <2>2. Round[q] > Round[mem.root] /\ Round[g] <= Round[q]
    BY <1>1, <1>3, <2>1
  <2>3. q \in db.qcs
    BY <2>2, Zenon DEF StoreOK, QcsOK
  <2> QED
    BY <1>2, <2>1, <2>2, <2>3, Zenon
<1>4. ASSUME CommitRound(mem.hcc) > Round[g]
      PROVE  mem.hcc \in db.qcs \ off /\ mem.hcc \in mem.tree \ del
  <2>1. /\ mem.hcc \in Blocks /\ Round[mem.hcc] \in Nat /\ CommitRound(mem.hcc) \in Nat
        /\ CommitRound(mem.hcc) <= Round[mem.hcc]
    BY BlockFacts, CommitRounds, Zenon DEF Types, Mems
  <2>2. Round[g] <= Round[mem.hcc]
    BY <1>1, <1>4, <2>1
  <2>3. mem.hcc \in certified /\ mem.hcc \in db.qcs \cap mem.tree
    BY <1>4, Zenon DEF StoreOK, QcsOK
  <2> QED
    BY <1>2, <2>2, <2>3, Zenon
<1> QED
  BY <1>3, <1>4, Zenon

\* process_pruned_blocks lets the oldest blocks of the buffer go.
LEMMA OldestLeave ==
  ASSUME NEW buffer \in Seq(Blocks), NEW m \in Mems
  PROVE  LET n == IF Len(buffer) > MaxPruned THEN Len(buffer) - MaxPruned ELSE 0
             del == {buffer[k] : k \in 1 .. n}
             w == WithoutOldest(buffer, m)
         IN  /\ w \in Mems /\ w.tree = m.tree \ del /\ w.qcs = m.qcs \ del
             /\ w.root = m.root /\ w.hqc = m.hqc /\ w.hcc = m.hcc /\ w.htc = m.htc
             /\ w.cache = m.cache /\ Len(w.pruned) <= MaxPruned
             /\ n \in Nat /\ n <= Len(buffer) /\ Len(buffer) \in Nat
             /\ \A k \in 1 .. Len(w.pruned) :
                  n + k \in 1 .. Len(buffer) /\ w.pruned[k] = buffer[n + k]
<1> DEFINE n == IF Len(buffer) > MaxPruned THEN Len(buffer) - MaxPruned ELSE 0
<1> DEFINE del == {buffer[k] : k \in 1 .. n}
<1> DEFINE t == SubSeq(buffer, n + 1, Len(buffer))
<1>1. /\ Len(buffer) \in Nat /\ n \in Nat /\ n <= Len(buffer)
      /\ Len(buffer) - n <= MaxPruned
  BY BoundsAssumption
<1>2. WithoutOldest(buffer, m) = [m EXCEPT !.pruned = t, !.tree = @ \ del, !.qcs = @ \ del]
  BY Zenon DEF WithoutOldest
<1> HIDE DEF n
<1>3. /\ t \in Seq(Blocks) /\ Len(t) = Len(buffer) - n
      /\ \A k \in 1 .. Len(buffer) - n : t[k] = buffer[n + k]
  <2>1. \A k \in n + 1 .. Len(buffer) : buffer[k] \in Blocks
    BY <1>1
  <2>2. n + 1 \in Int /\ Len(buffer) \in Int
    BY <1>1
  <2>3. /\ t \in Seq(Blocks)
        /\ Len(t) = IF n + 1 <= Len(buffer) THEN Len(buffer) - (n + 1) + 1 ELSE 0
        /\ \A k \in 1 .. Len(buffer) - (n + 1) + 1 : t[k] = buffer[n + 1 + k - 1]
    BY <2>1, <2>2, SubSeqProperties
  <2> HIDE DEF t
  <2>4. Len(t) = Len(buffer) - n
    BY <1>1, <2>3
  <2>5. ASSUME NEW k \in 1 .. Len(buffer) - n PROVE t[k] = buffer[n + k]
    <3>1. k \in 1 .. Len(buffer) - (n + 1) + 1 /\ n + 1 + k - 1 = n + k
      BY <1>1
    <3> QED
      BY <2>3, <3>1, Zenon
  <2> QED
    BY <2>3, <2>4, <2>5, Zenon
<1>4. Len(t) <= MaxPruned /\ \A k \in 1 .. Len(t) : n + k \in 1 .. Len(buffer) /\ t[k] = buffer[n + k]
  BY <1>1, <1>3
<1> HIDE DEF t, del
<1> DEFINE w == WithoutOldest(buffer, m)
<1>5. /\ w \in Mems /\ w.tree = m.tree \ del /\ w.qcs = m.qcs \ del
      /\ w.root = m.root /\ w.hqc = m.hqc /\ w.hcc = m.hcc /\ w.htc = m.htc
      /\ w.cache = m.cache /\ w.pruned = t
  <2>1. w = [m EXCEPT !.pruned = t, !.tree = @ \ del, !.qcs = @ \ del]
    BY <1>2, Zenon
  <2> HIDE DEF w
  <2>2. w \in Mems
    BY <1>3, <2>1, Zenon DEF Mems
  <2>3. w.tree = m.tree \ del /\ w.qcs = m.qcs \ del /\ w.pruned = t
    BY <2>1, Zenon DEF Mems
  <2>4. /\ w.root = m.root /\ w.hqc = m.hqc /\ w.hcc = m.hcc /\ w.htc = m.htc
        /\ w.cache = m.cache
    BY <2>1, Zenon DEF Mems
  <2> QED
    BY <2>2, <2>3, <2>4, Zenon
<1> HIDE DEF w
<1> QED
  BY <1>1, <1>4, <1>5, Zenon DEF n, del, w

\* prune_tree moves the root in memory after the one on disk.
LEMMA PruneTreeKeeps ==
  ASSUME IInv, PruneTree
  PROVE  IInv'
<1> HIDE DEF Calls
<1>1. PICK g : g = Arg
  BY Zenon
<1>2. /\ up /\ work # <<>> /\ Pruning /\ work \in Seq(Calls) /\ Types /\ StoreOK
  BY Zenon DEF PruneTree, Next1, Pruning, IInv, WorkOK
<1>3. g = db.root /\ Plain(Tail(work), certified, Held, Round[mem.hqc])
  BY <1>1, <1>2, Zenon DEF IInv, WorkOK
<1> DEFINE gone == BlocksToPrune(g)
<1>4. PICK order \in Orderings(gone) :
           mem' = WithoutOldest(mem.pruned \o order, [mem EXCEPT !.root = g])
  BY <1>1, Zenon DEF PruneTree
<1>5. /\ \/ db' = [db EXCEPT !.blocks = @ \ gone, !.qcs = @ \ gone]
         \/ db' = db
      /\ certified' = certified /\ up' = up /\ work' = Tail(work)
  BY <1>1, Zenon DEF PruneTree, Rest
<1>6. g \in Blocks /\ Extends(g, mem.root) /\ mem.root \in Blocks
  BY <1>2, <1>3, Chain, Zenon DEF StoreOK, RootsOK
<1>7. gone \subseteq Blocks /\ IsFiniteSet(gone) /\ \A b \in gone : ~ Extends(b, g)
  <2>1. gone \subseteq mem.tree
    BY Zenon DEF BlocksToPrune
  <2> QED
    BY <1>2, <2>1, FS_Subset, Zenon DEF BlocksToPrune, Types, Mems
<1> HIDE DEF gone
<1>8. order \in Seq(Blocks) /\ \A k \in 1 .. Len(order) : ~ Extends(order[k], g)
  <2> DEFINE c == Cardinality(gone)
  <2>1. c \in Nat
    BY <1>7, FS_CardinalityType, Zenon
  <2>2. order \in [1 .. c -> gone]
    BY Zenon DEF Orderings
  <2> HIDE DEF c
  <2>3. order \in Seq(gone) /\ Len(order) = c
    BY <2>1, <2>2
  <2> QED
    BY <1>7, <2>1, <2>2, <2>3
<1>9. mem.pruned \in Seq(Blocks) /\ \A k \in 1 .. Len(mem.pruned) : ~ Extends(mem.pruned[k], g)
  <2>1. mem.pruned \in Seq(Blocks)
    BY <1>2, Zenon DEF Types, Mems
  <2>2. ASSUME NEW k \in 1 .. Len(mem.pruned) PROVE ~ Extends(mem.pruned[k], g)
    <3>1. mem.pruned[k] \in Blocks /\ ~ Extends(mem.pruned[k], mem.root)
      BY <1>2, <2>1 DEF StoreOK, PrunedOK
    <3> QED
      BY <1>6, <3>1, ExtendsTransitive, Zenon
  <2> QED
    BY <2>1, <2>2, Zenon
<1> DEFINE buffer == mem.pruned \o order
<1>10. buffer \in Seq(Blocks) /\ \A k \in 1 .. Len(buffer) : ~ Extends(buffer[k], g)
  <2> DEFINE s == mem.pruned
  <2>1. s \in Seq(Blocks) /\ order \in Seq(Blocks)
    BY <1>8, <1>9, Zenon
  <2>2. \A k \in 1 .. Len(s) : ~ Extends(s[k], g)
    BY <1>9, Zenon
  <2> HIDE DEF s
  <2>3. /\ s \o order \in Seq(Blocks) /\ Len(s \o order) = Len(s) + Len(order)
        /\ Len(s) \in Nat /\ Len(order) \in Nat
    BY <2>1
  <2>4. ASSUME NEW k \in 1 .. Len(s) + Len(order) PROVE ~ Extends((s \o order)[k], g)
    <3>1. CASE k <= Len(s)
      <4>1. k \in 1 .. Len(s) /\ (s \o order)[k] = s[k]
        BY <2>1, <2>3, <3>1
      <4> QED
        BY <2>2, <4>1, Zenon
    <3>2. CASE ~ (k <= Len(s))
      <4>1. k - Len(s) \in 1 .. Len(order) /\ (s \o order)[k] = order[k - Len(s)]
        BY <2>1, <2>3, <3>2
      <4> QED
        BY <1>8, <4>1, Zenon
    <3> QED
      BY <3>1, <3>2, Zenon
  <2> QED
    BY <2>3, <2>4, Zenon DEF s
<1> HIDE DEF buffer
<1> DEFINE n == IF Len(buffer) > MaxPruned THEN Len(buffer) - MaxPruned ELSE 0
<1> DEFINE del == {buffer[k] : k \in 1 .. n}
<1> DEFINE m == [mem EXCEPT !.root = g]
<1>11. /\ m \in Mems /\ m.root = g /\ m.tree = mem.tree /\ m.qcs = mem.qcs /\ m.hqc = mem.hqc
       /\ m.hcc = mem.hcc /\ m.htc = mem.htc /\ m.cache = mem.cache
  BY <1>2, <1>6, Zenon DEF Types, Mems
<1>12. mem' = WithoutOldest(buffer, m)
  BY <1>4, Zenon DEF buffer
<1> HIDE DEF m
<1>13. /\ mem' \in Mems /\ mem'.tree = m.tree \ del /\ mem'.qcs = m.qcs \ del
       /\ mem'.root = m.root /\ mem'.hqc = m.hqc /\ mem'.hcc = m.hcc /\ mem'.htc = m.htc
       /\ mem'.cache = m.cache /\ Len(mem'.pruned) <= MaxPruned
       /\ n \in Nat /\ n <= Len(buffer) /\ Len(buffer) \in Nat
       /\ \A k \in 1 .. Len(mem'.pruned) :
            n + k \in 1 .. Len(buffer) /\ mem'.pruned[k] = buffer[n + k]
  BY <1>10, <1>11, <1>12, OldestLeave, Zenon
<1> HIDE DEF n
<1>14. \A b \in del : ~ Extends(b, g)
  BY <1>10, <1>13
<1> HIDE DEF del
<1>15. PrunedOK'
  BY <1>10, <1>11, <1>13, Zenon DEF PrunedOK
<1>16. up' \in BOOLEAN
  BY <1>2, <1>5, Zenon
<1>17. PICK off : (off = gone \/ off = {}) /\ db'.blocks = db.blocks \ off /\ db'.qcs = db.qcs \ off
  <2>1. CASE db' = [db EXCEPT !.blocks = @ \ gone, !.qcs = @ \ gone]
    <3>1. db'.blocks = db.blocks \ gone /\ db'.qcs = db.qcs \ gone
      BY <1>2, <2>1, Zenon DEF Types, Dbs
    <3> QED
      BY <3>1, Zenon
  <2>2. CASE db' = db
    <3>1. db'.blocks = db.blocks \ {} /\ db'.qcs = db.qcs \ {}
      BY <2>2, Zenon
    <3> QED
      BY <3>1, Zenon
  <2> QED
    BY <1>5, <2>1, <2>2, Zenon
<1>18. db' \in Dbs /\ db'.tc = db.tc /\ db'.ledger = db.ledger /\ db'.root = db.root
  BY <1>2, <1>5, Zenon DEF Types, Dbs
<1>19. \A b \in del \cup off : ~ Extends(b, g)
  BY <1>7, <1>14, <1>17, Zenon
<1>20. PrunedTo(g, del, off)
  <2>1. /\ \A q \in mem.qcs \ del : Round[q] > Round[g] => q \in db.qcs \ off
        /\ CommitRound(mem.hcc) > Round[g] =>
             mem.hcc \in db.qcs \ off /\ mem.hcc \in mem.tree \ del
    BY <1>2, <1>3, <1>19, CertsKept, Zenon
  <2>2. mem.qcs \subseteq mem.tree \cap certified /\ mem.hcc \in certified
    BY <1>2, Zenon DEF StoreOK, QcsOK
  <2>3. /\ mem'.qcs \subseteq mem'.tree \cap certified
        /\ \A q \in mem'.qcs : Round[q] > Round[g] => q \in db'.qcs
    BY <1>11, <1>13, <1>17, <2>1, <2>2, Zenon
  <2>4. /\ mem'.hcc \in certified /\ CommitRound(mem'.hcc) = CommitRound(mem.hcc)
        /\ CommitRound(mem.hcc) > Round[g] => mem'.hcc \in db'.qcs \cap mem'.tree
    BY <1>11, <1>13, <1>17, <2>1, <2>2, Zenon
  <2> QED
    BY <1>3, <1>5, <1>11, <1>13, <1>15, <1>16, <1>17, <1>18, <1>19, <2>3, <2>4, Zenon DEF PrunedTo
<1>21. Types' /\ StoreOK' /\ Held \subseteq Held'
  BY <1>2, <1>20, TreePruned, Zenon
<1>22. mem'.hqc = mem.hqc /\ db'.root = mem'.root
  BY <1>20, Zenon DEF PrunedTo
<1>23. Tail(work) \in Seq(Calls) /\ Round[mem.hqc] \in Nat
  BY <1>2, HeadTailProperties, BlockFacts, Zenon DEF Types, Mems
<1>24. Plain(Tail(work), certified, Held', Round[mem.hqc])
  <2> DEFINE H == Held'
  <2> DEFINE h == Round[mem.hqc]
  <2> DEFINE t == Tail(work)
  <2>1. Held \subseteq H /\ h \in Nat /\ h <= h /\ t \in Seq(Calls) /\ Plain(t, certified, Held, h)
    BY <1>3, <1>21, <1>23, SMTT(20)
  <2> HIDE DEF H, h, t
  <2>2. Plain(t, certified, H, h)
    BY <2>1, PlainMore, Zenon
  <2> QED
    BY <2>2, Zenon DEF H, h, t
<1>25. WorkOK'
  <2>1. work' \in Seq(Calls) /\ Plain(work', certified', Held', Round[mem'.hqc])
    BY <1>5, <1>22, <1>23, <1>24, Zenon
  <2> QED
    BY <1>2, <1>5, <1>22, <2>1, PlainWork, Zenon
<1> QED
  BY <1>21, <1>25, Zenon DEF IInv

-----------------------------------------------------------------------------
(* insert_timeout_certificate and process_certificates                     *)

\* The invariant does not depend on the round, nor on which the highest timeout
\* certificate is as long as disk and memory have the same.
LEMMA OtherFields ==
  ASSUME Types, StoreOK, certified' = certified, up' \in BOOLEAN, mem' \in Mems, db' \in Dbs,
         db'.blocks = db.blocks, db'.qcs = db.qcs, db'.ledger = db.ledger, db'.root = db.root,
         mem'.tree = mem.tree, mem'.root = mem.root, mem'.qcs = mem.qcs, mem'.hqc = mem.hqc,
         mem'.hcc = mem.hcc, mem'.pruned = mem.pruned, mem'.cache = mem.cache,
         db'.tc = mem'.htc
  PROVE  Types' /\ StoreOK' /\ Held' = Held
<1>1. Types' /\ Final' = Final
  BY SameCertified, Zenon DEF Types
<1>2. RootsOK' /\ PrunedOK'
  BY <1>1, Zenon DEF StoreOK, RootsOK, PrunedOK
<1>3. TreeOK'
  BY Zenon DEF StoreOK, TreeOK
<1>4. QcsOK'
  BY <1>1, Zenon DEF StoreOK, QcsOK
<1>5. DiskOK'
  BY Zenon DEF StoreOK, DiskOK
<1>6. Held' = Held
  BY Zenon DEF Held
<1> QED
  BY <1>1, <1>2, <1>3, <1>4, <1>5, <1>6, Zenon DEF StoreOK

\* A call that touches neither the roots nor the certificates held.
LEMMA OtherFieldsCall ==
  ASSUME IInv, Types', StoreOK', Held' = Held, certified' = certified, up' = up,
         mem'.hqc = mem.hqc, db'.root = db.root, mem'.root = mem.root,
         NEW name, Next1(name), name # "commit_blocks", name # "prune_tree",
         name \notin Inserting, work' = Rest
  PROVE  IInv'
<1> HIDE DEF Calls
<1>1. db.root = mem.root /\ Round[mem.hqc] \in Nat
  BY Running, Zenon
<1>2. Head(work).call \notin Inserting
  BY Zenon DEF Next1
<1>3. /\ Held \subseteq Held' /\ Round[mem.hqc] <= Round[mem'.hqc] /\ Round[mem'.hqc] \in Nat
      /\ db'.root = mem'.root
  BY <1>1
<1> QED
  BY <1>2, <1>3, NextCall, Zenon

\* insert_timeout_certificate saves a higher certificate and takes it.
LEMMA InsertTimeoutCertificateKeeps ==
  ASSUME IInv, InsertTimeoutCertificate
  PROVE  IInv'
<1>1. Next1("insert_timeout_certificate") /\ certified' = certified /\ up' = up /\ work' = Rest
  BY Zenon DEF InsertTimeoutCertificate
<1>2. Arg \in Nat
  <2>1. /\ CallOK(work, 1, certified, Held, Round[mem.hqc]) /\ Head(work) = work[1]
    BY <1>1, Running, Zenon
  <2>2. work[1].call = "insert_timeout_certificate" /\ work[1].arg = Arg
    BY <1>1, <2>1, Zenon DEF Next1, Arg
  <2> QED
    BY <2>1, <2>2, Zenon DEF CallOK, Inserting
<1>3. CASE Arg > mem.htc
  <2>1. /\ db' = [db EXCEPT !.tc = Arg] /\ mem' = [mem EXCEPT !.htc = Arg]
        /\ Types /\ StoreOK
    BY <1>3, Zenon DEF InsertTimeoutCertificate, IInv
  <2>2. up' \in BOOLEAN
    BY <1>1, <2>1, Zenon DEF Types
  <2>3. /\ db' \in Dbs /\ db'.blocks = db.blocks /\ db'.qcs = db.qcs
        /\ db'.ledger = db.ledger /\ db'.root = db.root /\ db'.tc = Arg
    BY <1>2, <2>1, Zenon DEF Types, Dbs
  <2>4. /\ mem' \in Mems /\ mem'.tree = mem.tree /\ mem'.root = mem.root
        /\ mem'.qcs = mem.qcs /\ mem'.hqc = mem.hqc /\ mem'.hcc = mem.hcc
        /\ mem'.pruned = mem.pruned /\ mem'.cache = mem.cache /\ mem'.htc = Arg
    BY <1>2, <2>1, Zenon DEF Types, Mems
  <2>5. Types' /\ StoreOK' /\ Held' = Held
    BY <1>1, <2>1, <2>2, <2>3, <2>4, OtherFields, Zenon
  <2> QED
    BY <1>1, <2>3, <2>4, <2>5, OtherFieldsCall, Zenon DEF Inserting
<1>4. CASE ~ (Arg > mem.htc)
  <2>1. mem' = mem /\ db' = db
    BY <1>4, Zenon DEF InsertTimeoutCertificate
  <2> QED
    BY <1>1, <2>1, QuietCall, Zenon DEF Inserting
<1> QED
  BY <1>3, <1>4, Zenon

\* process_certificates raises the round to the one after the certificates.
LEMMA ProcessCertificatesKeeps ==
  ASSUME IInv, ProcessCertificates
  PROVE  IInv'
<1>1. PICK name \in {"process_certificates", "always_process_certificates"} : Next1(name)
  BY Zenon DEF ProcessCertificates
<1> DEFINE r == Max(mem.round, HighestRound(LocalSyncInfo) + 1)
<1>2. /\ certified' = certified /\ up' = up /\ work' = Rest /\ db' = db
      /\ mem' = [mem EXCEPT !.round = r] /\ Types /\ StoreOK
  BY Zenon DEF ProcessCertificates, IInv
<1>3. r \in Nat
  <2>1. mem.round \in Nat /\ mem.htc \in Nat /\ Round[mem.hqc] \in Nat
    BY <1>2, BlockFacts, Zenon DEF Types, Mems
  <2>2. HighestRound(LocalSyncInfo) \in Nat
    BY <2>1, Zenon DEF HighestRound, LocalSyncInfo, Max
  <2> QED
    BY <2>1, <2>2 DEF Max
<1> HIDE DEF r
<1>4. /\ mem' \in Mems /\ mem'.tree = mem.tree /\ mem'.root = mem.root
      /\ mem'.qcs = mem.qcs /\ mem'.hqc = mem.hqc /\ mem'.hcc = mem.hcc
      /\ mem'.pruned = mem.pruned /\ mem'.cache = mem.cache /\ mem'.htc = mem.htc
  BY <1>2, <1>3, Zenon DEF Types, Mems
<1>5. up' \in BOOLEAN /\ db' \in Dbs /\ db'.tc = mem'.htc
  BY <1>2, <1>4, Zenon DEF Types, StoreOK, DiskOK
<1>6. Types' /\ StoreOK' /\ Held' = Held
  BY <1>2, <1>4, <1>5, OtherFields, Zenon
<1>7. name \notin Inserting /\ name # "commit_blocks" /\ name # "prune_tree"
  BY Zenon DEF Inserting
<1>8. db'.root = db.root
  BY <1>2, Zenon
<1> QED
  BY <1>1, <1>2, <1>4, <1>6, <1>7, <1>8, OtherFieldsCall, Zenon

-----------------------------------------------------------------------------
(* Recovery                                                                *)

\* Only genesis descends from nothing but itself.
LEMMA GenesisAlone ==
  ASSUME NEW g \in Blocks, Extends(Genesis, g)
  PROVE  g = Genesis
  BY GenesisFacts, Zenon DEF Extends

\* find_blocks_to_prune keeps what the executor had: from the executor's root on,
\* tree and disk are the same.
LEMMA KeptIsCache ==
  ASSUME Types, StoreOK
  PROVE  /\ Kept(db) = mem.cache
         /\ Kept(db) \cup {db.root} = {b \in mem.tree : Extends(b, db.root)}
<1>1. /\ db.root \in Blocks /\ mem.root \in Blocks /\ Extends(db.root, mem.root)
      /\ Round[db.root] \in Nat /\ Round[mem.root] \in Nat /\ Round[mem.root] <= Round[db.root]
      /\ db.root \in mem.tree /\ mem.tree \subseteq Blocks /\ db.blocks \subseteq Blocks
      /\ Extends(db.root, db.root)
  BY Chain, BlockFacts, Zenon DEF StoreOK, RootsOK, Types, Mems, Dbs, Extends
<1>2. ASSUME NEW b \in Blocks, Extends(b, db.root) PROVE Extends(b, mem.root)
  BY <1>1, <1>2, ExtendsTransitive, Zenon
<1>3. ASSUME NEW b \in Kept(db) PROVE b \in mem.cache
  <2>1. b \in db.blocks /\ b # db.root /\ Extends(b, db.root)
    BY Zenon DEF Kept
  <2>2. b \in mem.tree
    BY <1>1, <1>2, <2>1, Zenon DEF StoreOK, TreeOK
  <2> QED
    BY <2>1, <2>2, Zenon DEF StoreOK, TreeOK
<1>4. ASSUME NEW b \in mem.cache PROVE b \in Kept(db)
  <2>1. b \in mem.tree /\ b \in Blocks /\ b # db.root /\ Extends(b, db.root)
    BY <1>1, Zenon DEF StoreOK, TreeOK
  <2>2. b # Genesis
    BY <1>1, <2>1, GenesisAlone, Zenon
  <2>3. Extends(b, mem.root)
    BY <1>2, <2>1, Zenon
  <2>4. b \in db.blocks
    BY <2>1, <2>2, <2>3, Zenon DEF StoreOK, TreeOK
  <2>5. ASSUME NEW a \in Ancestors[b], Round[a] > Round[db.root] PROVE a \in db.blocks
    <3>1. a \in Blocks /\ Round[a] \in Nat /\ Extends(b, a)
      BY <2>1, BlockFacts, Zenon DEF Extends
    <3>2. Round[a] > Round[mem.root] /\ Round[db.root] <= Round[a] /\ a # Genesis
      BY <1>1, <2>5, <3>1, GenesisFacts
    <3>3. a \in mem.tree
      BY <2>1, <2>3, <3>2, Zenon DEF StoreOK, TreeOK
    <3>4. Extends(a, db.root)
      BY <1>1, <2>1, <3>1, <3>2, ExtendsLinear, Zenon
    <3>5. Extends(a, mem.root)
      BY <1>2, <3>1, <3>4, Zenon
    <3> QED
      BY <3>2, <3>3, <3>5, Zenon DEF StoreOK, TreeOK
  <2> QED
    BY <2>1, <2>4, <2>5, Zenon DEF Kept
<1>5. Kept(db) = mem.cache
  BY <1>3, <1>4, Zenon
<1>6. mem.cache = {b \in mem.tree : b # db.root /\ Extends(b, db.root)}
  BY Zenon DEF StoreOK, TreeOK
<1> QED
  BY <1>1, <1>5, <1>6, Zenon

\* The certificate that commits the root is found.
LEMMA RootLedgerInfo ==
  ASSUME Types, StoreOK
  PROVE  LET li == IF db.root = Genesis THEN Genesis
                   ELSE CHOOSE q \in RootLedgerInfos(db) : TRUE
         IN  li \in certified /\ CommitRound(li) = Round[db.root]
<1>1. CASE db.root = Genesis
  <2>1. Genesis \in certified
    BY Zenon DEF Types, Certifiable
  <2>2. CommitRound(Genesis) = 0
    BY GenesisFacts, Zenon DEF CommitRound, CommitInfo, Commits
  <2> QED
    BY <1>1, <2>1, <2>2, GenesisFacts, Zenon
<1>2. CASE db.root # Genesis
  <2>1. \E q \in db.qcs : Commits(q) /\ CommitInfo(q) = db.root
    BY <1>2, Zenon DEF StoreOK, DiskOK
  <2> DEFINE li == CHOOSE q \in RootLedgerInfos(db) : TRUE
  <2>2. li \in RootLedgerInfos(db)
    BY <2>1, Zenon DEF RootLedgerInfos
  <2> HIDE DEF li
  <2>3. li \in db.qcs /\ CommitInfo(li) = db.root
    BY <2>2, Zenon DEF RootLedgerInfos
  <2>4. li \in certified /\ CommitRound(li) = Round[db.root]
    BY <2>3, Zenon DEF StoreOK, QcsOK, CommitRound
  <2> QED
    BY <1>2, <2>4, Zenon DEF li
<1> QED
  BY <1>1, <1>2, Zenon

\* The highest commit certificate is never behind the executor's root.
LEMMA HccAboveRoot ==
  ASSUME Types, StoreOK
  PROVE  /\ CommitRound(mem.hcc) \in Nat /\ Round[db.root] \in Nat
         /\ Round[db.root] <= CommitRound(mem.hcc)
<1>1. /\ CommitRound(mem.hcc) \in Nat /\ Round[db.root] \in Nat
  BY Chain, BlockFacts, CommitRounds, Zenon
<1>2. CASE db.root = Genesis
  BY <1>1, <1>2, GenesisFacts
<1>3. CASE db.root # Genesis
  <2>1. PICK q \in db.qcs : Commits(q) /\ CommitInfo(q) = db.root
    BY <1>3, Zenon DEF StoreOK, DiskOK
  <2>2. CommitRound(q) = Round[db.root] /\ CommitRound(q) <= CommitRound(mem.hcc)
    BY <2>1, Zenon DEF CommitRound, StoreOK, QcsOK
  <2> QED
    BY <1>1, <2>2, Zenon
<1> QED
  BY <1>1, <1>2, <1>3, Zenon

\* What a restart makes of the database: the certificates the node had.
LEMMA RecoveredFacts ==
  ASSUME Types, StoreOK
  PROVE  LET m == Recovered(db)
             T == {b \in mem.tree : Extends(b, db.root)}
         IN  /\ m \in Mems /\ m.tree = T /\ m.root = db.root
             /\ m.qcs = (db.qcs \cap T) \cup {db.root}
             /\ m.hqc = mem.hqc /\ m.htc = mem.htc /\ m.pruned = <<>> /\ m.cache = mem.cache
             /\ m.hcc \in certified /\ CommitRound(m.hcc) = CommitRound(mem.hcc)
             /\ CommitRound(mem.hcc) > Round[db.root] => m.hcc \in db.qcs \cap T
<1> DEFINE T == {b \in mem.tree : Extends(b, db.root)}
<1> DEFINE blocks == Kept(db) \cup {db.root}
<1> DEFINE qcs == (db.qcs \cap blocks) \cup {db.root}
<1> DEFINE hqc == CHOOSE q \in qcs : \A c \in qcs : Round[c] <= Round[q]
<1> DEFINE li == IF db.root = Genesis THEN Genesis
                 ELSE CHOOSE q \in RootLedgerInfos(db) : TRUE
<1> DEFINE newer == {q \in qcs : CommitRound(q) > Round[db.root]}
<1> DEFINE hcc == IF newer = {} THEN li
                  ELSE CHOOSE q \in newer :
                         \A c \in newer : CommitRound(c) <= CommitRound(q)
<1>1. Recovered(db) =
        [tree |-> blocks, root |-> db.root, qcs |-> qcs, hqc |-> hqc, hcc |-> hcc,
         htc |-> db.tc, pruned |-> <<>>, cache |-> Kept(db),
         round |-> Max(Round[hqc], db.tc) + 1]
  BY Zenon DEF Recovered
<1>2. blocks = T /\ Kept(db) = mem.cache
  BY KeptIsCache, Zenon
<1>3. /\ T \subseteq Blocks /\ mem.cache \subseteq Blocks /\ db.root \in Blocks
      /\ certified \subseteq Blocks /\ db.root \in certified
      /\ db.qcs \subseteq certified /\ db.tc \in Nat /\ db.tc = mem.htc
      /\ mem.hqc \in certified /\ mem.hcc \in certified
  BY Chain, Zenon DEF Types, Mems, Dbs, StoreOK, QcsOK, DiskOK
<1> HIDE DEF blocks, T
<1>4. qcs \subseteq certified /\ qcs = (db.qcs \cap T) \cup {db.root}
  BY <1>2, <1>3, Zenon
<1>5. mem.hqc \in qcs
  <2>1. mem.hqc \in T
    BY Chain, Zenon DEF T, StoreOK, QcsOK
  <2>2. CASE mem.hqc = Genesis
    BY <1>3, <2>1, <2>2, GenesisAlone, Zenon DEF T
  <2>3. CASE mem.hqc \in db.qcs
    BY <1>2, <2>1, <2>3, Zenon
  <2> QED
    BY <2>2, <2>3, Zenon DEF StoreOK, QcsOK
<1>6. ASSUME NEW c \in qcs PROVE Round[c] \in Nat /\ Round[c] <= Round[mem.hqc]
  BY <1>3, <1>4, Chain, BlockFacts, Zenon DEF StoreOK, QcsOK
<1> HIDE DEF qcs
<1>7. hqc = mem.hqc
  <2>1. hqc \in qcs /\ \A c \in qcs : Round[c] <= Round[hqc]
    BY <1>5, <1>6, Zenon
  <2> HIDE DEF hqc
  <2>2. Round[hqc] = Round[mem.hqc]
    BY <1>5, <1>6, <2>1
  <2> QED
    BY <1>3, <1>4, <2>1, <2>2, Zenon DEF Types, Certifiable
<1> HIDE DEF hqc
<1>8. li \in certified /\ CommitRound(li) = Round[db.root]
  BY RootLedgerInfo, Zenon
<1> HIDE DEF li
<1>9. /\ CommitRound(mem.hcc) \in Nat /\ Round[db.root] \in Nat
      /\ Round[db.root] <= CommitRound(mem.hcc)
  BY HccAboveRoot, Zenon
<1>10. CommitRound(mem.hcc) > Round[db.root] => mem.hcc \in newer
  <2> SUFFICES ASSUME CommitRound(mem.hcc) > Round[db.root] PROVE mem.hcc \in newer
    BY Zenon
  <2>1. mem.hcc \in db.qcs /\ mem.hcc \in mem.tree
    BY Zenon DEF StoreOK, QcsOK
  <2>2. Round[mem.hcc] \in Nat /\ CommitRound(mem.hcc) <= Round[mem.hcc]
    BY <1>3, BlockFacts, CommitRounds, Zenon
  <2>3. Round[db.root] <= Round[mem.hcc]
    BY <1>9, <2>2
  <2>4. Extends(mem.hcc, db.root)
    BY <1>3, <2>3, FinalFacts, Zenon DEF StoreOK, RootsOK
  <2>5. mem.hcc \in qcs
    BY <1>4, <2>1, <2>4, Zenon DEF T
  <2> QED
    BY <2>5, Zenon
<1>11. ASSUME NEW c \in newer
       PROVE  /\ c \in db.qcs /\ c \in T /\ c \in certified /\ CommitRound(c) \in Nat
              /\ CommitRound(c) <= CommitRound(mem.hcc) /\ CommitRound(c) > Round[db.root]
  <2>1. c \in qcs /\ CommitRound(c) > Round[db.root] /\ c \in certified /\ c \in Blocks
    BY <1>3, <1>4, Zenon
  <2>2. CommitRound(c) \in Nat /\ CommitRound(c) <= Round[c] /\ Round[c] \in Nat
    BY <2>1, CommitRounds, BlockFacts, Zenon
  <2>3. c # db.root
    BY <1>9, <2>1, <2>2, SMTT(20)
  <2>4. c \in db.qcs /\ c \in T
    BY <1>4, <2>1, <2>3, Zenon
  <2> QED
    BY <2>1, <2>2, <2>4, Zenon DEF StoreOK, QcsOK
<1> HIDE DEF newer
<1>12. /\ hcc \in certified /\ CommitRound(hcc) = CommitRound(mem.hcc)
       /\ CommitRound(mem.hcc) > Round[db.root] => hcc \in db.qcs /\ hcc \in T
  <2>1. CASE newer = {}
    BY <1>8, <1>9, <1>10, <2>1, SMTT(20)
  <2>2. CASE newer # {}
    <3>1. CommitRound(mem.hcc) > Round[db.root]
      BY <1>9, <1>11, <2>2
    <3>2. mem.hcc \in newer
      BY <1>10, <3>1, Zenon
    <3> DEFINE x == CHOOSE q \in newer : \A c \in newer : CommitRound(c) <= CommitRound(q)
    <3>3. x \in newer /\ \A c \in newer : CommitRound(c) <= CommitRound(x)
      BY <1>11, <3>2, Zenon
    <3>4. hcc = x
      BY <2>2, Zenon
    <3> HIDE DEF x, hcc
    <3>5. CommitRound(x) = CommitRound(mem.hcc)
      BY <1>11, <3>2, <3>3
    <3> QED
      BY <1>11, <3>3, <3>4, <3>5, Zenon
  <2> QED
    BY <2>1, <2>2, Zenon
<1> HIDE DEF hcc
<1>13. Max(Round[hqc], db.tc) + 1 \in Nat
  BY <1>3, <1>7, BlockFacts DEF Max
<1> DEFINE m == Recovered(db)
<1>14. /\ m.tree = T /\ m.root = db.root /\ m.qcs = qcs /\ m.hqc = mem.hqc
       /\ m.hcc = hcc /\ m.htc = mem.htc /\ m.pruned = <<>> /\ m.cache = mem.cache
  BY <1>1, <1>2, <1>3, <1>7, SMTT(20)
<1>15. m \in Mems
  <2>1. <<>> \in Seq(Blocks)
    OBVIOUS
  <2>2. qcs \subseteq Blocks /\ hcc \in Blocks /\ hqc \in Blocks
    BY <1>3, <1>4, <1>7, <1>12, Zenon
  <2> QED
    BY <1>1, <1>2, <1>3, <1>13, <2>1, <2>2, SMTT(20) DEF Mems
<1> HIDE DEF m
<1> QED
  BY <1>4, <1>12, <1>14, <1>15, Zenon DEF m, T

\* StorageWriteProxy::start and BlockStore::new: the recovered store is the store
\* pruned to the executor's root.
LEMMA RestartPrunes ==
  ASSUME Types, StoreOK, Restart
  PROVE  LET T == {b \in mem.tree : Extends(b, db.root)}
         IN  PrunedTo(db.root, mem.tree \ T, db.blocks \ T)
<1> DEFINE T == {b \in mem.tree : Extends(b, db.root)}
<1> DEFINE del == mem.tree \ T
<1> DEFINE off == db.blocks \ T
<1>1. /\ mem' \in Mems /\ mem'.tree = T /\ mem'.root = db.root
      /\ mem'.qcs = (db.qcs \cap T) \cup {db.root}
      /\ mem'.hqc = mem.hqc /\ mem'.htc = mem.htc /\ mem'.pruned = <<>>
      /\ mem'.cache = mem.cache
      /\ mem'.hcc \in certified /\ CommitRound(mem'.hcc) = CommitRound(mem.hcc)
      /\ CommitRound(mem.hcc) > Round[db.root] => mem'.hcc \in db.qcs \cap T
  BY RecoveredFacts, Zenon DEF Restart
<1>2. certified' = certified /\ up' = TRUE
  BY Zenon DEF Restart
<1>3. db' = [db EXCEPT !.blocks = @ \ off, !.qcs = @ \ off]
  BY KeptIsCache, Zenon DEF Restart, CleanedUp
<1>4. /\ db' \in Dbs /\ db'.blocks = db.blocks \ off /\ db'.qcs = db.qcs \ off
      /\ db'.tc = db.tc /\ db'.ledger = db.ledger /\ db'.root = db.root
  <2> HIDE DEF off
  <2> QED
    BY <1>3, Zenon DEF Types, Dbs
<1>5. ASSUME NEW b \in off PROVE ~ Extends(b, db.root)
  <2> SUFFICES ASSUME Extends(b, db.root) PROVE FALSE
    BY Zenon
  <2>1. b \in db.blocks /\ b \in Blocks /\ db.root \in Blocks /\ mem.root \in Blocks
    BY Zenon DEF Types, Mems, Dbs
  <2>2. Extends(b, mem.root)
    BY <2>1, ExtendsTransitive, Zenon DEF StoreOK, RootsOK
  <2>3. b \in mem.tree
    BY <2>1, <2>2, Zenon DEF StoreOK, TreeOK
  <2> QED
    BY <2>3, Zenon
<1>6. \A b \in del \cup off : ~ Extends(b, db.root)
  BY <1>5, Zenon
<1>7. db.root \in T /\ db.root \in certified /\ db.qcs \subseteq certified
  BY Chain, BlockFacts, Zenon DEF StoreOK, RootsOK, QcsOK, Extends
<1>8. mem'.qcs \subseteq mem'.tree \cap certified
  BY <1>1, <1>7, Zenon
<1>9. \A q \in mem'.qcs : Round[q] > Round[db.root] => q \in db'.qcs
  <2> SUFFICES ASSUME NEW q \in mem'.qcs, Round[q] > Round[db.root] PROVE q \in db'.qcs
    BY Zenon
  <2>1. q # db.root
    BY <1>7, BlockFacts DEF Types
  <2> QED
    BY <1>1, <1>4, <2>1, Zenon
<1>10. PrunedOK'
  BY <1>1, BoundsAssumption DEF PrunedOK
<1>11. mem'.tree = mem.tree \ del
  BY <1>1, Zenon
<1>12. CommitRound(mem.hcc) > Round[db.root] => mem'.hcc \in db'.qcs \cap mem'.tree
  BY <1>1, <1>4, Zenon
<1>13. up' \in BOOLEAN
  BY <1>2, Zenon
<1> HIDE DEF T, del, off
<1>14. PrunedTo(db.root, del, off)
  BY <1>1, <1>2, <1>4, <1>6, <1>8, <1>9, <1>10, <1>11, <1>12, <1>13, Zenon DEF PrunedTo
<1> QED
  BY <1>14, Zenon DEF T, del, off

\* A restart recovers the tree from the disk, and prunes the disk to it.
LEMMA RestartKeeps ==
  ASSUME IInv, Restart
  PROVE  IInv'
<1>1. Types /\ StoreOK /\ WorkOK
  BY Zenon DEF IInv
<1>2. Types' /\ StoreOK'
  BY <1>1, RestartPrunes, TreePruned, Zenon
<1>3. work' = <<>>
  BY <1>1, Zenon DEF Restart, WorkOK
<1>4. work' \in Seq(Calls) /\ Plain(work', certified', Held', Round[mem'.hqc])
  BY <1>3 DEF Plain
<1>5. db'.root = mem'.root
  <2>1. PrunedTo(db.root, mem.tree \ {b \in mem.tree : Extends(b, db.root)},
                 db.blocks \ {b \in mem.tree : Extends(b, db.root)})
    BY <1>1, RestartPrunes, Zenon
  <2> QED
    BY <2>1, Zenon DEF PrunedTo
<1>6. WorkOK'
  BY <1>3, <1>4, <1>5, PlainWork, Zenon
<1> QED
  BY <1>2, <1>6, Zenon DEF IInv

-----------------------------------------------------------------------------
(* Invariance                                                              *)

\* A node starts from the genesis block alone.
LEMMA InitRecovered ==
  LET m == Recovered(EmptyDB)
  IN  /\ m \in Mems /\ m.tree = {Genesis} /\ m.root = Genesis /\ m.qcs = {Genesis}
      /\ m.hqc = Genesis /\ m.hcc = Genesis /\ m.htc = 0 /\ m.pruned = <<>>
      /\ m.cache = {}
<1>1. /\ EmptyDB.blocks = {} /\ EmptyDB.qcs = {} /\ EmptyDB.tc = 0
      /\ EmptyDB.root = Genesis
  BY Zenon DEF EmptyDB
<1> DEFINE hqc == CHOOSE q \in {Genesis} : \A c \in {Genesis} : Round[c] <= Round[q]
<1> DEFINE newer == {q \in {Genesis} : CommitRound(q) > Round[Genesis]}
<1>2. Kept(EmptyDB) = {}
  BY <1>1, Zenon DEF Kept
<1>3. /\ Kept(EmptyDB) \cup {EmptyDB.root} = {Genesis}
      /\ (EmptyDB.qcs \cap {Genesis}) \cup {EmptyDB.root} = {Genesis}
  BY <1>1, <1>2, Zenon
<1>4. hqc = Genesis
  BY GenesisFacts
<1>5. newer = {}
  BY GenesisFacts DEF CommitRound, CommitInfo, Commits
<1> HIDE DEF hqc, newer
<1> DEFINE m == Recovered(EmptyDB)
<1>6. m = [tree |-> {Genesis}, root |-> Genesis, qcs |-> {Genesis}, hqc |-> hqc,
           hcc |-> IF newer = {} THEN Genesis
                   ELSE CHOOSE q \in newer :
                          \A c \in newer : CommitRound(c) <= CommitRound(q),
           htc |-> 0, pruned |-> <<>>, cache |-> {},
           round |-> Max(Round[hqc], 0) + 1]
  BY <1>1, <1>2, <1>3, SMTT(20) DEF Recovered, hqc, newer
<1>7. m = [tree |-> {Genesis}, root |-> Genesis, qcs |-> {Genesis}, hqc |-> Genesis,
           hcc |-> Genesis, htc |-> 0, pruned |-> <<>>, cache |-> {},
           round |-> Max(Round[Genesis], 0) + 1]
  BY <1>4, <1>5, <1>6, Zenon
<1>8. Max(Round[Genesis], 0) + 1 \in Nat /\ <<>> \in Seq(Blocks)
  BY GenesisFacts DEF Max
<1> HIDE DEF m
<1> QED
  BY <1>7, <1>8, GenesisFacts DEF Mems, m

\* The store of a genesis block satisfies the invariant.
LEMMA InitHolds ==
  ASSUME Init
  PROVE  IInv
<1>1. /\ mem \in Mems /\ mem.tree = {Genesis} /\ mem.root = Genesis
      /\ mem.qcs = {Genesis} /\ mem.hqc = Genesis /\ mem.hcc = Genesis
      /\ mem.htc = 0 /\ mem.pruned = <<>> /\ mem.cache = {}
  BY InitRecovered, Zenon DEF Init
<1>2. /\ db \in Dbs /\ db.blocks = {} /\ db.qcs = {} /\ db.tc = 0 /\ db.ledger = {}
      /\ db.root = Genesis
  BY GenesisFacts, Zenon DEF Init, EmptyDB, Dbs
<1>3. certified \in SUBSET Blocks /\ Certifiable(certified) /\ Genesis \in certified
  BY Zenon DEF Init, Certifiable
<1>4. Types
  <2>1. IsFiniteSet({Genesis})
    BY ONLY FS_Singleton, Zenon
  <2> QED
    BY <1>1, <1>2, <1>3, <2>1, Zenon DEF Types, Init
<1>5. Extends(Genesis, Genesis) /\ Genesis \in Final /\ CommitRound(Genesis) = 0
  BY GenesisFacts, Zenon DEF Extends, Final, CommitRound, CommitInfo, Commits
<1>6. RootsOK
  BY <1>1, <1>2, <1>5, Zenon DEF RootsOK
<1>7. TreeOK
  BY <1>1, <1>2, GenesisFacts, Zenon DEF TreeOK
<1>8. PrunedOK
  BY <1>1, BoundsAssumption, SMTT(20) DEF PrunedOK
<1>9. ASSUME NEW a \in Final PROVE Round[a] \in Nat
  BY <1>4, FinalFacts, BlockFacts, Zenon
<1>10. QcsOK
  BY <1>1, <1>2, <1>3, <1>5, <1>9, GenesisFacts, SMTT(20) DEF QcsOK
<1>11. DiskOK
  BY <1>1, <1>2, GenesisFacts, Zenon DEF DiskOK
<1>12. WorkOK
  <2>1. work = <<>> /\ work \in Seq(Calls)
    BY DEF Init
  <2>2. ASSUME NEW C, NEW H, NEW h PROVE Plain(<<>>, C, H, h)
    BY SMTT(20) DEF Plain
  <2> QED
    BY <1>1, <1>2, <2>1, <2>2, Zenon DEF WorkOK, Committing, Pruning
<1> QED
  BY <1>4, <1>6, <1>7, <1>8, <1>10, <1>11, <1>12, Zenon DEF IInv, StoreOK

\* A stuttering step keeps the invariant.
LEMMA StutterKeeps ==
  ASSUME IInv, UNCHANGED vars
  PROVE  IInv'
  BY ZenonT(60) DEF vars, IInv, Types, StoreOK, RootsOK, TreeOK, PrunedOK, QcsOK, DiskOK, WorkOK,
     Final, Committing, Pruning, CommitReady, Held, Arg, PathFromRoot

\* Every step keeps the invariant.
LEMMA NextKeeps ==
  ASSUME IInv, Next
  PROVE  IInv'
<1>1. CASE Crash
  BY <1>1, CrashKeeps, Zenon
<1>2. CASE Restart
  BY <1>2, RestartKeeps, Zenon
<1>3. ASSUME NEW i \in SyncInfos, ReceiveSyncInfo(i) PROVE IInv'
  BY <1>3, ReceiveSyncInfoKeeps, Zenon
<1>4. ASSUME NEW b \in Blocks, NEW i \in SyncInfos, ReceiveProposal(b, i) PROVE IInv'
  BY <1>4, ReceiveProposalKeeps, Zenon
<1>5. ASSUME NEW b \in Blocks, GenerateNilBlock(b) PROVE IInv'
  BY <1>5, GenerateNilBlockKeeps, Zenon
<1>6. ASSUME NEW q \in certified, NewQCAggregated(q) PROVE IInv'
  BY <1>6, AggregatedKeeps, Zenon DEF NewQCAggregated
<1>7. ASSUME NEW r \in TimeoutRounds, NewTCAggregated(r) PROVE IInv'
  <2>1. r \in Nat
    BY BoundsAssumption, Zenon
  <2> QED
    BY <1>7, <2>1, AggregatedKeeps, Zenon DEF NewTCAggregated
<1>8. CASE InsertQuorumCert
  BY <1>8, InsertQuorumCertKeeps, Zenon
<1>9. CASE RetrievalFails
  BY <1>9, RetrievalFailsKeeps, Zenon
<1>10. CASE InsertFetched
  BY <1>10, InsertFetchedKeeps, Zenon
<1>11. CASE InsertSingleQuorumCert
  BY <1>11, InsertSingleQuorumCertKeeps, Zenon
<1>12. CASE ExecuteAndInsertBlock
  BY <1>12, ExecuteAndInsertBlockKeeps, Zenon
<1>13. CASE ProcessProposal
  BY <1>13, ProcessProposalKeeps, Zenon
<1>14. CASE Commit
  BY <1>14, CommitKeeps, Zenon
<1>15. CASE CommitBlocks
  BY <1>15, CommitBlocksKeeps, Zenon
<1>16. CASE PruneTree
  BY <1>16, PruneTreeKeeps, Zenon
<1>17. CASE InsertTimeoutCertificate
  BY <1>17, InsertTimeoutCertificateKeeps, Zenon
<1>18. CASE ProcessCertificates
  BY <1>18, ProcessCertificatesKeeps, Zenon
<1> QED
  BY <1>1, <1>2, <1>3, <1>4, <1>5, <1>6, <1>7, <1>8, <1>9, <1>10, <1>11, <1>12, <1>13,
     <1>14, <1>15, <1>16, <1>17, <1>18, Zenon DEF Next

\* The inductive invariant holds in every reachable state.
LEMMA Invariance == Spec => []IInv
<1>1. Init => IInv
  BY InitHolds, Zenon
<1>2. IInv /\ [Next]_vars => IInv'
  BY NextKeeps, StutterKeeps, Zenon
<1> QED
  BY <1>1, <1>2, PTL DEF Spec

-----------------------------------------------------------------------------
(* The properties                                                          *)

\* Every field of BlockTree and ConsensusDB keeps its type, and the roots and the
\* highest certificates are certified blocks.
THEOREM StoreTypes == Spec => []TypeOK
<1>1. IInv => TypeOK
  <2> SUFFICES ASSUME IInv PROVE TypeOK
    BY Zenon
  <2>1. Types /\ StoreOK
    BY Zenon DEF IInv
  <2>2. mem.root \in certified /\ db.root \in certified
    BY <2>1, Chain, Zenon
  <2>3. mem.cache \subseteq mem.tree
    BY <2>1, Zenon DEF StoreOK, TreeOK
  <2> QED
    BY <2>1, <2>2, <2>3, Zenon DEF TypeOK, Types, Mems, Dbs, StoreOK, QcsOK, PrunedOK
<1> QED
  BY <1>1, Invariance, PTL

\* Whatever instant the process stops at, RecoveryData::new finds the root, its
\* certificate and its ledger info in ConsensusDB.
THEOREM Recoverable == Spec => []AlwaysRecoverable
<1>1. IInv => AlwaysRecoverable
  <2> SUFFICES ASSUME IInv PROVE AlwaysRecoverable
    BY Zenon
  <2>1. DiskOK
    BY Zenon DEF IInv, StoreOK
  <2> QED
    BY <2>1, Zenon DEF DiskOK, AlwaysRecoverable, FindRoot, RootLedgerInfos
<1> QED
  BY <1>1, Invariance, PTL

\* Nothing Executor::commit_blocks unwraps or asserts is missing.
THEOREM CommitSucceeds == Spec => []CommitNeverPanics
<1>1. IInv => CommitNeverPanics
  <2> SUFFICES ASSUME IInv, up, work # <<>>, Head(work).call = "commit_blocks"
               PROVE  CommitBlocksAsserts(Arg)
    BY Zenon DEF CommitNeverPanics, Arg
  <2>1. PICK g : g = Arg
    BY Zenon
  <2>2. Types /\ StoreOK
    BY Zenon DEF IInv
  <2>3. CommitReady(g)
    BY <2>1, Zenon DEF IInv, WorkOK, Committing
  <2>4. db.root = mem.root
    BY Zenon DEF IInv, WorkOK, Pruning
  <2>5. /\ g \in mem.tree /\ g \in db.qcs /\ Round[g] > Round[mem.root]
        /\ PathFromRoot(g) \subseteq db.ledger
    BY <2>3, Zenon DEF CommitReady
  <2>6. Extends(g, mem.root) /\ g \in Blocks /\ mem.root \in Blocks
    BY <2>2, <2>3, CommitTarget, Chain, Zenon
  <2>7. /\ PathFromRoot(g) = {a \in Ancestors[g] : Round[a] > Round[mem.root]}
        /\ PathFromRoot(g) \subseteq mem.tree /\ g \in PathFromRoot(g)
    BY <2>2, <2>5, <2>6, PathComplete, Zenon
  <2>8. ASSUME NEW a \in PathFromRoot(g) PROVE a \in mem.cache
    <3>1. /\ a \in Ancestors[g] /\ Round[a] > Round[mem.root] /\ a \in mem.tree
          /\ a \in Blocks /\ Round[a] \in Nat /\ Round[mem.root] \in Nat
      BY <2>6, <2>7, BlockFacts, Zenon
    <3>2. Extends(a, mem.root)
      BY <2>6, <3>1, ExtendsLinear, SMTT(20) DEF Extends
    <3>3. a # db.root
      BY <2>4, <3>1, SMTT(20)
    <3> QED
      BY <2>2, <2>4, <3>1, <3>2, <3>3, Zenon DEF StoreOK, TreeOK
  <2> QED
    BY <2>1, <2>5, <2>7, <2>8, Zenon DEF CommitBlocksAsserts
<1> QED
  BY <1>1, Invariance, PTL

\* A restart at any instant gives back the highest quorum, commit and timeout
\* certificates the node had acted on.
THEOREM RestartLosesNothing == Spec => []RestartKeepsCertificates
<1>1. IInv => RestartKeepsCertificates
  BY RecoveredFacts, Zenon DEF IInv, RestartKeepsCertificates
<1> QED
  BY <1>1, Invariance, PTL

\* The executor has the result of every block of the tree that descends from its
\* root: re-execution in execute_and_insert_block is never needed.
THEOREM AllExecuted == Spec => []TreeExecuted
<1>1. IInv => TreeExecuted
  BY Zenon DEF IInv, StoreOK, TreeOK, TreeExecuted
<1> QED
  BY <1>1, Invariance, PTL

\* The highest certified block is never pruned: path_from_root reaches it.
THEOREM HqcIsLinked == Spec => []HqcOnTree
<1>1. IInv => HqcOnTree
  <2> SUFFICES ASSUME IInv, mem.hqc # mem.root PROVE PathFromRoot(mem.hqc) # {}
    BY Zenon DEF HqcOnTree
  <2>1. Types /\ StoreOK
    BY Zenon DEF IInv
  <2>2. /\ mem.hqc \in mem.tree /\ mem.hqc \in certified /\ mem.root \in certified
        /\ Extends(mem.hqc, mem.root)
        /\ Round[mem.hqc] \in Nat /\ Round[mem.root] \in Nat /\ Round[db.root] \in Nat
        /\ Round[mem.root] <= Round[db.root] /\ Round[db.root] <= Round[mem.hqc]
    BY <2>1, Chain, BlockFacts, Zenon DEF StoreOK, QcsOK
  <2>3. Round[mem.hqc] # Round[mem.root]
    BY <2>1, <2>2, Zenon DEF Types, Certifiable
  <2>4. Round[mem.hqc] > Round[mem.root]
    BY <2>2, <2>3, SMTT(20)
  <2> QED
    BY <2>1, <2>2, <2>4, PathComplete, Zenon
<1> QED
  BY <1>1, Invariance, PTL

\* process_block_retrieval can serve every ancestor of the highest certificate,
\* from the tree or from the ledger blocks that pruning left on disk.
THEOREM ChainIsServed == Spec => []CanServeChain
<1>1. IInv => CanServeChain
  <2> SUFFICES ASSUME IInv, NEW a \in Ancestors[mem.hqc], a # Genesis
               PROVE  a \in mem.tree \cup db.ledger
    BY Zenon DEF CanServeChain
  <2>1. Types /\ StoreOK
    BY Zenon DEF IInv
  <2>2. /\ mem.hqc \in mem.tree /\ mem.hqc \in Blocks /\ mem.root \in Blocks
        /\ db.root \in Blocks /\ Extends(mem.hqc, mem.root) /\ Extends(db.root, mem.root)
        /\ a \in Blocks /\ Round[a] \in Nat /\ Round[mem.root] \in Nat
    BY <2>1, Chain, BlockFacts, Zenon DEF StoreOK, QcsOK, RootsOK
  <2>3. CASE Round[a] > Round[mem.root]
    BY <2>1, <2>2, <2>3, Zenon DEF StoreOK, TreeOK
  <2>4. CASE Round[a] <= Round[mem.root]
    <3>1. Extends(mem.root, a)
      BY <2>2, <2>4, ExtendsLinear, Zenon DEF Extends
    <3>2. a \in Ancestors[db.root]
      BY <2>2, <3>1, ExtendsTransitive, Zenon DEF Extends
    <3> QED
      BY <2>1, <3>2, Zenon DEF StoreOK, DiskOK
  <2> QED
    BY <2>2, <2>3, <2>4, SMTT(20)
<1> QED
  BY <1>1, Invariance, PTL

=============================================================================
