--------------------------- MODULE BlockStoreCalls ---------------------------
(***************************************************************************)
(* The inductive invariant of BlockStore, what it rests on (the tree of    *)
(* blocks, what is certified, the calls a handler has still to make), and  *)
(* its preservation by the steps that change only those calls.             *)
(***************************************************************************)
EXTENDS BlockStore, FiniteSetTheorems, SequenceTheorems, WellFoundedInduction, TLAPS

-----------------------------------------------------------------------------
(* The inductive invariant                                                 *)

\* What the certified blocks commit, and genesis: the roots there can be.
Final == {Genesis} \cup {CommitInfo(q) : q \in {c \in certified : Commits(c)}}

Mems ==
  [tree : SUBSET Blocks, root : Blocks, qcs : SUBSET Blocks, hqc : Blocks,
   hcc : Blocks, htc : Nat, pruned : Seq(Blocks), cache : SUBSET Blocks, round : Nat]

Dbs ==
  [blocks : SUBSET Blocks, qcs : SUBSET Blocks, tc : Nat, ledger : SUBSET Blocks,
   root : Blocks]

Types ==
  /\ certified \in SUBSET Blocks /\ Certifiable(certified)
  /\ up \in BOOLEAN /\ mem \in Mems /\ db \in Dbs
  /\ IsFiniteSet(mem.tree)

\* The root of the tree is the executor's or, once commit_blocks has moved
\* that one, an older one.
RootsOK ==
  /\ mem.root \in Final /\ db.root \in Final
  /\ Extends(db.root, mem.root)
  /\ mem.root \in mem.tree /\ db.root \in mem.tree

\* From its root the tree is complete, and the same on disk and in the
\* executor; the blocks waiting in the pruning buffer are outside.
TreeOK ==
  /\ \A b \in mem.tree : Extends(b, mem.root) =>
       /\ \A a \in Ancestors[b] : Round[a] > Round[mem.root] => a \in mem.tree
       /\ b = Genesis \/ b \in db.blocks
  /\ \A b \in db.blocks : Extends(b, mem.root) => b \in mem.tree
  /\ \A b \in mem.tree : b = Genesis \/ Round[Parent[b]] <= Round[mem.hqc]
  /\ mem.cache = {b \in mem.tree : b # db.root /\ Extends(b, db.root)}

PrunedOK ==
  /\ Len(mem.pruned) <= MaxPruned
  /\ \A k \in 1 .. Len(mem.pruned) : ~ Extends(mem.pruned[k], mem.root)

\* The certificates in memory are on disk, as far as they are above the root;
\* those on disk are not above the highest ones in memory.
QcsOK ==
  /\ mem.qcs \subseteq mem.tree \cap certified
  /\ \A q \in mem.qcs : Round[q] > Round[mem.root] => q \in db.qcs
  /\ db.qcs \subseteq certified
  /\ \A q \in db.qcs : Round[q] <= Round[mem.hqc]
  /\ \A q \in db.qcs : CommitRound(q) <= CommitRound(mem.hcc)
  /\ mem.hqc \in mem.tree \cap certified
  /\ mem.hqc = Genesis \/ mem.hqc \in db.qcs
  /\ mem.hcc \in certified
  /\ CommitRound(mem.hcc) > Round[db.root] => mem.hcc \in db.qcs \cap mem.tree
  /\ \A a \in Final :
       Round[a] > Round[mem.root] /\ Round[a] <= Round[mem.hqc] => a \in db.qcs

\* What LedgerRecoveryData::find_root looks for.
DiskOK ==
  /\ \/ db.root = Genesis
     \/ /\ db.root \in db.blocks /\ db.root \in db.qcs
        /\ \E q \in db.qcs : q \in mem.tree /\ Commits(q) /\ CommitInfo(q) = db.root
  /\ db.tc = mem.htc
  /\ Ancestors[db.root] \ {Genesis} \subseteq db.ledger

StoreOK == RootsOK /\ TreeOK /\ PrunedOK /\ QcsOK /\ DiskOK

\* The certificates that are in place, or below what matters.
Held ==
  {q \in certified : Round[q] <= Round[mem.root] \/ (q \in mem.tree /\ q \in db.qcs)}

Inserting == {"insert_quorum_cert", "insert_single_quorum_cert"}

\* A call before the i-th one inserts the certificate q.
Promised(w, i, q) == \E j \in 1 .. i - 1 : w[j].call \in Inserting /\ w[j].arg = q

\* What the i-th call still to be made relies on, where C are the certified
\* blocks, H the certificates held, and h is the highest round of one.
CallOK(w, i, C, H, h) ==
  LET c == w[i].call
      a == w[i].arg
  IN  \/ c \in Inserting /\ a \in C
      \/ c = "insert_fetched" /\ a \in C \ {Genesis}
      \/ /\ c \in {"execute_and_insert_block", "process_proposal"}
         /\ a \in Blocks \ {Genesis}
         /\ Round[Parent[a]] <= h \/ Promised(w, i, Parent[a])
      \/ /\ c \in {"commit", "try_commit"}
         /\ a \in C
         /\ a \in H \/ Promised(w, i, a)
      \/ c = "insert_timeout_certificate" /\ a \in Nat
      \/ c \in {"process_certificates", "always_process_certificates"}

Plain(w, C, H, h) == \A i \in 1 .. Len(w) : CallOK(w, i, C, H, h)

\* A commit under way: save_ledger_blocks has run.
CommitReady(g) ==
  /\ g \in mem.tree /\ g \in db.qcs
  /\ Round[g] > Round[mem.root]
  /\ PathFromRoot(g) \subseteq db.ledger
  /\ \E q \in db.qcs : q \in mem.tree /\ Commits(q) /\ CommitInfo(q) = g

Names ==
  {"insert_quorum_cert", "insert_single_quorum_cert", "insert_fetched",
   "execute_and_insert_block", "process_proposal", "commit", "try_commit",
   "commit_blocks", "prune_tree", "insert_timeout_certificate",
   "process_certificates", "always_process_certificates"}

Calls == [call : Names, arg : Blocks \cup Nat]

Committing == work # <<>> /\ Head(work).call = "commit_blocks"

Pruning == work # <<>> /\ Head(work).call = "prune_tree"

WorkOK ==
  /\ work \in Seq(Calls)
  /\ ~ up => work = <<>>
  /\ Committing =>
       /\ Len(work) >= 2 /\ work[2] = Call("prune_tree", Arg)
       /\ CommitReady(Arg)
       /\ Plain(Tail(Tail(work)), certified, Held, Round[mem.hqc])
  /\ Pruning => Arg = db.root /\ Plain(Tail(work), certified, Held, Round[mem.hqc])
  /\ ~ Committing /\ ~ Pruning => Plain(work, certified, Held, Round[mem.hqc])
  /\ up /\ ~ Pruning => db.root = mem.root

IInv == Types /\ StoreOK /\ WorkOK

-----------------------------------------------------------------------------
(* The block tree                                                          *)

\* A block other than genesis has a parent of a lower round and the parent's
\* ancestors.
LEMMA BlockFacts ==
  ASSUME NEW b \in Blocks
  PROVE  /\ Round[b] \in Nat /\ Parent[b] \in Blocks
         /\ Ancestors[b] \in SUBSET Blocks /\ b \in Ancestors[b]
         /\ b # Genesis => /\ Round[Parent[b]] < Round[b]
                           /\ Ancestors[b] = {b} \cup Ancestors[Parent[b]]
  BY BlocksAssumption, AncestorsAssumption, Zenon

\* The genesis block is the root of the tree.
LEMMA GenesisFacts ==
  /\ Genesis \in Blocks /\ Round[Genesis] = 0 /\ Parent[Genesis] = Genesis
  /\ Ancestors[Genesis] = {Genesis}
  BY BlocksAssumption, AncestorsAssumption, Zenon

\* A non-empty set of blocks has a block of least round.
LEMMA LeastRound ==
  ASSUME NEW T \in SUBSET Blocks, T # {}
  PROVE  \E m \in T : \A b \in T : Round[m] <= Round[b]
<1> DEFINE N == {Round[b] : b \in T}
<1>1. N \subseteq Nat /\ N # {}
  BY BlockFacts
<1>2. PICK n \in N : \A k \in N : ~ (<<k, n>> \in OpToRel(<, Nat))
  <2> HIDE DEF N
  <2> QED
    BY <1>1, NatLessThanWellFounded, WFMin, Zenon
<1>3. \A k \in N : ~ (k < n)
  BY <1>1, <1>2, Zenon DEF OpToRel
<1>4. PICK m \in T : n = Round[m]
  BY Zenon
<1>5. ASSUME NEW b \in T PROVE Round[m] <= Round[b]
  <2>1. Round[b] \in N /\ Round[b] \in Nat /\ n \in Nat
    BY <1>1, Zenon
  <2>2. ~ (Round[b] < n)
    BY <1>3, <2>1, Zenon
  <2> QED
    BY <1>4, <2>1, <2>2
<1> QED
  BY <1>5, Zenon

\* A set without genesis that holds the parent of each of its blocks is empty:
\* the form in which the lemmas below use induction along the chain.
LEMMA LeastBlock ==
  ASSUME NEW T \in SUBSET Blocks, Genesis \notin T,
         \A b \in T : Parent[b] \in T
  PROVE  T = {}
<1> SUFFICES ASSUME T # {} PROVE FALSE
  BY Zenon
<1>1. PICK m \in T : \A b \in T : Round[m] <= Round[b]
  BY LeastRound, Zenon
<1>2. Round[Parent[m]] < Round[m] /\ Round[m] <= Round[Parent[m]]
  BY <1>1, BlockFacts, Zenon
<1> QED
  BY <1>2, BlockFacts

\* A proper ancestor has a lower round.
LEMMA AncestorRound ==
  ASSUME NEW b \in Blocks, NEW a \in Ancestors[b]
  PROVE  a = b \/ Round[a] < Round[b]
<1> DEFINE T == {c \in Blocks : \E x \in Ancestors[c] : x # c /\ ~ (Round[x] < Round[c])}
<1>1. Genesis \notin T
  BY GenesisFacts, Zenon
<1>2. ASSUME NEW c \in T PROVE Parent[c] \in T
  <2>1. c \in Blocks /\ c # Genesis
    BY <1>1, Zenon
  <2>2. PICK x \in Ancestors[c] : x # c /\ ~ (Round[x] < Round[c])
    BY Zenon
  <2>3. /\ Parent[c] \in Blocks /\ Round[Parent[c]] < Round[c] /\ x \in Blocks
        /\ x \in Ancestors[Parent[c]]
    BY <2>1, <2>2, BlockFacts, Zenon
  <2>4. x # Parent[c] /\ ~ (Round[x] < Round[Parent[c]])
    BY <2>1, <2>2, <2>3, BlockFacts
  <2> QED
    BY <2>3, <2>4, Zenon
<1>3. T = {}
  <2> HIDE DEF T
  <2> QED
    BY <1>1, <1>2, LeastBlock, Zenon DEF T
<1> QED
  BY <1>3, Zenon

\* Every block extends the genesis block.
LEMMA ExtendsGenesis ==
  ASSUME NEW b \in Blocks
  PROVE  Extends(b, Genesis)
<1> DEFINE T == {c \in Blocks : Genesis \notin Ancestors[c]}
<1>1. Genesis \notin T
  BY GenesisFacts, Zenon
<1>2. ASSUME NEW c \in T PROVE Parent[c] \in T
  BY <1>1, BlockFacts, Zenon
<1>3. T = {}
  <2>1. T \in SUBSET Blocks
    BY Zenon
  <2> HIDE DEF T
  <2> QED
    BY <1>1, <1>2, <2>1, LeastBlock, Zenon
<1> QED
  BY <1>3, Zenon DEF Extends

\* Extending is transitive.
LEMMA ExtendsTransitive ==
  ASSUME NEW b \in Blocks, NEW a \in Blocks, NEW c \in Blocks,
         Extends(b, a), Extends(a, c)
  PROVE  Extends(b, c)
<1> DEFINE T == {d \in Blocks : a \in Ancestors[d] /\ c \notin Ancestors[d]}
<1>1. a \notin T
  BY Zenon DEF Extends
<1>2. Genesis \notin T
  BY <1>1, GenesisFacts, Zenon
<1>3. ASSUME NEW d \in T PROVE Parent[d] \in T
  BY <1>1, <1>2, BlockFacts, Zenon
<1>4. T = {}
  <2>1. T \in SUBSET Blocks
    BY Zenon
  <2> HIDE DEF T
  <2> QED
    BY <1>2, <1>3, <2>1, LeastBlock, Zenon
<1> QED
  BY <1>4, Zenon DEF Extends

\* The ancestors of a block are on one chain.
LEMMA ExtendsLinear ==
  ASSUME NEW b \in Blocks, NEW a \in Blocks, NEW g \in Blocks,
         Extends(b, a), Extends(b, g), Round[g] <= Round[a]
  PROVE  Extends(a, g)
<1> SUFFICES ASSUME g \notin Ancestors[a] PROVE FALSE
  BY Zenon DEF Extends
<1> DEFINE T == {d \in Blocks : a \in Ancestors[d] /\ g \in Ancestors[d]}
<1>1. Genesis \notin T
  BY GenesisFacts, Zenon
<1>2. ASSUME NEW d \in T PROVE Parent[d] \in T
  <2>1. d \in Blocks /\ d # Genesis /\ a \in Ancestors[d] /\ g \in Ancestors[d]
    BY <1>1, Zenon
  <2>2. a # d
    BY <2>1, Zenon
  <2>3. a \in Ancestors[Parent[d]] /\ Round[a] < Round[d]
    BY <2>1, <2>2, BlockFacts, AncestorRound, Zenon
  <2>4. g # d
    BY <2>3, BlockFacts
  <2> QED
    BY <2>1, <2>3, <2>4, BlockFacts
<1>3. T = {}
  <2>1. T \in SUBSET Blocks
    BY Zenon
  <2> HIDE DEF T
  <2> QED
    BY <1>1, <1>2, <2>1, LeastBlock, Zenon
<1> QED
  BY <1>3, Zenon DEF Extends

\* The blocks of X can be listed by round, as fetch_quorum_cert lists them.
Ascending(s) == \A m, n \in DOMAIN s : m < n => Round[s[m]] < Round[s[n]]

Listable(X) == IsFiniteSet(X) /\ \E s \in [1 .. Cardinality(X) -> X] : Ascending(s)

\* The empty set of blocks can be listed by round.
LEMMA NothingListable == Listable({})
<1>1. IsFiniteSet({}) /\ Cardinality({}) = 0
  BY FS_EmptySet, Zenon
<1>2. [i \in 1 .. 0 |-> i] \in [1 .. 0 -> {}] /\ Ascending([i \in 1 .. 0 |-> i])
  BY DEF Ascending
<1> QED
  BY <1>1, <1>2, Zenon DEF Listable

\* What can be listed by round still can with a block of a higher round.
LEMMA OneMoreListable ==
  ASSUME NEW X \in SUBSET Blocks, Listable(X), NEW d \in Blocks,
         \A x \in X : Round[x] < Round[d]
  PROVE  Listable(X \cup {d})
<1> DEFINE n == Cardinality(X)
<1> DEFINE Y == X \cup {d}
<1>1. d \notin X
  BY BlockFacts
<1>2. IsFiniteSet(Y) /\ Cardinality(Y) = n + 1 /\ n \in Nat
  BY <1>1, FS_AddElement, FS_CardinalityType, Zenon DEF Listable
<1>3. PICK s \in [1 .. n -> X] : Ascending(s)
  BY Zenon DEF Listable
<1> DEFINE t == [i \in 1 .. n + 1 |-> IF i <= n THEN s[i] ELSE d]
<1> HIDE DEF n
<1>4. t \in [1 .. n + 1 -> Y]
  BY <1>2
<1>5. Ascending(t)
  <2> SUFFICES ASSUME NEW k \in 1 .. n + 1, NEW m \in 1 .. n + 1, k < m
               PROVE  Round[t[k]] < Round[t[m]]
    BY Zenon DEF Ascending
  <2>1. k <= n /\ k \in 1 .. n /\ t[k] = s[k] /\ s[k] \in X
    BY <1>2
  <2>2. CASE m <= n
    <3>1. m \in 1 .. n /\ t[m] = s[m]
      BY <1>2, <2>2
    <3> QED
      BY <1>3, <2>1, <3>1, Zenon DEF Ascending
  <2>3. CASE ~ (m <= n)
    BY <2>1, <2>3, Zenon
  <2> QED
    BY <2>2, <2>3, Zenon
<1> HIDE DEF t, Y
<1> QED
  BY <1>2, <1>4, <1>5, Zenon DEF Listable, Y

\* Blocks on one branch can be listed by round, as the retrieval of a branch
\* lists them.
LEMMA AncestorsListable ==
  ASSUME NEW b \in Blocks, NEW X \in SUBSET Ancestors[b]
  PROVE  Listable(X)
<1> DEFINE T == {d \in Blocks : \E Y \in SUBSET Ancestors[d] : ~ Listable(Y)}
<1>1. Genesis \notin T
  <2> SUFFICES ASSUME NEW Y \in SUBSET {Genesis} PROVE Listable(Y)
    BY GenesisFacts, Zenon
  <2>1. Y = {} \/ Y = {} \cup {Genesis}
    BY Zenon
  <2>2. Listable({} \cup {Genesis})
    <3>1. {} \in SUBSET Blocks /\ \A x \in {} : Round[x] < Round[Genesis]
      BY Zenon
    <3> QED
      BY <3>1, GenesisFacts, NothingListable, OneMoreListable, Zenon
  <2> QED
    BY <2>1, <2>2, NothingListable, Zenon
<1>2. ASSUME NEW d \in T PROVE Parent[d] \in T
  <2>1. d \in Blocks /\ d # Genesis
    BY <1>1, Zenon
  <2>2. PICK Y \in SUBSET Ancestors[d] : ~ Listable(Y)
    BY Zenon
  <2> DEFINE Z == Y \ {d}
  <2>3. Parent[d] \in Blocks /\ Z \in SUBSET Ancestors[Parent[d]] /\ Z \in SUBSET Blocks
    BY <2>1, BlockFacts, Zenon
  <2>4. SUFFICES ASSUME Listable(Z) PROVE FALSE
    BY <2>3, Zenon
  <2>5. d \in Y
    <3> SUFFICES ASSUME d \notin Y PROVE FALSE
      BY Zenon
    <3>1. Z = Y
      BY Zenon
    <3> QED
      BY <2>2, <2>4, <3>1, Zenon
  <2>6. \A x \in Z : Round[x] < Round[d]
    BY <2>1, AncestorRound, Zenon
  <2>7. Listable(Z \cup {d})
    <3> HIDE DEF Z
    <3> QED
      BY <2>1, <2>3, <2>4, <2>6, OneMoreListable, Zenon
  <2>8. Z \cup {d} = Y
    BY <2>5, Zenon
  <2> QED
    BY <2>2, <2>7, <2>8, Zenon
<1>3. T = {}
  <2>1. T \in SUBSET Blocks
    BY Zenon
  <2> HIDE DEF T
  <2> QED
    BY <1>1, <1>2, <2>1, LeastBlock, Zenon
<1> QED
  BY <1>3, Zenon

\* fetch_quorum_cert asks for a list of the missing ancestors.
LEMMA ToFetchIsList ==
  ASSUME NEW q \in Blocks
  PROVE  /\ ToFetch(q) \in Seq(Ancestors[q])
         /\ \A n \in 1 .. Len(ToFetch(q)) : Round[ToFetch(q)[n]] > Round[mem.root]
<1> DEFINE missing == {a \in Ancestors[q] : a \notin mem.tree /\ Round[a] > Round[mem.root]}
<1>1. Listable(missing)
  BY AncestorsListable, Zenon
<1> DEFINE k == Cardinality(missing)
<1>2. PICK s \in [1 .. k -> missing] : Ascending(s)
  BY <1>1, Zenon DEF Listable
<1>3. ToFetch(q) \in [1 .. k -> missing]
  BY <1>2, Zenon DEF Ascending, ToFetch
<1>4. missing \subseteq Ancestors[q] /\ \A a \in missing : Round[a] > Round[mem.root]
  BY Zenon
<1> HIDE DEF missing
<1>5. k \in Nat
  BY <1>1, FS_CardinalityType, Zenon DEF Listable
<1> HIDE DEF k
<1> DEFINE f == ToFetch(q)
<1>6. f \in [1 .. k -> missing]
  BY <1>3, Zenon
<1> HIDE DEF f
<1>7. f \in Seq(Ancestors[q]) /\ Len(f) = k /\ \A n \in 1 .. k : Round[f[n]] > Round[mem.root]
  BY <1>4, <1>5, <1>6
<1> QED
  BY <1>7, Zenon DEF f

-----------------------------------------------------------------------------
(* The calls still to be made                                              *)

\* A call is made of its name and its argument.
LEMMA CallFacts ==
  ASSUME NEW name \in Names, NEW arg \in Blocks \cup Nat
  PROVE  Call(name, arg) \in Calls /\ Call(name, arg).call = name /\ Call(name, arg).arg = arg
  BY Zenon DEF Call, Calls

\* The calls a step puts in the place of the first one come before the others.
LEMMA ConcatTail ==
  ASSUME NEW S, NEW s \in Seq(S), NEW w \in Seq(S), w # <<>>
  PROVE  /\ s \o Tail(w) \in Seq(S)
         /\ Len(s \o Tail(w)) = Len(s) + Len(w) - 1
         /\ \A i \in 1 .. Len(s) : (s \o Tail(w))[i] = s[i]
         /\ \A k \in 2 .. Len(w) : (s \o Tail(w))[Len(s) + k - 1] = w[k]
<1> DEFINE t == Tail(w)
<1>1. /\ t \in Seq(S) /\ Len(t) = Len(w) - 1 /\ Len(w) \in Nat /\ Len(w) > 0
      /\ \A i \in 1 .. Len(t) : t[i] = w[i + 1]
  BY HeadTailProperties
<1> HIDE DEF t
<1>2. /\ s \o t \in Seq(S) /\ Len(s) \in Nat /\ Len(s \o t) = Len(s) + Len(t)
  <2>1. s \o t \in Seq(S) /\ Len(s \o t) = Len(s) + Len(t)
    BY <1>1, ConcatProperties, Zenon
  <2>2. Len(s) \in Nat
    OBVIOUS
  <2> QED
    BY <2>1, <2>2, Zenon
<1>3. \A i \in 1 .. Len(s) + Len(t) :
         (s \o t)[i] = IF i <= Len(s) THEN s[i] ELSE t[i - Len(s)]
  BY <1>1, ConcatProperties, Zenon
<1>4. ASSUME NEW k \in 2 .. Len(w) PROVE (s \o t)[Len(s) + k - 1] = w[k]
  <2>1. /\ Len(s) + k - 1 \in 1 .. Len(s) + Len(t) /\ ~ (Len(s) + k - 1 <= Len(s))
        /\ k - 1 \in 1 .. Len(t) /\ (Len(s) + k - 1) - Len(s) = k - 1
    BY <1>1, <1>2
  <2>2. (s \o t)[Len(s) + k - 1] = t[k - 1]
    BY <1>3, <2>1, Zenon
  <2> QED
    BY <1>1, <2>1, <2>2
<1>5. \A i \in 1 .. Len(s) : (s \o t)[i] = s[i]
  BY <1>1, <1>2, <1>3
<1>6. Len(s \o t) = Len(s) + Len(w) - 1
  BY <1>1, <1>2, Zenon
<1> QED
  BY <1>2, <1>4, <1>5, <1>6, Zenon DEF t

\* Calls that may be made stay so as more certificates are held and the
\* highest one rises.
LEMMA PlainMore ==
  ASSUME NEW w \in Seq(Calls), NEW C, NEW H, NEW h \in Nat, NEW H2, NEW h2 \in Nat,
         Plain(w, C, H, h), H \subseteq H2, h <= h2
  PROVE  Plain(w, C, H2, h2)
<1> SUFFICES ASSUME NEW i \in 1 .. Len(w) PROVE CallOK(w, i, C, H2, h2)
  BY Zenon DEF Plain
<1>1. CallOK(w, i, C, H, h)
  BY Zenon DEF Plain
<1>2. ASSUME NEW a \in Blocks \ {Genesis}, Round[Parent[a]] <= h
      PROVE  Round[Parent[a]] <= h2
  BY <1>2, BlockFacts
<1> QED
  BY <1>1, <1>2, Zenon DEF CallOK

\* The calls that replace the first one keep what it has promised.
LEMMA PlainReplaced ==
  ASSUME NEW w \in Seq(Calls), w # <<>>, NEW s \in Seq(Calls), NEW C \in SUBSET Blocks,
         NEW H, NEW h \in Nat, Plain(w, C, H, h), Plain(s, C, H, h),
         Head(w).call \in Inserting =>
           \/ Head(w).arg \in H /\ Round[Head(w).arg] <= h
           \/ \E j \in 1 .. Len(s) : s[j].call \in Inserting /\ s[j].arg = Head(w).arg
  PROVE  Plain(s \o Tail(w), C, H, h)
<1> DEFINE u == s \o Tail(w)
<1>1. /\ u \in Seq(Calls) /\ Len(u) = Len(s) + Len(w) - 1
      /\ \A i \in 1 .. Len(s) : u[i] = s[i]
      /\ \A k \in 2 .. Len(w) : u[Len(s) + k - 1] = w[k]
  <2> HIDE DEF Calls
  <2>1. /\ s \o Tail(w) \in Seq(Calls)
        /\ Len(s \o Tail(w)) = Len(s) + Len(w) - 1
    BY ConcatTail, Zenon
  <2>2. \A i \in 1 .. Len(s) : (s \o Tail(w))[i] = s[i]
    BY ConcatTail
  <2>3. \A k \in 2 .. Len(w) : (s \o Tail(w))[Len(s) + k - 1] = w[k]
    BY ConcatTail
  <2> QED
    BY <2>1, <2>2, <2>3, Zenon
<1>2. Len(s) \in Nat /\ Len(w) \in Nat /\ Len(w) >= 1 /\ Head(w) = w[1]
  BY LenProperties, HeadTailProperties
<1> HIDE DEF u
<1> SUFFICES ASSUME NEW i \in 1 .. Len(u) PROVE CallOK(u, i, C, H, h)
  BY Zenon DEF Plain, u
<1>3. CASE i <= Len(s)
  <2>1. i \in 1 .. Len(s) /\ u[i] = s[i]
    BY <1>1, <1>2, <1>3
  <2>2. ASSUME NEW q, Promised(s, i, q) PROVE Promised(u, i, q)
    <3>1. PICK j \in 1 .. i - 1 : s[j].call \in Inserting /\ s[j].arg = q
      BY <2>2, Zenon DEF Promised
    <3>2. j \in 1 .. Len(s) /\ u[j] = s[j]
      BY <1>1, <1>2, <2>1, SMTT(20)
    <3> QED
      BY <3>1, <3>2, Zenon DEF Promised
  <2>3. CallOK(s, i, C, H, h)
    BY <2>1, Zenon DEF Plain
  <2> QED
    BY <2>1, <2>2, <2>3, Zenon DEF CallOK
<1>4. CASE i > Len(s)
  <2> DEFINE k == i - Len(s) + 1
  <2>1. k \in 2 .. Len(w) /\ i = Len(s) + k - 1
    BY <1>1, <1>2, <1>4
  <2> HIDE DEF k
  <2>2. u[i] = w[k] /\ k \in 1 .. Len(w)
    BY <1>1, <2>1
  <2>3. ASSUME NEW q, Promised(w, k, q)
        PROVE  (q \in H /\ Round[q] <= h) \/ Promised(u, i, q)
    <3>1. PICK j \in 1 .. k - 1 : w[j].call \in Inserting /\ w[j].arg = q
      BY <2>3, Zenon DEF Promised
    <3>2. CASE j = 1 /\ \E m \in 1 .. Len(s) : s[m].call \in Inserting /\ s[m].arg = q
      <4>1. PICK m \in 1 .. Len(s) : s[m].call \in Inserting /\ s[m].arg = q
        BY <3>2, Zenon
      <4>2. m \in 1 .. i - 1 /\ u[m] = s[m]
        BY <1>1, <1>2, <1>4
      <4> QED
        BY <4>1, <4>2, Zenon DEF Promised
    <3>3. CASE j # 1
      <4>1. j \in 2 .. Len(w) /\ Len(s) + j - 1 \in 1 .. i - 1
        BY <1>2, <2>1, <3>3
      <4>2. u[Len(s) + j - 1] = w[j]
        BY <1>1, <4>1, Zenon
      <4> QED
        BY <3>1, <4>1, <4>2, Zenon DEF Promised
    <3> QED
      BY <1>2, <3>1, <3>2, <3>3, Zenon
  <2>4. CallOK(w, k, C, H, h)
    BY <2>2, Zenon DEF Plain
  <2> QED
    BY <2>2, <2>3, <2>4, Zenon DEF CallOK
<1> QED
  BY <1>1, <1>2, <1>3, <1>4

\* The calls left after the first may be made, if what the first was to insert
\* is there.
LEMMA PlainTail ==
  ASSUME NEW w \in Seq(Calls), w # <<>>, NEW C \in SUBSET Blocks,
         NEW H, NEW h \in Nat, Plain(w, C, H, h),
         Head(w).call \in Inserting => Head(w).arg \in H /\ Round[Head(w).arg] <= h
  PROVE  Tail(w) \in Seq(Calls) /\ Plain(Tail(w), C, H, h)
<1> HIDE DEF Calls
<1>1. Tail(w) \in Seq(Calls)
  BY HeadTailProperties, Zenon
<1>2. <<>> \in Seq(Calls) /\ <<>> \o Tail(w) = Tail(w)
  BY <1>1, ConcatEmptySeq
<1>3. Plain(<<>>, C, H, h)
  BY DEF Plain
<1>4. Plain(<<>> \o Tail(w), C, H, h)
  BY <1>2, <1>3, PlainReplaced, Zenon
<1> QED
  BY <1>1, <1>2, <1>4, Zenon

\* No call of a plain program is one of those a commit puts before it.
LEMMA PlainHead ==
  ASSUME NEW w \in Seq(Calls), w # <<>>, NEW C, NEW H, NEW h, Plain(w, C, H, h)
  PROVE  /\ CallOK(w, 1, C, H, h) /\ Head(w) = w[1]
         /\ Head(w).call \notin {"commit_blocks", "prune_tree"}
<1> HIDE DEF Calls
<1>1. Len(w) \in Nat /\ Len(w) >= 1 /\ Head(w) = w[1]
  BY HeadTailProperties
<1>2. CallOK(w, 1, C, H, h)
  BY <1>1 DEF Plain
<1>3. w[1].call \notin {"commit_blocks", "prune_tree"}
  BY <1>2, Zenon DEF CallOK, Inserting
<1> QED
  BY <1>1, <1>2, <1>3, Zenon

\* The first call relies on nothing that is still promised.
LEMMA NothingPromised ==
  ASSUME NEW w, NEW q
  PROVE  ~ Promised(w, 1, q)
  BY DEF Promised

\* A sequence with one more element at its end.
LEMMA AppendFacts ==
  ASSUME NEW S, NEW s \in Seq(S), NEW x \in S
  PROVE  LET u == s \o <<x>>
         IN  /\ u \in Seq(S) /\ Len(u) = Len(s) + 1 /\ Len(s) \in Nat
             /\ u[Len(s) + 1] = x /\ \A k \in 1 .. Len(s) : u[k] = s[k]
  OBVIOUS

\* One more call that may be made behind calls that may be made.
LEMMA PlainAppend ==
  ASSUME NEW s \in Seq(Calls), NEW x \in Calls, NEW C, NEW H, NEW h, Plain(s, C, H, h),
         CallOK(s \o <<x>>, Len(s) + 1, C, H, h)
  PROVE  Plain(s \o <<x>>, C, H, h)
<1> DEFINE u == s \o <<x>>
<1> HIDE DEF Calls
<1>1. /\ u \in Seq(Calls) /\ Len(u) = Len(s) + 1 /\ Len(s) \in Nat
      /\ \A k \in 1 .. Len(s) : u[k] = s[k]
  BY AppendFacts
<1>2. CallOK(u, Len(s) + 1, C, H, h)
  BY Zenon
<1> HIDE DEF u
<1> SUFFICES ASSUME NEW k \in 1 .. Len(u)
             PROVE  CallOK(u, k, C, H, h)
  BY Zenon DEF Plain, u
<1>3. CASE k = Len(s) + 1
  BY <1>2, <1>3, Zenon
<1>4. CASE k # Len(s) + 1
  <2>1. k \in 1 .. Len(s) /\ u[k] = s[k]
    BY <1>1, <1>4
  <2>2. CallOK(s, k, C, H, h)
    BY <2>1, Zenon DEF Plain
  <2>3. ASSUME NEW q, Promised(s, k, q) PROVE Promised(u, k, q)
    <3>1. PICK j \in 1 .. k - 1 : s[j].call \in Inserting /\ s[j].arg = q
      BY <2>3, Zenon DEF Promised
    <3>2. u[j] = s[j]
      BY <1>1, <2>1
    <3> QED
      BY <3>1, <3>2, Zenon DEF Promised
  <2> QED
    BY <2>1, <2>2, <2>3, Zenon DEF CallOK
<1> QED
  BY <1>3, <1>4, Zenon

\* What is left when a call fails may be made.
LEMMA AbandonedPlain ==
  ASSUME work \in Seq(Calls), work # <<>>, NEW C, NEW H, NEW h
  PROVE  Abandoned \in Seq(Calls) /\ Plain(Abandoned, C, H, h)
<1> HIDE DEF Calls
<1>1. CASE Rest # <<>> /\ Rest[Len(Rest)].call = "always_process_certificates"
  <2>1. Rest \in Seq(Calls)
    BY HeadTailProperties, Zenon DEF Rest
  <2>2. Rest[Len(Rest)] \in Calls
    BY <1>1, <2>1
  <2>3. Abandoned = <<Rest[Len(Rest)]>>
    BY <1>1, Zenon DEF Abandoned
  <2> DEFINE x == Rest[Len(Rest)]
  <2>4. x \in Calls /\ x.call = "always_process_certificates" /\ Abandoned = <<x>>
    BY <1>1, <2>2, <2>3, Zenon
  <2> HIDE DEF x
  <2>5. CallOK(<<x>>, 1, C, H, h)
    BY <2>4, Zenon DEF CallOK
  <2> QED
    BY <2>4, <2>5 DEF Plain
<1>2. CASE ~ (Rest # <<>> /\ Rest[Len(Rest)].call = "always_process_certificates")
  <2>1. Abandoned = <<>>
    BY <1>2, Zenon DEF Abandoned
  <2> QED
    BY <2>1 DEF Plain
<1> QED
  BY <1>1, <1>2, Zenon

\* Two calls put before the others.
LEMMA TwoBefore ==
  ASSUME NEW S, NEW a \in S, NEW b \in S, NEW s \in Seq(S)
  PROVE  LET w == <<a, b>> \o s
         IN  /\ w \in Seq(S) /\ w # <<>> /\ Len(w) >= 2
             /\ Head(w) = a /\ w[2] = b /\ Tail(Tail(w)) = s
<1> DEFINE w == <<a, b>> \o s
<1>1. <<a, b>> \in Seq(S) /\ Len(<<a, b>>) = 2
  OBVIOUS
<1>2. /\ w \in Seq(S) /\ Len(w) = 2 + Len(s)
      /\ \A i \in 1 .. 2 + Len(s) : w[i] = IF i <= 2 THEN <<a, b>>[i] ELSE s[i - 2]
  BY <1>1, ConcatProperties, ZenonT(30)
<1> HIDE DEF w
<1>3. Len(s) \in Nat /\ w[1] = a /\ w[2] = b
  BY <1>2
<1>4. w # <<>> /\ Head(w) = a /\ Len(w) >= 2
  BY <1>2, <1>3
<1> DEFINE t == Tail(w)
<1>5. t \in Seq(S) /\ Len(t) = 1 + Len(s) /\ \A i \in 1 .. Len(t) : t[i] = w[i + 1]
  BY <1>2, <1>3, <1>4, HeadTailProperties
<1> HIDE DEF t
<1> DEFINE r == Tail(t)
<1>6. r \in Seq(S) /\ Len(r) = Len(s) /\ \A i \in 1 .. Len(r) : r[i] = t[i + 1]
  BY <1>3, <1>5, HeadTailProperties
<1> HIDE DEF r
<1>7. ASSUME NEW i \in 1 .. Len(s) PROVE r[i] = s[i]
  <2>1. r[i] = t[i + 1] /\ i + 1 \in 1 .. Len(t)
    BY <1>3, <1>5, <1>6
  <2>2. t[i + 1] = w[i + 2] /\ i + 2 \in 1 .. 2 + Len(s) /\ ~ (i + 2 <= 2) /\ (i + 2) - 2 = i
    BY <1>3, <1>5, <2>1
  <2> QED
    BY <1>2, <2>1, <2>2, Zenon
<1>8. r = s
  BY <1>6, <1>7, SeqEqual, Zenon
<1> QED
  BY <1>2, <1>3, <1>4, <1>8, Zenon DEF r, t, w

-----------------------------------------------------------------------------
(* What is certified                                                       *)

\* A commit is of the grandparent, two rounds below.
LEMMA CommitRounds ==
  ASSUME NEW q \in Blocks
  PROVE  /\ CommitInfo(q) \in Blocks /\ CommitRound(q) \in Nat
         /\ CommitRound(q) <= Round[q]
         /\ Commits(q) => /\ CommitRound(q) < Round[q] /\ q # Genesis
                          /\ CommitInfo(q) = Parent[Parent[q]]
                          /\ Extends(q, CommitInfo(q))
         /\ ~ Commits(q) => CommitRound(q) = 0
<1>1. Parent[q] \in Blocks /\ Parent[Parent[q]] \in Blocks
  BY BlockFacts, Zenon
<1>2. /\ Round[q] \in Nat /\ Round[Parent[q]] \in Nat /\ Round[Parent[Parent[q]]] \in Nat
  BY <1>1, BlockFacts, Zenon
<1>3. CASE Commits(q)
  <2>1. q # Genesis /\ Parent[q] # Genesis
    BY <1>2, <1>3, GenesisFacts DEF Commits
  <2>2. Parent[Parent[q]] \in Ancestors[q]
    BY <1>1, <2>1, BlockFacts, Zenon
  <2> QED
    BY <1>1, <1>2, <1>3, <2>1, <2>2 DEF Commits, CommitInfo, CommitRound, Extends
<1>4. CASE ~ Commits(q)
  BY <1>2, <1>4, GenesisFacts DEF CommitInfo, CommitRound
<1> QED
  BY <1>3, <1>4, Zenon

\* What is committed is certified, and every certified block from its round on
\* extends it: the guarantee of the network that PosConsensus establishes.
LEMMA FinalFacts ==
  ASSUME Types, NEW a \in Final
  PROVE  /\ a \in certified /\ a \in Blocks
         /\ \A b \in certified : Round[a] <= Round[b] => Extends(b, a)
<1>1. CASE a = Genesis
  BY <1>1, ExtendsGenesis, GenesisFacts, Zenon DEF Types, Certifiable
<1>2. ASSUME a # Genesis
      PROVE  \E q \in certified : Commits(q) /\ a = CommitInfo(q)
  BY <1>2, Zenon DEF Final
<1>3. ASSUME NEW q \in certified, Commits(q), a = CommitInfo(q)
      PROVE  /\ a \in certified
             /\ \A b \in certified : Round[a] <= Round[b] => Extends(b, a)
  <2>1. a = Parent[Parent[q]] /\ a \in certified /\ certified \subseteq Blocks
    BY <1>3, CommitRounds, Zenon DEF Types, Certifiable
  <2>2. ASSUME NEW b \in certified, Round[a] <= Round[b] PROVE Extends(b, a)
    <3>1. Round[b] \in Nat /\ Round[a] \in Nat
      BY <2>1, BlockFacts, Zenon
    <3>2. Round[b] >= CommitRound(q)
      BY <1>3, <2>2, <3>1, Zenon DEF CommitRound
    <3> QED
      BY <1>3, <3>2, Zenon DEF Types, Certifiable
  <2> QED
    BY <2>1, <2>2, Zenon
<1> QED
  BY <1>1, <1>2, <1>3, Zenon DEF Types

\* The roots and the highest certificate are on one chain.
LEMMA Chain ==
  ASSUME Types, StoreOK
  PROVE  /\ mem.root \in certified /\ db.root \in certified
         /\ Round[mem.root] <= Round[db.root] /\ Round[db.root] <= Round[mem.hqc]
         /\ Extends(mem.hqc, db.root) /\ Extends(mem.hqc, mem.root)
         /\ {mem.root, db.root, mem.hqc, mem.hcc} \subseteq Blocks
<1>1. /\ mem.root \in certified /\ db.root \in certified
      /\ {mem.root, db.root, mem.hqc, mem.hcc} \subseteq Blocks
  BY FinalFacts, Zenon DEF Types, StoreOK, RootsOK, Mems
<1>2. Round[mem.root] \in Nat /\ Round[db.root] \in Nat /\ Round[mem.hqc] \in Nat
  BY <1>1, BlockFacts, Zenon
<1>3. Round[mem.root] <= Round[db.root]
  BY <1>1, <1>2, AncestorRound DEF StoreOK, RootsOK, Extends
<1>4. Round[db.root] <= Round[mem.hqc]
  BY <1>1, <1>2, GenesisFacts DEF StoreOK, DiskOK, QcsOK
<1>5. Extends(mem.hqc, db.root) /\ Extends(mem.hqc, mem.root)
  BY <1>2, <1>3, <1>4, FinalFacts DEF StoreOK, RootsOK, QcsOK
<1> QED
  BY <1>1, <1>3, <1>4, <1>5, Zenon

-----------------------------------------------------------------------------
(* The handlers, and the steps that only change the calls to be made       *)

\* Between commits there is one root, and every call has what it relies on.
LEMMA Running ==
  ASSUME IInv, NEW name, Next1(name), name # "commit_blocks", name # "prune_tree"
  PROVE  /\ up /\ work \in Seq(Calls) /\ work # <<>> /\ Head(work) = work[1]
         /\ Plain(work, certified, Held, Round[mem.hqc])
         /\ CallOK(work, 1, certified, Held, Round[mem.hqc])
         /\ db.root = mem.root
         /\ Round[mem.hqc] \in Nat /\ certified \in SUBSET Blocks
<1>1. up /\ work \in Seq(Calls) /\ work # <<>> /\ ~ Committing /\ ~ Pruning
  BY Zenon DEF IInv, WorkOK, Next1, Committing, Pruning
<1>2. Plain(work, certified, Held, Round[mem.hqc]) /\ db.root = mem.root
  BY <1>1, Zenon DEF IInv, WorkOK
<1>3. Round[mem.hqc] \in Nat /\ certified \in SUBSET Blocks
  BY BlockFacts, Zenon DEF IInv, Types, Mems
<1> HIDE DEF Calls
<1> QED
  BY <1>1, <1>2, <1>3, PlainHead, Zenon

\* When no commit is under way, it is enough that the calls left may be made
\* and the two roots agree.
LEMMA PlainWork ==
  ASSUME work' \in Seq(Calls), ~ up' => work' = <<>>,
         Plain(work', certified', Held', Round[mem'.hqc]),
         up' => db'.root = mem'.root
  PROVE  WorkOK'
<1> HIDE DEF Calls
<1>1. ~ Committing' /\ ~ Pruning'
  <2>1. CASE work' = <<>>
    BY <2>1, Zenon DEF Committing, Pruning
  <2>2. CASE work' # <<>>
    <3>1. Head(work').call \notin {"commit_blocks", "prune_tree"}
      BY <2>2, PlainHead, Zenon
    <3> QED
      BY <3>1, Zenon DEF Committing, Pruning
  <2> QED
    BY <2>1, <2>2, Zenon
<1>2. /\ (work \in Seq(Calls))'
      /\ (~ Committing /\ ~ Pruning => Plain(work, certified, Held, Round[mem.hqc]))'
  BY <1>1, Zenon
<1> HIDE DEF Plain, Committing, Pruning, CommitReady
<1> QED
  BY <1>1, <1>2, Zenon DEF WorkOK

\* What may be certified and what is final depend on the certified blocks
\* alone.
LEMMA SameCertified ==
  ASSUME certified' = certified
  PROVE  /\ Certifiable(certified') = Certifiable(certified)
         /\ Certifiable(certified)' = Certifiable(certified)
         /\ Final' = Final /\ Mems' = Mems /\ Dbs' = Dbs
<1>1. Certifiable(certified)' = Certifiable(certified)
  BY Zenon DEF Certifiable
<1>2. Final' = Final
  BY Zenon DEF Final
<1> QED
  BY <1>1, <1>2, Zenon DEF Mems, Dbs

\* A step that leaves the memory and the disk alone keeps what is said of
\* them.
LEMMA SameStore ==
  ASSUME IInv, certified' = certified, mem' = mem, db' = db, up' \in BOOLEAN
  PROVE  Types' /\ StoreOK' /\ Held' = Held
<1>1. Types'
  BY SameCertified, Zenon DEF IInv, Types
<1>2. Final' = Final /\ Held' = Held
  BY SameCertified, Zenon DEF Held
<1>3. StoreOK'
  BY <1>2, Zenon DEF IInv, StoreOK, RootsOK, TreeOK, PrunedOK, QcsOK, DiskOK
<1> QED
  BY <1>1, <1>2, <1>3, Zenon

\* A step that leaves the store alone and a plain program to run.
LEMMA PlainStep ==
  ASSUME IInv, certified' = certified, mem' = mem, db' = db, up' \in BOOLEAN,
         work' \in Seq(Calls), ~ up' => work' = <<>>,
         Plain(work', certified, Held, Round[mem.hqc]), up' => db.root = mem.root
  PROVE  IInv'
<1>1. Types' /\ StoreOK' /\ Held' = Held
  BY SameStore, Zenon
<1>2. WorkOK'
  <2> HIDE DEF Calls
  <2>1. Plain(work', certified', Held', Round[mem'.hqc])
    BY <1>1, Zenon
  <2> QED
    BY <2>1, PlainWork, Zenon
<1> QED
  BY <1>1, <1>2, Zenon DEF IInv

\* A crash drops the memory and the calls; what is said of the disk stays.
LEMMA CrashKeeps ==
  ASSUME IInv, Crash
  PROVE  IInv'
<1>1. work' \in Seq(Calls) /\ Plain(work', certified, Held, Round[mem.hqc])
  BY DEF Crash, Plain
<1> QED
  BY <1>1, PlainStep, Zenon DEF Crash

\* A handler starts between commits.
LEMMA BeginKeeps ==
  ASSUME IInv, NEW calls \in Seq(Calls), Begin(calls),
         Plain(calls, certified, Held, Round[mem.hqc])
  PROVE  IInv'
<1>1. up /\ work = <<>> /\ work' = calls /\ certified' = certified /\ up' = up
      /\ mem' = mem /\ db' = db
  BY Zenon DEF Begin, Idle
<1>2. db.root = mem.root
  BY <1>1, Zenon DEF IInv, WorkOK, Pruning
<1> HIDE DEF Calls
<1> QED
  BY <1>1, <1>2, PlainStep, Zenon

\* sync_up asks for the two certificates of the peer, then its timeout's.
LEMMA SyncUpPlain ==
  ASSUME IInv, NEW i \in SyncInfos, NEW H, NEW h
  PROVE  SyncUp(i) \in Seq(Calls) /\ Plain(SyncUp(i), certified, H, h)
<1>1. i.hqc \in certified /\ i.hcc \in certified /\ i.tc \in Nat /\ certified \subseteq Blocks
  <2>1. i.hqc \in certified /\ i.hcc \in certified /\ i.tc \in TimeoutRounds \cup {0}
    <3>1. i \in [hqc : certified, hcc : certified, tc : TimeoutRounds \cup {0}]
      BY Zenon DEF SyncInfos
    <3> QED
      BY <3>1, Zenon
  <2>2. i.tc \in Nat
    <3>1. \A t \in TimeoutRounds : t \in Nat
      BY BoundsAssumption, Zenon
    <3>2. CASE i.tc = 0
      BY <3>2
    <3> QED
      BY <2>1, <3>1, <3>2, Zenon
  <2>3. certified \subseteq Blocks
    BY Zenon DEF IInv, Types
  <2> QED
    BY <2>1, <2>2, <2>3, Zenon
<1>2. CASE HasNewerCertificates(i, LocalSyncInfo)
  <2> DEFINE s == <<Call("insert_quorum_cert", i.hcc), Call("insert_quorum_cert", i.hqc),
                    Call("insert_timeout_certificate", i.tc),
                    Call("process_certificates", Genesis)>>
  <2>1. SyncUp(i) = s
    BY <1>2, Zenon DEF SyncUp
  <2>2. s \in Seq(Calls) /\ Len(s) = 4
    BY <1>1, GenesisFacts DEF Calls, Call, Names
  <2>3. /\ s[1].call \in Inserting /\ s[1].arg = i.hcc
        /\ s[2].call \in Inserting /\ s[2].arg = i.hqc
        /\ s[3].call = "insert_timeout_certificate" /\ s[3].arg = i.tc
        /\ s[4].call = "process_certificates"
    BY Zenon DEF Call, Inserting
  <2> HIDE DEF s
  <2>4. ASSUME NEW k \in 1 .. 4 PROVE CallOK(s, k, certified, H, h)
    <3>1. k = 1 \/ k = 2 \/ k = 3 \/ k = 4
      OBVIOUS
    <3> QED
      BY <1>1, <2>3, <3>1, Zenon DEF CallOK
  <2> QED
    BY <2>1, <2>2, <2>4, Zenon DEF Plain
<1>3. CASE ~ HasNewerCertificates(i, LocalSyncInfo)
  BY <1>3 DEF SyncUp, Plain
<1> QED
  BY <1>2, <1>3, Zenon

\* A sync info begins the calls of add_certs.
LEMMA ReceiveSyncInfoKeeps ==
  ASSUME IInv, NEW i \in SyncInfos, ReceiveSyncInfo(i)
  PROVE  IInv'
<1> HIDE DEF Calls
<1>1. SyncUp(i) \in Seq(Calls) /\ Plain(SyncUp(i), certified, Held, Round[mem.hqc])
  BY SyncUpPlain, Zenon
<1>2. Begin(SyncUp(i))
  BY Zenon DEF ReceiveSyncInfo
<1> QED
  BY <1>1, <1>2, BeginKeeps, Zenon

\* A proposal begins the calls of add_certs and process_proposal.
LEMMA ReceiveProposalKeeps ==
  ASSUME IInv, NEW b \in Blocks, NEW i \in SyncInfos, ReceiveProposal(b, i)
  PROVE  IInv'
<1> DEFINE x == Call("process_proposal", b)
<1> DEFINE s == SyncUp(i)
<1> DEFINE u == s \o <<x>>
<1>1. s \in Seq(Calls) /\ Plain(s, certified, Held, Round[mem.hqc])
  BY SyncUpPlain, Zenon
<1>2. x \in Calls /\ x.call = "process_proposal" /\ x.arg = b
  BY Zenon DEF Call, Calls, Names
<1>3. \/ Round[Parent[b]] <= Round[mem.hqc]
      \/ \E j \in 1 .. Len(s) : s[j].call \in Inserting /\ s[j].arg = Parent[b]
  <2>1. CASE HasNewerCertificates(i, LocalSyncInfo)
    <3>1. Len(s) = 4 /\ s[2] = Call("insert_quorum_cert", i.hqc)
      BY <2>1, Zenon DEF SyncUp
    <3> QED
      BY <3>1 DEF ReceiveProposal, Inserting, Call
  <2>2. CASE ~ HasNewerCertificates(i, LocalSyncInfo)
    <3>1. i.hqc = Parent[b] /\ Parent[b] \in Blocks /\ mem.hqc \in Blocks
      BY BlockFacts, Zenon DEF ReceiveProposal, IInv, Types, Mems
    <3>2. ~ (Round[i.hqc] > Round[mem.hqc])
      BY <2>2, Zenon DEF HasNewerCertificates, LocalSyncInfo
    <3> QED
      BY <3>1, <3>2, BlockFacts
  <2> QED
    BY <2>1, <2>2, Zenon
<1>4. b \in Blocks \ {Genesis} /\ Begin(u)
  BY Zenon DEF ReceiveProposal
<1> HIDE DEF x, s, Calls
<1>5. u \in Seq(Calls) /\ Len(u) = Len(s) + 1 /\ Len(s) \in Nat
      /\ u[Len(s) + 1] = x /\ \A k \in 1 .. Len(s) : u[k] = s[k]
  BY <1>1, <1>2
<1> HIDE DEF u
<1>6. Plain(u, certified, Held, Round[mem.hqc])
  <2>1. Round[Parent[b]] <= Round[mem.hqc] \/ Promised(u, Len(s) + 1, Parent[b])
    BY <1>3, <1>5 DEF Promised
  <2>2. CallOK(u, Len(s) + 1, certified, Held, Round[mem.hqc])
    BY <1>2, <1>4, <1>5, <2>1, Zenon DEF CallOK
  <2> QED
    BY <1>1, <1>2, <2>2, PlainAppend, Zenon DEF u
<1> QED
  BY <1>4, <1>5, <1>6, BeginKeeps, Zenon

\* A nil block begins the call of process_proposal.
LEMMA GenerateNilBlockKeeps ==
  ASSUME IInv, NEW b \in Blocks, GenerateNilBlock(b)
  PROVE  IInv'
<1> DEFINE u == <<Call("process_proposal", b)>>
<1>1. u \in Seq(Calls) /\ Len(u) = 1 /\ u[1].call = "process_proposal" /\ u[1].arg = b
  BY DEF Call, Calls, Names
<1>2. b \in Blocks \ {Genesis} /\ Parent[b] = mem.hqc /\ Begin(u)
  BY Zenon DEF GenerateNilBlock
<1> HIDE DEF u
<1>3. Round[Parent[b]] <= Round[mem.hqc]
  BY <1>2, BlockFacts
<1>4. CallOK(u, 1, certified, Held, Round[mem.hqc])
  BY <1>1, <1>2, <1>3, Zenon DEF CallOK
<1>5. Plain(u, certified, Held, Round[mem.hqc])
  BY <1>1, <1>4 DEF Plain
<1> HIDE DEF Calls
<1> QED
  BY <1>1, <1>2, <1>5, BeginKeeps, Zenon

\* new_qc_aggregated and new_tc_aggregated: one insertion, then the last call.
LEMMA AggregatedKeeps ==
  ASSUME IInv, NEW q \in certified \cup Nat, NEW name,
         \/ name = "insert_quorum_cert" /\ q \in certified
         \/ name = "insert_timeout_certificate" /\ q \in Nat,
         Begin(<<Call(name, q), Call("always_process_certificates", Genesis)>>)
  PROVE  IInv'
<1> DEFINE u == <<Call(name, q), Call("always_process_certificates", Genesis)>>
<1>1. /\ u \in Seq(Calls) /\ Len(u) = 2 /\ u[1].call = name /\ u[1].arg = q
      /\ u[2].call = "always_process_certificates"
  BY GenesisFacts DEF Call, Calls, Names, IInv, Types
<1>2. Begin(u)
  BY Zenon
<1> HIDE DEF u
<1>3. CallOK(u, 1, certified, Held, Round[mem.hqc]) /\ CallOK(u, 2, certified, Held, Round[mem.hqc])
  BY <1>1, Zenon DEF CallOK, Inserting
<1>4. Plain(u, certified, Held, Round[mem.hqc])
  <2> SUFFICES ASSUME NEW k \in 1 .. Len(u)
               PROVE  CallOK(u, k, certified, Held, Round[mem.hqc])
    BY Zenon DEF Plain
  <2>1. k = 1 \/ k = 2
    BY <1>1
  <2> QED
    BY <1>3, <2>1, Zenon
<1> HIDE DEF Calls
<1> QED
  BY <1>1, <1>2, <1>4, BeginKeeps, Zenon

-----------------------------------------------------------------------------
(* insert_quorum_cert and the retrieval of blocks                          *)

\* The ancestors of a certified block are certified.
LEMMA AncestorsCertified ==
  ASSUME Types, NEW b \in certified
  PROVE  Ancestors[b] \subseteq certified
<1> SUFFICES ASSUME NEW a \in Ancestors[b], a \notin certified PROVE FALSE
  BY Zenon
<1> DEFINE T == {d \in certified : a \in Ancestors[d]}
<1>1. certified \subseteq Blocks /\ Genesis \in certified
      /\ \A d \in certified : Parent[d] \in certified
  BY Zenon DEF Types, Certifiable
<1>2. Genesis \notin T
  BY <1>1, GenesisFacts, Zenon
<1>3. ASSUME NEW d \in T PROVE Parent[d] \in T
  BY <1>1, <1>2, BlockFacts
<1>4. T = {}
  <2>1. T \in SUBSET Blocks
    BY <1>1, Zenon
  <2> HIDE DEF T
  <2> QED
    BY <1>2, <1>3, <2>1, LeastBlock, Zenon
<1> QED
  BY <1>4, Zenon

\* No certificate the store holds is higher than highest_quorum_cert.
LEMMA HeldRound ==
  ASSUME Types, StoreOK, NEW q \in Held
  PROVE  Round[q] \in Nat /\ Round[q] <= Round[mem.hqc]
<1>1. /\ Round[q] \in Nat /\ Round[mem.root] \in Nat /\ Round[db.root] \in Nat
      /\ Round[mem.hqc] \in Nat
  BY Chain, BlockFacts, Zenon DEF Held, Types
<1>2. Round[mem.root] <= Round[mem.hqc]
  BY <1>1, Chain
<1>3. CASE Round[q] <= Round[mem.root]
  BY <1>1, <1>2, <1>3
<1>4. CASE q \in db.qcs
  BY <1>1, <1>4, Zenon DEF StoreOK, QcsOK
<1> QED
  BY <1>1, <1>3, <1>4, Zenon DEF Held

\* insert_quorum_cert: a certificate that needs nothing is in place already.
LEMMA NothingToInsert ==
  ASSUME Types, StoreOK, NEW q \in certified, ~ NeedFetch(q), ~ QCBlockExist(q)
  PROVE  q \in Held
<1>1. Round[q] \in Nat /\ Round[mem.root] \in Nat
  BY Chain, BlockFacts, Zenon DEF Types
<1>2. CASE Round[q] <= Round[mem.root]
  BY <1>2, Zenon DEF Held
<1>3. CASE Round[q] > Round[mem.root]
  BY <1>1, <1>3 DEF NeedFetch, QCBlockExist, StoreOK, QcsOK, Held
<1> QED
  BY <1>1, <1>2, <1>3

\* The blocks a retrieval returned may all be inserted, in the order of their
\* rounds.
LEMMA FetchedPlain ==
  ASSUME Types, StoreOK, NEW q \in certified, NEW H, NEW h
  PROVE  LET s == [n \in DOMAIN ToFetch(q) |-> Call("insert_fetched", ToFetch(q)[n])]
         IN  s \in Seq(Calls) /\ Plain(s, certified, H, h)
<1> DEFINE f == ToFetch(q)
<1> DEFINE s == [n \in DOMAIN f |-> Call("insert_fetched", f[n])]
<1>1. f \in Seq(Ancestors[q]) /\ \A n \in 1 .. Len(f) : Round[f[n]] > Round[mem.root]
  BY ToFetchIsList, Zenon DEF Types
<1> HIDE DEF f
<1>2. ASSUME NEW n \in 1 .. Len(f) PROVE f[n] \in certified \ {Genesis} /\ f[n] \in Blocks
  <2>1. f[n] \in Ancestors[q] /\ Round[f[n]] > Round[mem.root]
    BY <1>1
  <2>2. f[n] \in certified /\ certified \subseteq Blocks
    BY <2>1, AncestorsCertified, Zenon DEF Types
  <2>3. Round[mem.root] \in Nat
    BY BlockFacts, Zenon DEF Types, Mems
  <2> QED
    BY <2>1, <2>2, <2>3, GenesisFacts
<1>3. DOMAIN f = 1 .. Len(f) /\ Len(f) \in Nat
  BY <1>1
<1>4. \A n \in 1 .. Len(f) : Call("insert_fetched", f[n]) \in Calls
  BY <1>2, CallFacts, Zenon DEF Names
<1>5. s \in [1 .. Len(f) -> Calls]
  BY <1>3, <1>4, Zenon
<1>6. \A n \in 1 .. Len(f) : s[n].call = "insert_fetched" /\ s[n].arg = f[n]
  BY <1>3, Zenon DEF Call
<1> HIDE DEF s, Calls
<1> DEFINE k == Len(f)
<1>7. s \in [1 .. k -> Calls] /\ k \in Nat
  BY <1>3, <1>5, Zenon
<1> HIDE DEF k
<1>8. s \in Seq(Calls) /\ Len(s) = k
  BY <1>7
<1>9. ASSUME NEW n \in 1 .. k PROVE CallOK(s, n, certified, H, h)
  BY <1>2, <1>6, Zenon DEF CallOK, k
<1>10. Plain(s, certified, H, h)
  BY <1>8, <1>9, Zenon DEF Plain
<1> QED
  BY <1>8, <1>10, Zenon DEF s, f

\* The commit of insert_quorum_cert comes after the insertion it relies on.
LEMMA ThenCommit ==
  ASSUME NEW s \in Seq(Calls), NEW C \in SUBSET Blocks, NEW H, NEW h,
         Plain(s, C, H, h), NEW q \in C,
         q \in H \/ \E j \in 1 .. Len(s) : s[j].call \in Inserting /\ s[j].arg = q
  PROVE  LET u == s \o <<Call("commit", q)>>
         IN  /\ u \in Seq(Calls) /\ Plain(u, C, H, h)
             /\ \A j \in 1 .. Len(s) : j \in 1 .. Len(u) /\ u[j] = s[j]
<1> DEFINE x == Call("commit", q)
<1> DEFINE u == s \o <<x>>
<1>1. x \in Calls /\ x.call = "commit" /\ x.arg = q
  BY CallFacts, Zenon DEF Names
<1> HIDE DEF x, Calls
<1>2. /\ u \in Seq(Calls) /\ Len(u) = Len(s) + 1 /\ Len(s) \in Nat
      /\ u[Len(s) + 1] = x /\ \A k \in 1 .. Len(s) : u[k] = s[k]
  BY <1>1, AppendFacts
<1>3. CallOK(u, Len(s) + 1, C, H, h)
  <2> HIDE DEF u
  <2>1. q \in H \/ Promised(u, Len(s) + 1, q)
    BY <1>2 DEF Promised
  <2> QED
    BY <1>1, <1>2, <2>1, Zenon DEF CallOK
<1>4. Plain(u, C, H, h)
  BY <1>1, <1>3, PlainAppend, Zenon
<1> HIDE DEF u
<1> QED
  BY <1>2, <1>4 DEF u, x

\* insert_quorum_cert: the blocks to fetch, the certificate and its commit are
\* to follow.
LEMMA InsertQuorumCertKeeps ==
  ASSUME IInv, InsertQuorumCert
  PROVE  IInv'
<1> DEFINE H == Held
<1> DEFINE h == Round[mem.hqc]
<1>1. /\ up /\ work \in Seq(Calls) /\ work # <<>> /\ Plain(work, certified, H, h)
      /\ db.root = mem.root /\ h \in Nat /\ certified \in SUBSET Blocks
      /\ CallOK(work, 1, certified, H, h) /\ Head(work) = work[1]
  BY Running, Zenon DEF InsertQuorumCert
<1>2. Types /\ StoreOK
  BY Zenon DEF IInv
<1>3. Head(work).call = "insert_quorum_cert" /\ Head(work).arg = Arg
  BY Zenon DEF InsertQuorumCert, Next1, Arg
<1>4. Arg \in certified
  BY <1>1, <1>3, Zenon DEF CallOK, Inserting
<1> DEFINE y == Call("insert_single_quorum_cert", Arg)
<1>5. y \in Calls /\ y.call \in Inserting /\ y.arg = Arg
  BY <1>1, <1>4, CallFacts DEF Names, Inserting
<1> DEFINE f == [n \in DOMAIN ToFetch(Arg) |-> Call("insert_fetched", ToFetch(Arg)[n])]
<1> DEFINE s == IF NeedFetch(Arg) THEN f \o <<y>>
                ELSE IF QCBlockExist(Arg) THEN <<y>> ELSE <<>>
<1>6. work' = s \o <<Call("commit", Arg)>> \o Tail(work)
  BY Zenon DEF InsertQuorumCert, Rest
<1>7. /\ s \in Seq(Calls) /\ Plain(s, certified, H, h)
      /\ \/ Arg \in H /\ Round[Arg] <= h
         \/ \E j \in 1 .. Len(s) : s[j].call \in Inserting /\ s[j].arg = Arg
  <2>1. CASE NeedFetch(Arg)
    <3>1. f \in Seq(Calls) /\ Plain(f, certified, H, h)
      BY <1>2, <1>4, FetchedPlain, Zenon
    <3>2. s = f \o <<y>>
      BY <2>1, Zenon
    <3> HIDE DEF f, s, H, h, y, Calls
    <3>3. /\ s \in Seq(Calls) /\ Len(s) = Len(f) + 1 /\ Len(f) \in Nat
          /\ s[Len(f) + 1] = y
      BY <1>5, <3>1, <3>2, AppendFacts, Zenon
    <3>4. CallOK(s, Len(f) + 1, certified, H, h)
      BY <1>4, <1>5, <3>3, Zenon DEF CallOK
    <3>5. Plain(s, certified, H, h)
      BY <1>5, <3>1, <3>2, <3>4, PlainAppend, Zenon
    <3> QED
      BY <1>5, <3>3, <3>5
  <2>2. CASE ~ NeedFetch(Arg) /\ QCBlockExist(Arg)
    <3>1. s = <<y>>
      BY <2>2, Zenon
    <3> HIDE DEF s, y, H, h, Calls
    <3>2. s \in Seq(Calls) /\ Len(s) = 1 /\ s[1] = y
      BY <1>5, <3>1
    <3>3. CallOK(s, 1, certified, H, h)
      BY <1>4, <1>5, <3>2, Zenon DEF CallOK
    <3> QED
      BY <1>5, <3>2, <3>3 DEF Plain
  <2>3. CASE ~ NeedFetch(Arg) /\ ~ QCBlockExist(Arg)
    <3>1. Arg \in H /\ Round[Arg] <= h
      BY <1>2, <1>4, <2>3, NothingToInsert, HeldRound, Zenon
    <3>2. s = <<>>
      BY <2>3, Zenon
    <3> HIDE DEF s, H, h
    <3> QED
      BY <3>1, <3>2 DEF Plain
  <2> QED
    BY <2>1, <2>2, <2>3, SMTT(20)
<1> HIDE DEF s, H, h, Calls
<1> DEFINE u == s \o <<Call("commit", Arg)>>
<1>8. /\ u \in Seq(Calls) /\ Plain(u, certified, H, h)
      /\ \A j \in 1 .. Len(s) : j \in 1 .. Len(u) /\ u[j] = s[j]
  BY <1>1, <1>4, <1>7, ThenCommit
<1> HIDE DEF u
<1>9. \/ Arg \in H /\ Round[Arg] <= h
      \/ \E j \in 1 .. Len(u) : u[j].call \in Inserting /\ u[j].arg = Arg
  BY <1>7, <1>8, Zenon
<1>10. Plain(u \o Tail(work), certified, H, h) /\ u \o Tail(work) \in Seq(Calls)
  BY <1>1, <1>3, <1>8, <1>9, PlainReplaced, ConcatTail, Zenon
<1>11. work' = u \o Tail(work)
  BY <1>6, Zenon DEF u
<1> QED
  BY <1>1, <1>10, <1>11, PlainStep, Zenon DEF H, h, InsertQuorumCert

\* A retrieval that fails gives the calls up.
LEMMA RetrievalFailsKeeps ==
  ASSUME IInv, RetrievalFails
  PROVE  IInv'
<1> HIDE DEF Calls
<1>1. up /\ work \in Seq(Calls) /\ work # <<>> /\ db.root = mem.root
  BY Running, Zenon DEF RetrievalFails
<1>2. Abandoned \in Seq(Calls) /\ Plain(Abandoned, certified, Held, Round[mem.hqc])
  BY <1>1, AbandonedPlain, Zenon
<1> QED
  BY <1>1, <1>2, PlainStep, Zenon DEF RetrievalFails

\* One retrieved block: its certificate goes in before it is executed.
LEMMA InsertFetchedKeeps ==
  ASSUME IInv, InsertFetched
  PROVE  IInv'
<1> DEFINE H == Held
<1> DEFINE h == Round[mem.hqc]
<1>1. /\ up /\ work \in Seq(Calls) /\ work # <<>> /\ Plain(work, certified, H, h)
      /\ db.root = mem.root /\ h \in Nat /\ certified \in SUBSET Blocks
      /\ CallOK(work, 1, certified, H, h) /\ Head(work) = work[1]
  BY Running, Zenon DEF InsertFetched
<1>2. Head(work).call = "insert_fetched" /\ Head(work).arg = Arg
  BY Zenon DEF InsertFetched, Next1, Arg
<1>3. Arg \in certified \ {Genesis}
  BY <1>1, <1>2, Zenon DEF CallOK, Inserting
<1>4. Arg \in Blocks /\ Parent[Arg] \in certified /\ Parent[Arg] \in Blocks
  BY <1>1, <1>3, Zenon DEF IInv, Types, Certifiable
<1> DEFINE t == <<Call("insert_single_quorum_cert", Parent[Arg]),
                  Call("execute_and_insert_block", Arg), Call("try_commit", Parent[Arg])>>
<1> DEFINE s == IF Arg \in mem.tree \/ Round[Arg] <= Round[mem.root] THEN <<>> ELSE t
<1>5. work' = s \o Tail(work)
  BY Zenon DEF InsertFetched, Rest
<1>6. /\ t \in Seq(Calls) /\ Len(t) = 3
      /\ t[1].call \in Inserting /\ t[1].arg = Parent[Arg]
      /\ t[2].call = "execute_and_insert_block" /\ t[2].arg = Arg
      /\ t[3].call = "try_commit" /\ t[3].arg = Parent[Arg]
  <2>1. /\ Call("insert_single_quorum_cert", Parent[Arg]) \in Calls
        /\ Call("execute_and_insert_block", Arg) \in Calls
        /\ Call("try_commit", Parent[Arg]) \in Calls
    BY <1>4, CallFacts, Zenon DEF Names
  <2>2. t \in Seq(Calls) /\ Len(t) = 3
    <3> HIDE DEF Calls
    <3> QED
      BY <2>1
  <2>3. /\ t[1].call \in Inserting /\ t[1].arg = Parent[Arg]
        /\ t[2].call = "execute_and_insert_block" /\ t[2].arg = Arg
        /\ t[3].call = "try_commit" /\ t[3].arg = Parent[Arg]
    BY Zenon DEF Call, Inserting
  <2> QED
    BY <2>2, <2>3, Zenon
<1>7. s = <<>> \/ s = t
  BY Zenon
<1> HIDE DEF t, s, H, h, Calls
<1>8. Plain(t, certified, H, h)
  <2>1. Promised(t, 2, Parent[Arg]) /\ Promised(t, 3, Parent[Arg])
    <3>1. 1 \in 1 .. 2 - 1 /\ 1 \in 1 .. 3 - 1
      OBVIOUS
    <3> QED
      BY <1>6, <3>1, Zenon DEF Promised
  <2>2. CallOK(t, 1, certified, H, h)
    BY <1>4, <1>6, Zenon DEF CallOK
  <2>3. CallOK(t, 2, certified, H, h)
    BY <1>3, <1>4, <1>6, <2>1, Zenon DEF CallOK
  <2>4. CallOK(t, 3, certified, H, h)
    BY <1>4, <1>6, <2>1, Zenon DEF CallOK
  <2>5. ASSUME NEW i \in 1 .. 3 PROVE i = 1 \/ i = 2 \/ i = 3
    OBVIOUS
  <2> QED
    BY <1>6, <2>2, <2>3, <2>4, <2>5, Zenon DEF Plain
<1>9. s \in Seq(Calls) /\ Plain(s, certified, H, h)
  <2>1. CASE s = <<>>
    BY <2>1 DEF Plain
  <2>2. CASE s = t
    BY <1>6, <1>8, <2>2, Zenon
  <2> QED
    BY <1>7, <2>1, <2>2, Zenon
<1>10. Plain(s \o Tail(work), certified, H, h) /\ s \o Tail(work) \in Seq(Calls)
  <2>1. Head(work).call \notin Inserting
    BY <1>2, Zenon DEF Inserting
  <2> QED
    BY <1>1, <1>9, <2>1, PlainReplaced, ConcatTail, Zenon
<1> QED
  BY <1>1, <1>5, <1>10, PlainStep, Zenon DEF H, h, InsertFetched

=============================================================================
