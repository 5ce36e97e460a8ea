# A TLA+ model of the Conflux node

Conflux runs two chains. The PoW tree-graph orders transactions; a PoS chain
(DiemBFT, a HotStuff with a 3-chain commit rule and VRF-elected proposers)
finalises its pivot blocks. This project models three parts of the node where
threads, crashes and messages meet, and proves their safety properties for all
parameters:

* the PoS chain, from the validator's disk up to the agreement of ledgers;
* the transaction pool, with the callers, the executor and the miner around it;
* the request manager of the synchronization protocol, with its handlers,
  timers, queue workers and peers.

The rest of the node is inventoried below, with what is planned for it.

Paths are relative to the repository; `pos/consensus` stands for
`crates/cfxcore/core/src/pos/consensus`, `safety-rules` for
`crates/pos/consensus/safety-rules/src`, `tx_pool` for
`crates/cfxcore/core/src/transaction_pool`, `sync` for
`crates/cfxcore/core/src/sync`.

## 1. The parts of the system

| Part | State | Operations | What makes it hard |
|---|---|---|---|
| Safety rules (`safety-rules/safety_rules.rs`) | `SafetyData` | vote, propose, time out, initialise for an epoch | rules must hold over crashes and repeated requests |
| Safety storage (`safety-rules/persistent_safety_storage.rs`, `crates/pos/secure/storage`) | file, cache, `.save` file | read, write, `save_to_suffix`, `replace_with_suffix` | crash between writes, stale cache, two hosts with one key |
| Quorums (`crates/pos/types/types/src/validator_verifier.rs`) | votes per validator | `check_voting_power` | rounding of the threshold |
| Block store (`pos/consensus/block_storage`, `persistent_liveness_storage.rs`) | block tree, certificates, consensus DB, ledger | insert, retrieve, commit, prune, recover | several writes per handler, early returns, pruning |
| Executor (`crates/pos/consensus/executor`, speculation cache) | executed blocks, ledger DB | execute, commit | asserts on what other parts have written |
| Rounds (`pos/consensus/round_manager.rs`, `liveness/`, `pending_votes.rs`) | round, timers, votes, candidate | messages, three timers | lost and repeated messages, timers of old rounds, restarts |
| Epochs (`pos/consensus/epoch_manager.rs`) | round manager of the epoch | change of epoch, recovery, start/stop voting | timers and messages of another epoch |
| Election (`crates/pos/types/types/src/term_state.rs`) | terms, node lock status | elect, retire, forfeit, next view | long legal sequences, boundary views |
| PoS mempool, network, ledger storage | pools, sessions, tables | - | bounded pools, partial broadcast |
| Consensus graph (`crates/cfxcore/core/src/consensus`) | tree graph, eras, pivot chain | new block, checkpoint | weights, era changes, PoS references |
| Consensus executor | task queue, results | execute epoch, wait | waiting while holding a lock |
| Request manager (`sync/request_manager`, the handlers in `sync/message`) | requests, in-flight keys, pending and waiting queues | ask, send, answer, time out, resend | late answers, peers that leave, locks given up between two steps |
| Rest of synchronization (`sync`) | block arena, phases, snapshot sync | messages, timeouts | readiness of blocks, peers that leave |
| Transaction pool (`tx_pool`, `crates/cfxcore/packing-pool`) | buckets, readiness, collector | insert, pack, evict | stale state, eviction at capacity |
| Storage (`crates/dbs`) | snapshots, delta MPTs | make, prune, recover | crash between snapshot steps |
| Execution engine, RPC, light protocol, mining, tools | - | - | sequential or pure I/O for the most part |

`PROJECT.json` lists every part with its sources and status, and the hazards
with the line where each one bites.

Interactions: `EpochManager` hands messages and timers to one `RoundManager`,
one at a time. It brings certificates into the `BlockStore`, which writes the
consensus DB, executes and commits; it asks `SafetyRules` for signatures, which
writes the safety storage first; and it broadcasts votes, which other
validators aggregate by `ValidatorVerifier` into certificates.

The transaction pool is called by RPC and network threads, by the consensus
worker (packed and orphaned transactions) and by threads of the executor (the
accounts an epoch has modified). The request manager is called by the handlers of
the synchronization protocol, by its timers and by the workers that recover the
senders of block transactions; the network tells it who connects and leaves.

## 2. Modules

| Module | Models | Used by |
|---|---|---|
| `SafetyRules` | the rules as predicates and updates on `SafetyData` | `ValidatorSafety`, `PosConsensus`, `RoundManager` |
| `VotingPromise` | abstract: the votes a key may ever release | refined by `ValidatorSafety` and `RoundManager`, assumed by `PosConsensus` |
| `ValidatorSafety` | one key, its hosts, files, caches, processes and the operator | `MCValidatorSafety` |
| `ValidatorVerifier` | voting power and quorums | `PosConsensus`, `RoundManager` |
| `PosConsensus` | all validators of an epoch, certificates, commits, ledgers | `MCPosConsensus` |
| `BlockStore` | one node's tree, DB, executor and recovery | `MCBlockStore` |
| `RoundManager` | rounds, timers, pending votes and messages of several nodes | `MCRoundManager` |
| `PackingBatch` | the batch of one sender in the packing pool, as operators | `NoncePool` |
| `NoncePool` | the nonce bucket of one sender and what its treap answers, as operators | `TransactionPool` |
| `TransactionPool` | the pool, its garbage collector, its buffers and its callers | `MCTransactionPool` |
| `RequestManager` | requests, in-flight keys, peers, handlers and timers | `MCRequestManager` |
| `BlockStoreCalls` | the inductive invariant of `BlockStore`, and lemmas on the calls a handler is made of | `BlockStoreProofs` |
| `PackingPoolProofs` | the theorems about the batches of `TransactionPool`, on top of those about its indexes | - |
| other `*Proofs` | the theorems about the module they are named after | - |

### How the pieces fit

`ValidatorSafety` implements `VotingPromise` (runs `host` and `handover`,
theorem `PromiseKept`). So does every node of `RoundManager` (run `rounds`, theorem
`NodeImplementsPromise`). `PosConsensus` lets each honest validator do exactly what
`VotingPromise` allows, takes its quorums from `ValidatorVerifier`, and shows
agreement. `BlockStore` and `RoundManager` look inside one step of that
argument: what a node does with the certificates of a set that `PosConsensus`
allows, and how rounds and timers bring certificates about. `TransactionPool`
and `RequestManager` stand by themselves: what the executor and the network do to
them is part of the module.

### SafetyRules, VotingPromise, ValidatorSafety

A block is seen by the rules through five fields: epoch, round, the rounds of
its parent and grandparent certificates (`one_chain_round`, `two_chain_round`),
and an id. `ValidatorSafety` has per host the main file and the `.save` file,
`cache` (`cached_safety_data`), `signer`, `is_voting`, the epoch of the round
manager, `last_round_generated` and the epoch of the ledger. A request is one
step; a crash in the middle of it is `CrashAfterPersist` (after the write,
before the signature leaves) or `CrashInInitialize` (between the two writes);
a failed write is an outcome of each request. The retry in
`MetricsSafetyRules` is `RetryInitialize` followed by the request.

`owner` and `fresh` are the operator's discipline, which the code cannot
enforce: a host is let vote only after the other one's `stop_voting`, and only
from its last `.save` file (`tests/pos/backup_voter_test.py`). Durability is
against a crash of the process: the file is replaced by a rename without fsync.
Certificates in a request are taken as verified. The configuration without a
safety-data cache is not modelled.

### ValidatorVerifier, PosConsensus

`Votes[v]` is the set of votes of validator v, so the voting power of a set is a
cardinality and `QuorumVotingPower` is the code's `total * 2 / 3 + 1`. In
`PosConsensus` a Byzantine vote counts for every block from the start, and a
vote once cast may show up in a certificate any time later or never; this covers
every loss, delay, repetition and order of messages. Blocks are any tree with
growing rounds.

### BlockStore

A handler of the round manager is a sequence of calls (`work`); one step makes
one call with the one write it does, and the process may crash between any two.
An error abandons the rest of the handler except what the code runs regardless.
`mem` is the block tree with its buffer of pruned blocks, the speculation cache
and the current round; `db` is the consensus DB and the ledger. `certified` is
any set of certificates with one block per round and committed blocks final,
as `PosConsensus` proves. Retrieval of blocks may fail, deletion on disk may
fail. The module covers one epoch; execution is deterministic.

### RoundManager

`Node` run the code, `Peer` send whatever passes verification. A handler works
on a record of the node's state and yields the set of its outcomes; `Then` is the
`?` operator. `msgs` is the set of all messages sent by nodes, so a message can
be received late, again, out of order or never. A timer that fires in another
round than its own is ignored by the code, so a new round drops the old timers.
The disk is taken to work while the process runs; `Crash` may happen between two
handlers and `CrashInVote` between the write of SafetyRules, `save_vote` and the
broadcast. Votes that complete no certificate, duplicates, equivocations,
relays, the help for a peer that is behind, and the early returns of `sync_up`
are all there. `is_voting` is true and `sync_only` false. Nil blocks are
executed without error. Pivot-decision and election transactions and disputes
are left out: no rule of the rounds reads them.

### PackingBatch, NoncePool, TransactionPool

A transaction is its sender, nonce, gas price, gas limit, epoch height and cost;
the cost stands for `need_balance` and `tx_cost` alike. A bucket is a set
of transactions with their `packed` flag. The weighted treap of `nonce_pool_map.rs`
is modelled by what its searches answer (`CountLess`, `CostWithin`,
`ContinuousReadyNonce`), not by its rotations. `packing_pool` has one batch per sender,
`garbage_collector` one node per account without its timestamp: where the code
compares timestamps, any of the equal candidates may come first.

One lock guards the pool. The model puts the steps where the code takes and
releases it: `Snapshot` reads the best state before the lock and `CallerLocks`
uses it, perhaps after newer states; `NotifyNewBestInfo` empties the two request
buffers before the lock and `NotifierLocks` inserts what it took; a thread of
`NotifyTxpool` reports an account whenever it is scheduled. An insertion into a
full pool runs the garbage collector one victim a step (`SkipSelf`, `GiveUp`,
`Evict`) while `owner` holds the lock. One space of the two is modelled:
counters, collector and capacity are kept per space.

### RequestManager

Every request object is in one place at a time, from the call of
`request_with_delay` to the answer; the head of the module lists the places, and
every move that the code makes with locks given up in between is an action of
its own. `inflight_keys` and `net_inflight_blocks` are the code's maps.
`received` is what the synchronization graph has. A peer may answer a request
with any type of response. `HandleHeaders`, `OnBlocksInner` and
`FinishCompactBlocks` may get any items, those of other requests included: an
item takes its key out of `inflight_keys` whoever asked for it
(`headers_received`, `blocks_received`), and so does a header that the node finds
in its database and sends to itself (`HandleHeaderFromDb`). The graph may refuse
any part of an answer. A `GetBlocksWithPublicResponse` runs through the types of
requests it knows: `HandleCompactWithPublic` is the first of them,
`HandleBlocksWithPublic` and `DispatchWithPublic` are the resend and the second.
Delays count in `REQUEST_START_WAITING_TIME`. Every block has size one, which is
then the moving average too.

Four history variables let the properties name the exceptions they
have:

* `doubled`: keys taken out of `inflight_keys` while a request asks for them, or
  given to a second request. Four things do this: an answer with items that its
  request did not ask for, a header from the database, whole blocks in a compact
  response that its request does not ask for, and the resend of
  `GetBlocksWithPublicResponse`.
* `lost`: keys in flight whose request was dropped. Three steps drop one: a
  `GetBlockTxnResponse` with senders that cannot be recovered, a
  `GetTerminalBlockHashesResponse`, which takes a request of any type, and
  `add_peer` for a peer that is still there. A lost key is found again when its
  item comes with another answer or from the database.
* `stale`: peers added after their session ended.
* `refused`: what the graph did not take of the last answer.

A new session of a peer starts only after
the disconnection of the old one was handled, as the network does
(`kill_connection` in `crates/network/src/service.rs`).

## 3. Runs

| Run | Instance | Shows |
|---|---|---|
| `host` | 1 host, 1 epoch, rounds 1-4, rival proposals up to round 3, a timeout in round 3 | what left the process is on disk; no double vote; votes and timeouts exclude each other; refinement of `VotingPromise`, the lock included |
| `handover` | 2 hosts, 2 epochs, 1 round | only one host votes; signatures come from the file; refinement over hand-overs |
| `pos_consensus` | 4 validators, 1 Byzantine, all 16 blocks with rounds up to 4, 2 ledgers | unique certificates, final commits, agreement |
| `block_store` | 10 blocks, chain of 5 rounds, 3 forks, pruned buffer of 1 | recovery, no panic in commit, nothing lost in a restart, chain can be served |
| `rounds` | 1 node, 2 peers with power 1 and 2, 2 rounds, 2 crashes | refinement of `VotingPromise`, one vote per round, votes known after a restart, timers and pending votes consistent |
| `rounds_advance` | 2 nodes that need each other, 1 proposer, 2 rounds | the rounds go on under fairness |
| `rounds_after_crash` | the same, 3 rounds, 1 crash, no proposer | a restarted node catches up |
| `tx_pool` | 2 senders, 5 transactions, capacity 2, 4 calls | indexes, counter, batches and collector agree in every interleaving; the capacity holds; a transaction leaves only for cause |
| `requests` | 1 peer, 2 blocks, 1 header, 1 epoch, 2 requests at a time, 3 events | no key forgotten or asked for twice and marks go with keys, but for `lost` and `doubled`; pending requests served, whoever removes a key has the item or asks again |

Runs that TLC must refute, each a sentence of the repository that the code does
not keep:

| Run | The sentence | What the run finds |
|---|---|---|
| `certificate_starts_round` | `round_state.rs:138-140`, a certificate starts the next round | after a failed retrieval no timer is left that would try again |
| `accounts_collectable` | `transaction_pool_inner.rs:337-338`, skipped nodes are inserted back | the early return of `collect_garbage` skips the insertion: the account can no longer be collected |
| `every_key_asked` | `request_handler.rs:437-438`, a failed request is resent | a `GetTerminalBlockHashesResponse` takes a request of another type and drops it, with its keys still in flight; a `GetBlockTxnResponse` whose senders cannot be recovered does the same |

None of them breaks agreement or the properties of the passing runs; they concern
the pace of a node, which accounts a full pool can collect from, and a
block or header that has to come from elsewhere.

Three more comments are not kept to the letter. The models contain the
behaviour, and what the passing runs show holds with it, so no run is spent on
them: `proposal_generator.rs:96-97` (at most one proposal per round; a restart
forgets `last_round_generated`), `persistent_safety_storage.rs:128-130` (no
partially configured storage; a crash may come between two `set` calls), and
`round_state.rs:149-150` (one timeout event per interval; the proposal timer
sets a second local timer).

### Bounds

* `MaxRound`. A lock can be broken by a later request only from round 4 on,
  hence four rounds in `host` and `pos_consensus`; double votes and timeouts
  need 3 rounds with two rivals, hence `MaxRival = 3`, and a timeout between two
  votes, hence `MinTimeout = MaxTimeout = 3` (`host`). The commit rule needs
  three consecutive rounds above genesis for a commit that is not the genesis
  block; `pos_consensus` has a commit in round 1 and 2 and every rival branch.
  In `RoundManager` a round is like any other, so two rounds show a change of
  rounds and three show a node that is two behind. In the last round no
  proposals and no peer messages occur and the new-round timer never fires.
* `MaxCrashes` bounds crashes in `RoundManager`; the other modules with crashes
  have no bound on them.
* `TimeoutRounds = {1, 3}` in `block_store`: two timeout certificates can follow
  each other, and each can lie below, at or above the highest quorum
  certificate, whose rounds go from 0 to 5.
* `MaxPruned = 1` makes the buffer of pruned blocks overflow on the second commit.
* Peers of `RoundManager` send the certificates they like only if they are a
  quorum; a peer's vote comes with the timeout certificate of the round before,
  as any other SyncInfo acts like that message followed by the vote.
* `MaxEvents` bounds what comes from outside in `tx_pool` (calls) and `requests`
  (new requests, timeouts, connections, disconnections, items from elsewhere);
  what the node does by itself is not counted. Four calls fill a pool of two,
  overflow it and change the accounts in between. Three events connect a peer and
  leave two for requests, timeouts and a disconnection, and an answer may hold
  the items of both requests.
* `MaxCallers = 1` and `MaxBuffer = 1`: one insertion at a time is between
  snapshot and lock, and may be overtaken by the executor and the notifier
  there; each buffer holds one transaction.
* All properties but `RoundsAdvance` are proved for every value of these bounds
  (section 4).
* `capacity = 2`, `address_tx_count = 2`, `address_gas_limit = 2`: the pool
  overflows on the third transaction, a batch is cut on the third.
* `Ids`: two request objects at once, enough for two threads that race for a key
  and for a pending request behind one in flight (`max_inflight_request_count =
  1`). `max_capacity = 1` fills the queue of recovered blocks with one block.
* Larger instances were checked once: `tx_pool` with five calls (6.07 million
  states), `requests` with four events (20.4 million), with one block, two
  headers and four events (7.8 million), and with two blocks and two headers
  (5.2 million).
* Symmetry is used for proposal ids, honest validators, ledgers, blocks,
  headers and request objects, which occur only in sets and as function arguments (the
  validators with equal votes), and in no liveness run. The view of `requests`
  leaves out `refused`, which no action reads and which `RemoverAsksAgain` reads
  only in the step that sets it.

Deadlock is checked except where the system stops at a bound: in `pos_consensus`
a validator that has voted in every round has nothing left to do, in `tx_pool`
and `requests` all calls and events of the bound have been made.

### Fairness

Only `RoundManager` states liveness. A process that exits is started again; a
timer that was set fires; and a message that is sent again and again is
received in the end. The last is assumed only of what a local timeout repeats:
the SyncInfo and the timeout vote of a node that is still in the round.
Proposals, first votes, relays and answers to a peer that is behind are sent
once and may be lost. `RoundsAdvance` uses no fairness for crashes or for peers.

That every requested key is answered is not stated: it would need peers that
answer, which the code cannot count on. `NoOrphans` and `PendingServed` say
instead that somebody is always there who will send or end the request.

`RoundsAdvance` is checked where every certificate needs the vote of each node,
so that a node never forms one for a block it has not got. Run
`certificate_starts_round` is the case that this leaves out: a node that
collects the votes of others for a block it cannot retrieve. There the rounds
go on only if someone else brings a certificate.

## 4. Proofs

Every safety invariant and action property that a passing run checks is also a
theorem: for any sets of hosts, epochs, rounds, proposals, blocks, validators,
ledgers, nodes, senders, transactions, peers, keys and requests, and every value
of the bounds, from these assumptions:

* requests are well-formed (`ProposalsAssumption`), the key has one first voter
  (`HostAssumption`), epochs and rounds are naturals and the ledger starts in
  epoch 1 (`BoundsAssumption`);
* the blocks form a tree with growing rounds (`BlocksAssumption`,
  `AncestorsAssumption`); timeouts have rounds and the buffer of pruned blocks
  has a length (`BoundsAssumption` of `BlockStore`);
* validators are nodes or peers and not both, proposers are validators with a VRF
  number, a nil block has no author, and there is a round above genesis
  (`NodeAssumption`);
* every vote has one holder and there are finitely many (`VotesAssumption`);
* less than a third of the votes is Byzantine (`ByzantineAssumption`);
* transactions and accounts have natural numbers for nonces, prices and gas
  limits, and the capacity is one (`PoolAssumption`); so are the limits of a
  batch, which may hold at least one transaction (`BatchAssumption`);
* the limits of the request manager are positive where the code needs it, and
  blocks, headers and epochs are different keys (`RequestAssumption`).

`ValidatorSafetyProofs`. None of the properties is inductive: that a vote is new
depends on the cache, the cache on the file, the file on which host has the key.
`KeyInvariant` adds the coherence of processes, files and operator
(`KeyCoherent`) and what the file must remember (`DiskRemembers`: its epoch and
counters bound all votes, its last vote is the highest of them or above, and
its last voted round bounds the timeouts). The counters alone would not do: a
repeated request returns the last vote as it is, so the refinement needs to know
that this vote is one the promise still allows.
One lemma per action shows that it is preserved; the lemmas about `SafetyData`
(`VoteRemembers`, `ProposeRemembers`, `TimeoutRemembers`, `RepeatRemembers`) carry
the arithmetic. From it follow `DiskRemembersHolds`, `SignsFromDiskHolds`, `OneVoterHolds`, the
refinement `PromiseKept`, `VotesAgree`, and the action properties
`TimeoutNotBelowVoteHolds` and `VoteAboveTimeoutHolds`.

`PosConsensusProofs`. First the quorums: `QuorumsShareHonest`, two sets that
`check_voting_power` accepts share an honest validator, by counting votes, and
`HonestAreQuorum`, the honest validators reach the threshold by themselves.
Then `ConsensusInvariant` says that honest votes are for blocks
with a certified parent, for different rounds, and each under the lock of the
earlier ones, and that the root of a ledger is committed. Two certificates of a
round share an honest voter, hence `OneCertificatePerRoundHolds`. For
`CommitIsFinalHolds` take the certified block of least round above a committed
block that does not extend it; the voter it shares with the 3-chain has a lock
that the block's parent must satisfy, and the parent is a smaller
counterexample or inside the chain. `Agreement` and `LedgerGrowsHolds` follow.

`BlockStoreCalls`, `BlockStoreProofs`. What the store promises holds between any
two writes, so the invariant `IInv` speaks of the tree, the disk and the calls that
the handler has still to make at once. `RootsOK`: the root in memory lags behind the
one on disk only between `commit_blocks` and `prune_tree`. `TreeOK`: from its root
the tree is closed under parents, all of it is on disk, and the speculation cache
is exactly the part above the ledger's root. `QcsOK`: a certificate above the root
is on disk if it is in memory, and none on disk is higher than the highest in
memory. `DiskOK` is what `find_root` looks for. `WorkOK` is what makes the rest
inductive: the i-th call left may rely on a certificate that is held or that an
earlier call of the same handler inserts (`CallOK`), and a commit under way has its
ledger blocks on disk. It is where the early returns matter: a failed call
abandons the ones that would have relied on it (`AbandonedPlain`). That two
commits cannot diverge is taken from `certified`, which has one block per round and
committed blocks final, as `PosConsensus` proves. The hard steps are `CommitKeeps`
(the whole path to the committed block is in the tree), `PruneTreeKeeps` (nothing
above the new root goes, in memory or on disk) and `RestartKeeps` (what `find_root`,
the ordering of the blocks and the pruning of the rest recover is again such a
store). From `IInv` follow `Recoverable`, `CommitSucceeds`, `RestartLosesNothing`,
`AllExecuted`, `HqcIsLinked`, `ChainIsServed` and `StoreTypes`.

`RoundManagerProofs`. A handler is a composition of calls that
may fail, so `IInv` is stated of the parts of one node's state (`DiskOK`, `RunOK`),
and one lemma per call shows that the record it hands on, or fails with, still
satisfies it. That a node votes once in a round over crashes needs three copies of
the last vote ordered in time: SafetyRules persists it, `save_vote` saves it, the
message is sent (`LastVoteOK`, `SavedOK`, `SentOK`); and that the node is never
restarted in a round below its last vote, since the certificates that started that
round were on disk before. That it knows its votes (`Knows`) needs the recorded
vote to be the saved one. The pending votes have one vote per author, so two blocks
cannot both have a quorum (`PendingOneQuorum`, by counting votes), and the
new-round timer runs from the first certificate until it fires. The lock needs
`LockOK`: `preferred_round` covers all votes, those signed and never sent included.
That the votes also leave the node in order is a fact about steps. `NewOK` says of a
handler under way that what it adds to the votes sent is one vote of its round, above
all the earlier ones; it is an obligation of every call, because certificates may
change the round in the middle of a handler. With it each step is one of
`VotingPromise` (`NewVoteReleased`), for all rounds; the lock can be violated only
from round 4 on, which the run `rounds` does not reach. The theorems are
`PromisesKept`, `NodeImplementsPromise`, `OneVotePerRound`, `VotesAreKnown`, `TimerHasCertificate`,
`CertificatesAreUsed`, `OneQuorum`, `TimerIsSet` and `RoundTypes`.

`TransactionPoolProofs`. `PoolInv` has the types, that the pool is finite,
`IndexesAgree`, `UnpackedCounted`, `WithinCapacity`, `GcDescribesAccount`, and
`SkippedTrue`: the node that a collection has set aside still tells the truth
about its account. The properties need each other. The counter is decreased when
it is not zero only because the evicted transaction is one it counts; the
victim's count of executed transactions, which decides what may be evicted, is
right only because an eviction takes the lowest nonce (`LowestInfoIs`,
`EvictCount`) and every other change of a bucket recalculates the node
(`RecalculateTrue`). Without `SkippedTrue` the node put back at the end of a
collection could be out of date. One lemma per group of actions shows that
`PoolInv` is kept (`EvictKeeps`, `ReplaceKeeps`, `AddKeeps`, ...);
`PoolInvariantHolds` follows, and from it the four invariants and the action
property `EvictedForCauseHolds`.

`PackingPoolProofs`. The batches have an invariant of their own, `Batches`: each is a `GoodBatch` of the
transactions in its sender's bucket (consecutive nonces, prices that do not
decrease, an exact gas total, both limits). The functions that build a batch are
recursive over an interval of nonces; that they compute what their definition says is
shown from the existence of the function (`LoopExists`) and by ascending the
interval (`Climb`), so no induction principle with a predicate is needed. On
this rest `BatchInsertGood` for the four ways of `PackingBatch::insert`,
`SuffixGood` and `RestGood` for the two cuts, `MakeGood` and `ExtendGood` for the
loops, and `RecalculateGood` for all of
`recalculate_readiness_with_local_info`. The pool's part is the order of things: a
replacement cuts the batch below the nonce before the transaction changes, an
eviction takes the lowest transaction from the batch first. `PackingWithinPoolHolds`
and `BatchWellFormedHolds` follow.

`RequestManagerProofs`. `RequestInvariant` is `TypeOK`, `Formed` (what a request
must be like in its place), `NoOrphans`, `OneHolder`, `NetWithinInflight`,
`LostStay`, `PendingServed` and `GoneIsStale`. That no key is forgotten and that
none has two holders must be proved together: a request may give a key up only
because nobody else holds it. The argument is by what a step does to the keys,
not by action: the keys stay with their request (`KeysKept`), are released, lost,
taken, batched, split, finished or doubled, with one lemma each, and `KeysNext`
assigns every action its case. Three exceptions
need care. A key that an unrequested item takes out while its request goes on is
`doubled` from then on, and a third request may ask for it. `LostStay` says
that a lost key is in flight, so that `WithInflight` gives it to nobody, and that
it is no longer lost once it is taken out. `GoneIsStale` says that a peer without
a session is one added too late. The theorems are
`RequestInvariantHolds`, `NoOrphansHolds`, `OneHolderHolds`,
`NetWithinInflightHolds`, `PendingServedHolds` and, from `TypeOK`,
`RemoverAsksAgainHolds`.

Only model-checked: `RoundsAdvance`, because liveness under fairness is beyond the
prover; and what the three refuted runs show. The type invariants of
`ValidatorSafety`, `PosConsensus`, `TransactionPool` and `RequestManager` are
parts of the proved invariants and are therefore not run again. The invariants
`IInv` of `BlockStore` and `RoundManager` and `Batches` were checked with TLC on the
instances of section 3 before they were proved.

## 5. Not modelled, and the plan

In the order of the plan:

1. Epochs: `start_new_epoch`, `sync_to_ledger_info`, `RecoveryManager`, timers
   that cross the change; election and node lock status in `term_state`.
2. Transaction pool: `pack_transactions`, the sponsorship of contracts and the
   propagation lists; the sampling of the packing pool.
3. Request manager: requests for transactions, whose keys live in containers of
   their own, and those of the snapshot protocol.
4. Consensus executor and synchronization graph: the task queue and the lock;
   readiness of blocks as a graph algorithm against a reference definition.
5. Consensus graph: pivot selection and era checkpoints on small graphs;
   PoS references.
6. Snapshot synchronization and snapshot storage; the light protocol.

Places seen on the way that no property covers yet:

* `epoch_manager.rs:722`, a timer that fires while the recovery processor runs
  meets `unreachable!`; `epoch_manager.rs:354`, `sync_to_ledger_info` commits
  without raising the highest quorum certificate.
* `nonce_pool/mod.rs:375`, `make_packing_batch` compares with `last_valid_nonce`
  only after it has inserted a transaction, so a batch may hold one that is not
  ready. The model does the same; packing skips the transaction.
* `synchronization_protocol_handler.rs:1103`, `on_blocks_inner` asks again for an
  invalid block; `synchronization_graph.rs:2161-2162` says it should not be.
* `synchronization_protocol_handler.rs:815`, the subtraction from
  `BLOCK_SYNC_MAX_INFLIGHT` while another thread adds blocks.
* `consensus_executor/mod.rs:507`, arena indices read before the lock is released.
* `snapshot_chunk_sync.rs:111`, a sync that starts again for the same candidate
  resumes the old chunk manager.

Left out for good: cryptography (signatures, VRF and hashes are what they claim
to be), encodings and tables, the network's sockets, RPC and tools, the virtual
machine and the tries, which are sequential code over large data.
