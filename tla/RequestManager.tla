--------------------------- MODULE RequestManager ---------------------------
(***************************************************************************)
(* The request manager of the synchronization protocol: which thread, peer  *)
(* or queue is responsible for a block, header or epoch the node has asked  *)
(* for.                                                                     *)
(*                                                                         *)
(* Every request object is an element of Ids.  It is always in one place:   *)
(* in the hands of a thread, in the tables of a peer, in waiting_requests,  *)
(* in the batcher of the timer or in recover_public_queue.  A thread gives  *)
(* up the locks between two places, so that every move is one action.       *)
(*   call     passed to request_with_delay, its keys not yet marked         *)
(*   check    keys marked, the capacity for blocks not yet checked          *)
(*   send     about to enter RequestHandler::send_request                   *)
(*   unsent   refused by send_request, its network marks still there        *)
(*   park     about to be pushed to waiting_requests                        *)
(*   wait     in waiting_requests                                           *)
(*   batch    popped by resend_waiting_requests                             *)
(*   resend   given a peer by resend_waiting_requests                       *)
(*   sent     in inflight_requests of a peer                                *)
(*   pending  in pending_requests of a peer                                 *)
(*   fail     timed out, unfinished or answered by another message          *)
(*   again    an answered request that downcast_ref resends                 *)
(*   compact  in the hands of the handler of a compact response              *)
(*   task     in recover_public_queue                                       *)
(*   recover  in the hands of a worker of that queue                        *)
(*                                                                         *)
(* Delays are counted in REQUEST_START_WAITING_TIME.  Zero is None, and a   *)
(* delay stays where it is once it is above the upper bound.  Blocks have   *)
(* size one.                                                                *)
(***************************************************************************)
EXTENDS Integers, FiniteSets

CONSTANTS
  Peers, NoPeer,
  Blocks,                             \* keys of GET_BLOCKS
  Headers,                            \* keys of GET_BLOCK_HEADERS
  Epochs,                             \* keys of GET_BLOCK_HASHES_BY_EPOCH
  MaxEvents,                          \* bound: events from outside
  Ids,                                \* bound: request objects alive at once
  max_inflight_request_count,
  max_capacity,                       \* of recover_public_queue
  DEFAULT_REQUEST_DELAY_UPPER_BOUND

ASSUME RequestAssumption ==
  /\ max_inflight_request_count \in Nat \ {0}
  /\ max_capacity \in Nat
  /\ DEFAULT_REQUEST_DELAY_UPPER_BOUND \in Nat \ {0}
  /\ NoPeer \notin Peers
  /\ Blocks \cap (Headers \cup Epochs) = {}
  /\ Headers \cap Epochs = {}

VARIABLES
  requests,             \* every request object and where it is
  inflight_keys,
  net_inflight_blocks,  \* the keys under NET_INFLIGHT_BLOCKS
  handler_peers,        \* RequestHandler.peers
  peers,                \* SynchronizationState.peers
  handshaking_peers,
  session,              \* of a peer, in the network service
  statuses,             \* how far the handler of a peer's Status is
  visits,               \* peers whose pending requests a thread will send
  stale,                \* history: peers added after their session had ended
  waiting_lock,         \* what resend_waiting_requests does under its lock
  received,             \* the items of the synchronization graph
  events,               \* the count of what comes from outside
  doubled,              \* history: keys taken from under the request that asks for
                        \* them, or given to a second request
  lost,                 \* history: keys in flight whose request was dropped
  refused               \* history: what the graph did not take of the last answer

vars == <<requests, inflight_keys, net_inflight_blocks, handler_peers, peers,
          handshaking_peers, session, statuses, stale, visits,
          events, waiting_lock, received, doubled, lost, refused>>
peer_vars == <<handler_peers, peers, handshaking_peers, session, statuses, stale>>
duties == <<visits, events>>
keys_vars == <<inflight_keys, net_inflight_blocks>>
history == <<doubled, lost, refused>>

Keys == Blocks \cup Headers \cup Epochs
Delays == 0 .. DEFAULT_REQUEST_DELAY_UPPER_BOUND + 1
Kinds == {"blocks", "compact", "blocktxn", "headers", "epochs"}
KeysOf(kind) ==
  IF kind = "headers" THEN Headers ELSE IF kind = "epochs" THEN Epochs ELSE Blocks

Places == {"call", "check", "send", "unsent", "park", "wait", "batch", "resend",
           "sent", "pending", "fail", "again", "compact", "task", "recover"}

Free == [kind |-> "none", keys |-> {}, delay |-> 0, at |-> "free",
         peer |-> NoPeer, blocks |-> {}]
Requests ==
  {Free} \cup
  [kind : Kinds, keys : SUBSET Keys, delay : Delays, at : Places,
   peer : Peers \cup {NoPeer}, blocks : SUBSET Blocks]

New(kind, keys, delay, at, peer) ==
  [kind |-> kind, keys |-> keys, delay |-> delay, at |-> at, peer |-> peer, blocks |-> {}]

At(place) == {i \in Ids : requests[i].at = place}
AtPeer(place, p) == {i \in At(place) : requests[i].peer = p}

\* The requests that carry the network marks of blocks, as try_get_block_hashes
\* finds them.
TryGetBlockHashes(r) == IF r.kind \in {"blocks", "compact"} THEN r.keys ELSE {}

\* Request::resend: a failed compact block or its transactions are asked for
\* again as the whole block.
Resend(kind) == IF kind \in {"compact", "blocktxn"} THEN "blocks" ELSE kind

\* The delay after this one in request_with_delay.
NextDelay(d) ==
  IF d > DEFAULT_REQUEST_DELAY_UPPER_BOUND THEN d ELSE d + 1

\* recover_public_queue.  Every block counts as one unit of size, which is then
\* the moving average too.
QueueSize == Cardinality(UNION {{i} \X requests[i].blocks : i \in At("task")})
IsBlockQueueFull == QueueSize >= max_capacity
EstimatedAvailableCount == IF IsBlockQueueFull THEN 0 ELSE max_capacity - QueueSize

\* Something happens that no thread of the node makes happen.
Event == events < MaxEvents /\ events' = events + 1

Init ==
  /\ requests = [i \in Ids |-> Free]
  /\ inflight_keys = {}
  /\ net_inflight_blocks = {}
  /\ handler_peers = {}
  /\ peers = {}
  /\ handshaking_peers = {}
  /\ session = [p \in Peers |-> "down"]
  /\ statuses = [p \in Peers |-> "none"]
  /\ stale = {}
  /\ visits = {}
  /\ events = 0
  /\ waiting_lock = "free"
  /\ received = {}
  /\ doubled = {}
  /\ lost = {}
  /\ refused = {}
-----------------------------------------------------------------------------
(***************************************************************************)
(* Asking.                                                                 *)
(***************************************************************************)

\* request_block_headers, request_blocks, request_compact_blocks and
\* request_epoch_hashes, called for items that are not in the graph yet, by
\* handlers of answers too (the dependencies of what came).  Whether a block is
\* asked for with its public keys decides nothing here: both kinds of block
\* responses are taken for either.
RequestItems(i, kind, keys, p) ==
  /\ requests[i] = Free
  /\ Event
  /\ keys # {} /\ keys \cap received = {}
  /\ requests' = [requests EXCEPT ![i] = New(kind, keys, 0, "call", p)]
  /\ UNCHANGED <<keys_vars, peer_vars, visits, waiting_lock, received, history>>

\* Mutant of WithInflight: keys in flight are asked for all the same.
WithInflightDuplicates(i) ==
  LET r == requests[i]
      next == IF r.peer = NoPeer \/ r.delay > 0 THEN "park"
              ELSE IF TryGetBlockHashes(r) # {} THEN "check" ELSE "send"
  IN  /\ r.at = "call"
      /\ inflight_keys' = inflight_keys \cup r.keys
      /\ requests' = [requests EXCEPT ![i] =
           [r EXCEPT !.delay = NextDelay(r.delay), !.at = next]]
      /\ UNCHANGED <<net_inflight_blocks, peer_vars, duties, waiting_lock, received, history>>

\* request_with_delay up to the decision where the request goes: the keys that
\* are in flight already are left to whoever asked for them.
WithInflight(i) ==
  LET r == requests[i]
      fresh == r.keys \ inflight_keys
      next == IF r.peer = NoPeer \/ r.delay > 0 THEN "park"
              ELSE IF TryGetBlockHashes(r) # {} THEN "check" ELSE "send"
  IN  /\ r.at = "call"
      /\ inflight_keys' = inflight_keys \cup r.keys
      /\ requests' = [requests EXCEPT ![i] =
           IF fresh = {} THEN Free
           ELSE [r EXCEPT !.keys = fresh, !.delay = NextDelay(r.delay), !.at = next]]
      /\ UNCHANGED <<net_inflight_blocks, peer_vars, duties, waiting_lock, received, history>>

\* check_and_update_net_inflight_blocks for a request that has a peer.
CheckAndUpdateNetInflightBlocks(i) ==
  LET full == Cardinality(net_inflight_blocks) >= EstimatedAvailableCount
  IN  /\ requests[i].at = "check"
      /\ net_inflight_blocks' =
           IF full THEN net_inflight_blocks
           ELSE net_inflight_blocks \cup requests[i].keys
      /\ requests' = [requests EXCEPT ![i].at = IF full THEN "park" ELSE "send"]
      /\ UNCHANGED <<inflight_keys, peer_vars, duties, waiting_lock, received, history>>

\* RequestHandler::send_request to a peer it knows: sent at once or kept until
\* an earlier request of the peer ends.
PlaceAtPeer(p) ==
  IF Cardinality(AtPeer("sent", p)) < max_inflight_request_count
  THEN "sent" ELSE "pending"

SendRequest(i) ==
  LET p == requests[i].peer
  IN  /\ requests[i].at = "send"
      /\ requests' = [requests EXCEPT ![i].at =
           IF p \in handler_peers THEN PlaceAtPeer(p) ELSE "unsent"]
      /\ UNCHANGED <<keys_vars, peer_vars, duties, waiting_lock, received, history>>

\* request_with_delay after send_request refused: the blocks are no longer
\* marked as on their way.
RemoveNetInflightBlocks(i) ==
  /\ requests[i].at = "unsent"
  /\ net_inflight_blocks' = net_inflight_blocks \ TryGetBlockHashes(requests[i])
  /\ requests' = [requests EXCEPT ![i].at = "park"]
  /\ UNCHANGED <<inflight_keys, peer_vars, duties, waiting_lock, received, history>>

\* The push to waiting_requests, when nobody else holds its lock.  The chosen
\* peer has no effect from here on.
PushWaiting(i) ==
  /\ requests[i].at = "park"
  /\ waiting_lock = "free"
  /\ requests' = [requests EXCEPT ![i].at = "wait", ![i].peer = NoPeer]
  /\ UNCHANGED <<keys_vars, peer_vars, duties, waiting_lock, received, history>>
-----------------------------------------------------------------------------
(* A disconnected peer is no longer chosen; without a session there is       *)
(* nothing to disconnect.                                                   *)
DisconnectPeer(p) ==
  IF session[p] = "up"
  THEN /\ session' = [session EXCEPT ![p] = "closing"]
       /\ peers' = peers \ {p}
       /\ handshaking_peers' = handshaking_peers \ {p}
  ELSE UNCHANGED <<session, peers, handshaking_peers>>

(***************************************************************************)
(* The timer: resend_timeout_requests and resend_waiting_requests.          *)
(***************************************************************************)

\* process_timeout_requests takes an overdue request from its peer.  The peer
\* is disconnected after too many timeouts and otherwise gets its pending
\* requests.
Timeout(i, disconnect) ==
  LET p == requests[i].peer
  IN  /\ requests[i].at = "sent"
      /\ Event
      /\ requests' = [requests EXCEPT ![i].at = "fail"]
      /\ IF disconnect
         THEN DisconnectPeer(p) /\ UNCHANGED visits
         ELSE visits' = visits \cup {p} /\ UNCHANGED <<session, peers, handshaking_peers>>
      /\ UNCHANGED <<keys_vars, handler_peers, statuses, stale, waiting_lock, received, history>>

\* Keys leave inflight_keys, and blocks their mark: on_removed of every kind of
\* request, and the removals of headers_received, epochs_received and
\* blocks_received.  The key of a dropped request can be asked for again then.
TakeOut(keys) ==
  /\ inflight_keys' = inflight_keys \ keys
  /\ net_inflight_blocks' = net_inflight_blocks \ keys
  /\ lost' = lost \ keys

\* Mutant of OnRemoved: the blocks stay marked as on their way.
OnRemovedKeepsMarks(i) ==
  LET r == requests[i]
  IN  /\ r.at = "fail"
      /\ inflight_keys' = inflight_keys \ r.keys
      /\ lost' = lost \ r.keys
      /\ requests' = [requests EXCEPT ![i] =
                        New(Resend(r.kind), r.keys, r.delay, "call", NoPeer)]
      /\ UNCHANGED <<net_inflight_blocks, peer_vars, duties, waiting_lock, received,
                     doubled, refused>>

\* resend_request_to_another_peer: on_removed takes the keys out, and
\* send_request_again asks for them again with the request's delay, by which
\* it goes to waiting_requests whichever peer is chosen.
OnRemoved(i) ==
  LET r == requests[i]
  IN  /\ r.at = "fail"
      /\ TakeOut(r.keys)
      /\ requests' = [requests EXCEPT ![i] =
                        New(Resend(r.kind), r.keys, r.delay, "call", NoPeer)]
      /\ UNCHANGED <<peer_vars, duties, waiting_lock, received, doubled, refused>>

\* resend_waiting_requests takes the lock of waiting_requests and keeps it; a
\* tick that finds the heap empty changes nothing.
LockWaiting ==
  /\ waiting_lock = "free"
  /\ At("wait") # {}
  /\ waiting_lock' = "pop"
  /\ UNCHANGED <<requests, keys_vars, peer_vars, duties, received, history>>

\* A request that was resent too often is discarded, outside catch-up mode;
\* handle_cancelled_requests removes its blocks from the graph.
Discard(i) ==
  LET r == requests[i]
  IN  /\ waiting_lock = "pop"
      /\ r.at = "wait"
      /\ r.delay > DEFAULT_REQUEST_DELAY_UPPER_BOUND
      /\ TakeOut(r.keys)
      /\ received' = received \ TryGetBlockHashes(r)
      /\ requests' = [requests EXCEPT ![i] = Free]
      /\ UNCHANGED <<peer_vars, duties, waiting_lock, doubled, refused>>

\* A request whose time has come goes to the batcher, or back to the heap when
\* it asks for blocks and there is no room for them.
PopWaiting(i) ==
  LET r == [requests[i] EXCEPT !.kind = Resend(requests[i].kind)]
      full == /\ TryGetBlockHashes(r) # {}
              /\ Cardinality(net_inflight_blocks) >= EstimatedAvailableCount
  IN  /\ waiting_lock = "pop"
      /\ r.at = "wait"
      /\ net_inflight_blocks' =
           IF full THEN net_inflight_blocks
           ELSE net_inflight_blocks \cup TryGetBlockHashes(r)
      /\ requests' = [requests EXCEPT ![i] = IF full THEN r ELSE [r EXCEPT !.at = "batch"]]
      /\ UNCHANGED <<inflight_keys, peer_vars, duties, waiting_lock, received, history>>

\* The requests not due yet stay.
NothingDue ==
  /\ waiting_lock = "pop"
  /\ waiting_lock' = "send"
  /\ UNCHANGED <<requests, keys_vars, peer_vars, duties, received, history>>

\* RequestBatcher: requests of one kind and close delays become one, with a
\* delay between theirs, which gets a peer or, without one, its network marks
\* removed and its place in waiting_requests back.
GetBatchedRequests(batch, i, delay, p) ==
  LET r == New(requests[i].kind, UNION {requests[k].keys : k \in batch}, delay,
               IF p = NoPeer THEN "wait" ELSE "resend", p)
  IN  /\ waiting_lock = "send"
      /\ i \in batch
      /\ \A k \in batch : requests[k].kind = requests[i].kind
      /\ \E k \in batch : requests[k].delay <= delay
      /\ \E k \in batch : delay <= requests[k].delay
      /\ net_inflight_blocks' =
           IF p = NoPeer THEN net_inflight_blocks \ TryGetBlockHashes(r)
           ELSE net_inflight_blocks
      /\ requests' = [k \in Ids |-> IF k = i THEN r
                                    ELSE IF k \in batch THEN Free ELSE requests[k]]
      /\ UNCHANGED <<inflight_keys, peer_vars, duties, waiting_lock, received, history>>

\* The request of a batch is sent; when the peer has gone since it was chosen,
\* it goes back to waiting_requests.
SendBatch(i) ==
  LET p == requests[i].peer
  IN  /\ requests[i].at = "resend"
      /\ requests' = [requests EXCEPT ![i] =
           IF p \in handler_peers THEN [@ EXCEPT !.at = PlaceAtPeer(p)]
           ELSE [@ EXCEPT !.at = "wait", !.peer = NoPeer]]
      /\ UNCHANGED <<keys_vars, peer_vars, duties, waiting_lock, received, history>>

UnlockWaiting ==
  /\ waiting_lock = "send"
  /\ At("batch") \cup At("resend") = {}
  /\ waiting_lock' = "free"
  /\ UNCHANGED <<requests, keys_vars, peer_vars, duties, received, history>>

\* send_pending_requests, after every message of a peer and after timeouts: as
\* many as fit, in any order.
SendPendingRequests(p, ready) ==
  /\ p \in visits \/ session[p] = "up"
  /\ ready \subseteq AtPeer("pending", p)
  /\ LET room == max_inflight_request_count - Cardinality(AtPeer("sent", p))
     IN  /\ Cardinality(ready) <= room
         /\ ready = AtPeer("pending", p) \/ Cardinality(ready) = room
  /\ requests' = [i \in Ids |-> IF i \in ready THEN [requests[i] EXCEPT !.at = "sent"]
                                ELSE requests[i]]
  /\ visits' = visits \ {p}
  /\ UNCHANGED <<keys_vars, peer_vars, events, waiting_lock, received, history>>
-----------------------------------------------------------------------------
(***************************************************************************)
(* Responses.  A response that comes when its request has left the peer is  *)
(* refused by match_request and changes nothing; so is one that is lost.    *)
(* A peer may answer with any items, whichever request it answers.          *)
(***************************************************************************)

\* Mutant of Answered: nobody sends the pending requests of the peer.
AnsweredForgetsPending(i) ==
  /\ requests[i].at = "sent"
  /\ session[requests[i].peer] # "down"
  /\ requests[i].peer \in peers
  /\ UNCHANGED visits

\* match_request finds the request; on_message will send the pending requests
\* of the peer when the response is dealt with.
Answered(i) ==
  LET p == requests[i].peer
  IN  /\ requests[i].at = "sent"
      /\ session[p] # "down"
      /\ p \in peers
      /\ visits' = visits \cup {p}

\* Mutant of ItemsReceived: what the answer lacks is not asked for again.
ItemsReceivedForgets(r, requested, items) ==
  /\ TakeOut(requested \cup items)
  /\ doubled' = doubled \cup ((items \ requested) \cap inflight_keys)
  /\ requests' = [requests EXCEPT ![r] = Free]

\* headers_received, epochs_received and blocks_received: the keys asked for
\* and those answered leave inflight_keys, the latter whoever asked for them,
\* and what was asked for and not answered is asked for again by the thread that
\* has taken it out.
ItemsReceived(r, requested, items) ==
  LET missing == (requested \ items) \cap inflight_keys
  IN  /\ TakeOut(requested \cup items)
      /\ doubled' = doubled \cup ((items \ requested) \cap inflight_keys)
      /\ requests' = [requests EXCEPT ![r] =
           IF missing = {} THEN Free
           ELSE New(IF requests[r].kind = "blocktxn" THEN "blocks" ELSE requests[r].kind,
                    missing, requests[r].delay, "call", NoPeer)]

\* The graph takes some of the items that count as received.  The others are
\* invalid, ahead of the clock, or come at a time when the graph is locked or the
\* node recovers from its database; nobody asks for these again by itself.
InsertItems(items, taken) ==
  /\ received' = received \cup taken
  /\ refused' = items \ received'

\* GetBlockHeadersResponse.  Every header counts as received, asked for or not.
\* When the node has entered the recovery of its database since the message
\* came, those asked for do instead, whatever the answer holds.
HandleHeaders(i, headers, taken, recovering) ==
  LET items == IF recovering THEN requests[i].keys ELSE headers
  IN  /\ Answered(i)
      /\ requests[i].kind = "headers"
      /\ ItemsReceived(i, requests[i].keys, items)
      /\ InsertItems(items, taken)
      /\ UNCHANGED <<peer_vars, events, waiting_lock>>

\* The node's message to itself with a header that request_block_headers has
\* found in the database: it ends in headers_received like an answer, whoever
\* asks a peer for the header meanwhile.
HandleHeaderFromDb(key, taken) ==
  /\ Event
  /\ TakeOut({key})
  /\ doubled' = doubled \cup ({key} \cap inflight_keys)
  /\ InsertItems({key}, taken)
  /\ UNCHANGED <<requests, peer_vars, visits, waiting_lock>>

\* GetBlockHashesResponse: the epochs count as received whatever the answer
\* holds.  They are no items of the graph.
HandleBlockHashes(i) ==
  /\ Answered(i)
  /\ requests[i].kind = "epochs"
  /\ ItemsReceived(i, requests[i].keys, requests[i].keys)
  /\ InsertItems(requests[i].keys, {})
  /\ UNCHANGED <<peer_vars, events, waiting_lock>>

\* GetBlocksResponse: unless the queue is full, which leaves the request to its
\* timeout, the blocks and the request wait for a worker.
HandleBlocks(i, blocks) ==
  /\ Answered(i)
  /\ requests[i].kind = "blocks"
  /\ ~IsBlockQueueFull
  /\ requests' = [requests EXCEPT ![i].at = "task", ![i].blocks = blocks, ![i].peer = NoPeer]
  /\ UNCHANGED <<keys_vars, peer_vars, events, waiting_lock, received, history>>

\* GetBlocksWithPublicResponse first takes the request for a GetCompactBlocks,
\* whose task then asks for whole blocks ...
HandleCompactWithPublic(i, blocks) ==
  /\ Answered(i)
  /\ requests[i].kind = "compact"
  /\ requests' = [requests EXCEPT
       ![i].kind = "blocks", ![i].at = "task", ![i].blocks = blocks, ![i].peer = NoPeer]
  /\ UNCHANGED <<keys_vars, peer_vars, events, waiting_lock, received, history>>

\* ... and downcast_ref resends what is none: on_removed ...  Only the task of a
\* GetBlocks will need the blocks.
HandleBlocksWithPublic(i, blocks) ==
  /\ Answered(i)
  /\ requests[i].kind # "compact"
  /\ blocks = {} \/ requests[i].kind = "blocks"
  /\ TakeOut(requests[i].keys)
  /\ requests' = [requests EXCEPT ![i].at = "again", ![i].blocks = blocks, ![i].peer = NoPeer]
  /\ UNCHANGED <<peer_vars, events, waiting_lock, received, doubled, refused>>

\* ... and send_request_again.  Then the blocks of a GetBlocks are handled all the
\* same, and the second downcast_ref resends any other request once more.
DispatchWithPublic(i, j) ==
  LET r == requests[i]
      fresh == r.keys \ inflight_keys
  IN  /\ r.at = "again"
      /\ requests[j] = Free
      /\ inflight_keys' = inflight_keys \cup r.keys
      /\ requests' = [requests EXCEPT
           ![i].at = IF r.kind = "blocks" THEN "task" ELSE "fail",
           ![j] = IF fresh = {} THEN Free
                  ELSE New(Resend(r.kind), fresh, NextDelay(r.delay), "park", NoPeer)]
      /\ doubled' = doubled \cup r.keys
      /\ UNCHANGED <<net_inflight_blocks, peer_vars, duties, waiting_lock, received,
                     lost, refused>>

\* GetCompactBlocksResponse, unless the queue is full.  The handler keeps the
\* request as it was, here in `blocks', and what is left of it.
HandleCompactBlocks(i) ==
  /\ Answered(i)
  /\ requests[i].kind = "compact"
  /\ ~IsBlockQueueFull
  /\ requests' = [requests EXCEPT ![i].at = "compact", ![i].blocks = requests[i].keys]
  /\ UNCHANGED <<keys_vars, peer_vars, events, waiting_lock, received, history>>

\* A compact block with missing transactions: they are asked for under the key
\* that is in flight already.
RequestBlockTxn(i, block, j) ==
  /\ requests[i].at = "compact"
  /\ block \in requests[i].keys \ received
  /\ requests[j] = Free
  /\ requests' = [requests EXCEPT
       ![i].keys = @ \ {block},
       ![j] = New("blocktxn", {block}, 1, "send", requests[i].peer)]
  /\ UNCHANGED <<keys_vars, peer_vars, duties, waiting_lock, received, history>>

\* The rest of a response with compact blocks: `good' are complete and go to the
\* graph, `full' came as whole blocks, asked for or not, and go to the queue, and
\* the others are asked for again as whole blocks.  A task without blocks has no
\* effect.
FinishCompactBlocks(i, good, taken, full, j) ==
  LET r == requests[i]
      requested == r.keys \ full
      missing == (requested \ good) \cap inflight_keys
      again == New("blocks", missing, r.delay, "call", NoPeer)
      task == [New("compact", full, r.delay, "task", NoPeer) EXCEPT !.blocks = full]
  IN  /\ r.at = "compact"
      /\ requests[j] = Free
      /\ TakeOut(requested \cup good)
      /\ doubled' = doubled \cup ((good \ requested) \cap inflight_keys) \cup (full \ r.keys)
      /\ requests' = [requests EXCEPT
           ![i] = IF missing = {} THEN Free ELSE again,
           ![j] = IF full = {} THEN Free ELSE task]
      /\ InsertItems(good, taken)
      /\ UNCHANGED <<peer_vars, duties, waiting_lock>>

\* GetBlockTxnResponse with transactions that complete the block or do not.
HandleBlockTxn(i, items, taken) ==
  /\ Answered(i)
  /\ requests[i].kind = "blocktxn"
  /\ ItemsReceived(i, requests[i].keys, items)
  /\ InsertItems(items, taken)
  /\ UNCHANGED <<peer_vars, events, waiting_lock>>

\* Requests go away unanswered, and nobody resends them.
Drop(dropped) ==
  /\ requests' = [i \in Ids |-> IF i \in dropped THEN Free ELSE requests[i]]
  /\ lost' = lost \cup (inflight_keys \cap UNION {requests[i].keys : i \in dropped})

\* GetBlockTxnResponse with transactions whose senders cannot be recovered: the
\* handler returns the error, and nobody has the request any more.
HandleBlockTxnUnrecoverable(i) ==
  /\ Answered(i)
  /\ requests[i].kind = "blocktxn"
  /\ requests[i].keys \cap received = {}
  /\ Drop({i})
  /\ UNCHANGED <<keys_vars, peer_vars, events, waiting_lock, received, doubled, refused>>

\* GetTerminalBlockHashesResponse takes the request, of whatever type, and only
\* asks for the headers the response names.
HandleTerminalBlockHashes(i) ==
  /\ Answered(i)
  /\ Drop({i})
  /\ UNCHANGED <<keys_vars, peer_vars, events, waiting_lock, received, doubled, refused>>

\* Every other response that is not of the request's type: downcast_ref resends
\* the request, as Throttled does.
HandleUnexpectedResponse(i) ==
  /\ Answered(i)
  /\ requests' = [requests EXCEPT ![i].at = "fail"]
  /\ UNCHANGED <<keys_vars, peer_vars, events, waiting_lock, received, history>>

\* on_blocks_inner_task takes a task and the network marks of its blocks and of
\* what it was asked for.
PopTask(i) ==
  /\ requests[i].at = "task"
  /\ net_inflight_blocks' = net_inflight_blocks \ (requests[i].keys \cup requests[i].blocks)
  /\ requests' = [requests EXCEPT ![i].at = "recover"]
  /\ UNCHANGED <<inflight_keys, peer_vars, duties, waiting_lock, received, history>>

\* on_blocks_inner: the blocks the graph has count as received, asked for or not.
\* Of the others asked for, the valid ones are inserted, those with a header the
\* graph refuses count as received, and the rest, blocks that turn out invalid
\* among them, is asked for again.
OnBlocksInner(i, items, taken) ==
  LET r == requests[i]
  IN  /\ r.at = "recover"
      /\ r.blocks \cap received \subseteq items
      /\ items \subseteq r.keys \cup received
      /\ ItemsReceived(i, r.keys, items)
      /\ InsertItems(items, taken)
      /\ UNCHANGED <<peer_vars, duties, waiting_lock>>

\* The graph gets a block from a miner or a NewBlock message, or a header whose
\* time has come.
ReceivedElsewhere(key) ==
  /\ key \notin received
  /\ Event
  /\ received' = received \cup {key}
  /\ UNCHANGED <<requests, keys_vars, peer_vars, visits, waiting_lock, history>>
-----------------------------------------------------------------------------
(***************************************************************************)
(* Peers.  The handler of a Status and the callback of a disconnection run  *)
(* in different threads.  A session of a node starts only after the         *)
(* callback for the one before has returned.                                *)
(***************************************************************************)

OnPeerConnected(p) ==
  /\ session[p] = "down"
  /\ Event
  /\ session' = [session EXCEPT ![p] = "up"]
  /\ handshaking_peers' = handshaking_peers \cup {p}
  /\ UNCHANGED <<requests, stale, keys_vars, handler_peers, peers, statuses, visits,
                 waiting_lock, received, history>>

\* The first Status of a session: on_status_in_handshaking, ...
OnStatusInHandshaking(p) ==
  /\ session[p] = "up" /\ statuses[p] = "none"
  /\ p \in handshaking_peers \ peers
  /\ handshaking_peers' = handshaking_peers \ {p}
  /\ statuses' = [statuses EXCEPT ![p] = "handshaken"]
  /\ UNCHANGED <<requests, stale, keys_vars, handler_peers, peers, session, duties,
                 waiting_lock, received, history>>

\* ... SynchronizationState::peer_connected ...
PeerConnected(p) ==
  /\ statuses[p] = "handshaken"
  /\ peers' = peers \cup {p}
  /\ statuses' = [statuses EXCEPT ![p] = "connected"]
  /\ UNCHANGED <<requests, stale, keys_vars, handler_peers, handshaking_peers, session,
                 duties, waiting_lock, received, history>>

\* ... and RequestHandler::add_peer, which replaces the container of the peer
\* and with it the requests of one that is there.
AddPeer(p) ==
  /\ statuses[p] = "connected"
  /\ handler_peers' = handler_peers \cup {p}
  /\ statuses' = [statuses EXCEPT ![p] = "none"]
  /\ stale' = IF session[p] = "down" THEN stale \cup {p} ELSE stale \ {p}
  /\ Drop(AtPeer("sent", p) \cup AtPeer("pending", p))
  /\ UNCHANGED <<keys_vars, peers, handshaking_peers, session, duties,
                 waiting_lock, received, doubled, refused>>

\* on_peer_disconnected, for whatever reason.
OnPeerDisconnected(p) ==
  /\ session[p] = "up"
  /\ Event
  /\ DisconnectPeer(p)
  /\ UNCHANGED <<requests, keys_vars, handler_peers, statuses, stale, visits,
                 waiting_lock, received, history>>

\* Mutant of RemovePeer: the requests on their way go with their peer.
RemovePeerForgetsInflight(p) ==
  /\ session[p] = "closing"
  /\ session' = [session EXCEPT ![p] = "down"]
  /\ handler_peers' = handler_peers \ {p}
  /\ stale' = stale \ {p}
  /\ requests' = [i \in Ids |->
       IF i \in AtPeer("pending", p) THEN [requests[i] EXCEPT !.at = "fail"]
       ELSE IF i \in AtPeer("sent", p) THEN Free ELSE requests[i]]
  /\ UNCHANGED <<keys_vars, peers, handshaking_peers, statuses, duties,
                 waiting_lock, received, history>>

\* Its last step: remove_peer hands the requests to the thread, to be resent.
RemovePeer(p) ==
  LET unfinished == AtPeer("sent", p) \cup AtPeer("pending", p)
  IN  /\ session[p] = "closing"
      /\ session' = [session EXCEPT ![p] = "down"]
      /\ handler_peers' = handler_peers \ {p}
      /\ stale' = stale \ {p}
      /\ requests' = [i \in Ids |-> IF i \in unfinished
                                    THEN [requests[i] EXCEPT !.at = "fail"]
                                    ELSE requests[i]]
      /\ UNCHANGED <<keys_vars, peers, handshaking_peers, statuses, duties,
                     waiting_lock, received, history>>

-----------------------------------------------------------------------------
Asking ==
  \/ \E i \in At("free"), kind \in Kinds \ {"blocktxn"}, p \in peers \cup {NoPeer} :
       \E keys \in SUBSET KeysOf(kind) : RequestItems(i, kind, keys, p)
  \/ \E i \in Ids :
       \/ WithInflight(i)
       \/ CheckAndUpdateNetInflightBlocks(i)
       \/ SendRequest(i)
       \/ RemoveNetInflightBlocks(i)
       \/ PushWaiting(i)

Ticking ==
  \/ LockWaiting
  \/ NothingDue
  \/ UnlockWaiting
  \/ \E i \in Ids :
       \/ \E disconnect \in BOOLEAN : Timeout(i, disconnect)
       \/ OnRemoved(i)
       \/ Discard(i)
       \/ PopWaiting(i)
       \/ SendBatch(i)
  \/ \E i \in At("batch"), batch \in SUBSET At("batch"), delay \in Delays,
        p \in peers \cup {NoPeer} : GetBatchedRequests(batch, i, delay, p)

Answering ==
  \/ \E i \in At("sent") :
       \/ \E headers \in SUBSET Headers : \E taken \in SUBSET headers, recovering \in BOOLEAN :
            HandleHeaders(i, headers, taken, recovering)
       \/ HandleBlockHashes(i)
       \/ \E blocks \in SUBSET Blocks :
            \/ HandleBlocks(i, blocks)
            \/ HandleCompactWithPublic(i, blocks)
            \/ HandleBlocksWithPublic(i, blocks)
       \/ HandleCompactBlocks(i)
       \/ \E items \in SUBSET requests[i].keys : \E taken \in SUBSET items :
            HandleBlockTxn(i, items, taken)
       \/ HandleBlockTxnUnrecoverable(i)
       \/ HandleTerminalBlockHashes(i)
       \/ HandleUnexpectedResponse(i)
  \/ \E i \in Ids, j \in At("free") :
       \/ DispatchWithPublic(i, j)
       \/ \E block \in requests[i].keys : RequestBlockTxn(i, block, j)
       \/ \E good \in SUBSET requests[i].blocks, full \in SUBSET Blocks :
            \E taken \in SUBSET good : FinishCompactBlocks(i, good, taken, full, j)
  \/ \E i \in Ids :
       \/ PopTask(i)
       \/ \E items \in SUBSET requests[i].blocks : \E taken \in SUBSET items :
            OnBlocksInner(i, items, taken)

Peering ==
  \E p \in Peers :
    \/ OnPeerConnected(p)
    \/ OnStatusInHandshaking(p)
    \/ PeerConnected(p)
    \/ AddPeer(p)
    \/ OnPeerDisconnected(p)
    \/ RemovePeer(p)
    \/ \E ready \in SUBSET AtPeer("pending", p) : SendPendingRequests(p, ready)

Next ==
  \/ Asking
  \/ Ticking
  \/ Answering
  \/ Peering
  \/ \E key \in Blocks \cup Headers : ReceivedElsewhere(key)
  \/ \E key \in Headers : \E taken \in SUBSET {key} : HandleHeaderFromDb(key, taken)

Spec == Init /\ [][Next]_vars
-----------------------------------------------------------------------------
TypeOK ==
  /\ requests \in [Ids -> Requests]
  /\ inflight_keys \in SUBSET Keys
  /\ net_inflight_blocks \in SUBSET Blocks
  /\ handler_peers \in SUBSET Peers
  /\ peers \in SUBSET Peers
  /\ handshaking_peers \in SUBSET Peers
  /\ session \in [Peers -> {"down", "up", "closing"}]
  /\ statuses \in [Peers -> {"none", "handshaken", "connected"}]
  /\ stale \in SUBSET Peers
  /\ visits \in SUBSET Peers
  /\ events \in Nat
  /\ waiting_lock \in {"free", "pop", "send"}
  /\ received \in SUBSET Keys
  /\ doubled \in SUBSET Keys
  /\ lost \in SUBSET Keys
  /\ refused \in SUBSET Keys

\* The requests that hold the keys they ask for: all but those still to enter
\* with_inflight, and the one downcast_ref has taken the keys from.
Holders == {i \in Ids : requests[i].at \notin {"free", "call", "again"}}

\* A key in flight is never forgotten: some thread, peer or queue has a request
\* for it and will end it, through failed sends, timeouts, disconnections and
\* reconnections, partial answers, answers with items of other requests, batching
\* and the split of a compact response (request_manager/mod.rs: "it is ensured
\* that if it's not fully received, its hash exists in `in_flight`").  The
\* exceptions are the keys of the three steps that drop a request,
\* HandleBlockTxnUnrecoverable, HandleTerminalBlockHashes and AddPeer: nobody can
\* ask for them again, until the item happens to come with another answer or from
\* the database.
NoOrphans ==
  \A key \in inflight_keys \ lost : \E i \in Holders : key \in requests[i].keys

\* No key is asked for by two requests at a time, whatever threads ask for it
\* concurrently, and as long as one asks for it the key is in flight
\* (request_handler.rs: "If in flight, do not request duplicated items.").
\* Four things break this, each only for the keys it touches: an answer with
\* items it was not asked for, a header from the database, whole blocks in a
\* compact response that are not (or no longer) asked for by its request, and the
\* resend of GetBlocksWithPublicResponse.
OneHolder ==
  \A i \in Holders :
    /\ requests[i].keys \ doubled \subseteq inflight_keys \ lost
    /\ \A j \in Holders \ {i} : requests[i].keys \cap requests[j].keys \subseteq doubled

\* The marks that limit how many blocks are on their way go with the keys: no
\* block keeps a mark, and takes room from others, after its key has left,
\* unless the key was taken from under the request that sets the mark, or the
\* block has a second request, in one of the four ways above.
NetWithinInflight == net_inflight_blocks \ doubled \subseteq inflight_keys

\* The pending requests of a peer do not wait for nothing: another request of
\* the peer is on its way, whose answer or timeout sends them, or a thread is
\* about to send them.  (A peer added after its session had ended is an
\* exception: a disconnection that fails leaves its requests.)
PendingServed ==
  \A p \in handler_peers \ stale :
    AtPeer("pending", p) # {} /\ session[p] = "up" =>
      AtPeer("sent", p) # {} \/ p \in visits

\* What the safety of every step rests on: a request is of the kind and with
\* the peer that its place asks for, ...
FormedRequest(r) ==
  /\ r.keys \subseteq KeysOf(r.kind)
  /\ r.at = "check" => r.kind \in {"blocks", "compact"}
  /\ r.at = "compact" => r.kind = "compact"
  /\ r.at \in {"sent", "pending"} => r.peer \in handler_peers
Formed == \A i \in Ids : FormedRequest(requests[i])

\* ... only keys in flight can be lost, ...
LostStay == lost \subseteq inflight_keys

\* ... and RequestHandler has a peer without a session only if it was added
\* after the session had ended.
GoneIsStale == \A p \in handler_peers : session[p] = "down" => p \in stale

RequestInvariant ==
  /\ TypeOK /\ Formed
  /\ NoOrphans /\ OneHolder /\ NetWithinInflight /\ LostStay
  /\ PendingServed /\ GoneIsStale

\* request_manager/mod.rs: "The thread who removes a hash from `in_flight` is
\* responsible to request it again if it's not received."  A step that removes
\* a key has the item, or has it in hand to be asked for again; only items the
\* graph has refused and requests resent too often are given up.
RemoverAsksAgain ==
  [][\A key \in inflight_keys \ inflight_keys' :
       \/ key \in received' \cup refused'
       \/ \E i \in Ids : requests'[i].at \in {"call", "again"} /\ key \in requests'[i].keys
       \/ \E i \in Ids : Discard(i)]_vars

\* Every key in flight belongs to a request (request_handler.rs: "When a request
\* failed (send fail, invalid response or timeout), it will be resend
\* automatically.").
EveryKeyAsked ==
  \A key \in inflight_keys : \E i \in Ids : key \in requests[i].keys
=============================================================================
