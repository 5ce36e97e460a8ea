------------------------ MODULE RequestManagerProofs ------------------------
(***************************************************************************)
(* The request manager forgets no key and asks for none twice, for any      *)
(* peers, items, limits and number of requests.                             *)
(***************************************************************************)
EXTENDS RequestManager, FiniteSetTheorems, TLAPS

\* The part of the invariant that is about keys.
KeyInv == NoOrphans /\ OneHolder /\ NetWithinInflight /\ LostStay

\* Where a request is when it does not hold its keys.
Loose == {"free", "call", "again"}

-----------------------------------------------------------------------------
(***************************************************************************)
(* Requests and their types.                                                *)
(***************************************************************************)

\* A new request is well typed if its fields are.
LEMMA NewTyped ==
  ASSUME NEW kind \in Kinds, NEW keys \in SUBSET Keys, NEW delay \in Delays,
         NEW at \in Places, NEW p \in Peers \cup {NoPeer}
  PROVE  New(kind, keys, delay, at, p) \in Requests
BY Zenon DEF New, Requests

\* The fields of a request that is in use.
LEMMA Parts ==
  ASSUME NEW r \in Requests, r.at # "free"
  PROVE  /\ r.kind \in Kinds /\ r.keys \in SUBSET Keys /\ r.delay \in Delays
         /\ r.at \in Places /\ r.peer \in Peers \cup {NoPeer}
         /\ r.blocks \in SUBSET Blocks
         /\ r \in [kind : Kinds, keys : SUBSET Keys, delay : Delays, at : Places,
                   peer : Peers \cup {NoPeer}, blocks : SUBSET Blocks]
BY DEF Requests, Free

\* An id without a request.
LEMMA FreeAt == Free.at = "free"
BY DEF Free

\* A delay stays within its bound.
LEMMA DelayTyped ==
  ASSUME NEW d \in Delays
  PROVE  NextDelay(d) \in Delays
BY RequestAssumption DEF Delays, NextDelay

-----------------------------------------------------------------------------
(***************************************************************************)
(* Keys.                                                                    *)
(***************************************************************************)

\* Requests that change places and keep their keys disturb nothing; only keys
\* that are held may get a network mark.
LEMMA KeysKept ==
  ASSUME KeyInv,
         \A i \in Ids :
           /\ requests'[i].at \in Loose <=> requests[i].at \in Loose
           /\ requests[i].at \notin Loose => requests'[i].keys = requests[i].keys,
         UNCHANGED <<inflight_keys, lost, doubled>>,
         \A key \in net_inflight_blocks' :
           \/ key \in net_inflight_blocks
           \/ \E i \in Holders : key \in requests[i].keys
  PROVE  KeyInv'
<1>1. Holders' = Holders BY Zenon DEF Holders, Loose
<1>2. \A i \in Holders : requests'[i].keys = requests[i].keys BY Zenon DEF Holders, Loose
<1>3. NoOrphans' BY <1>1, <1>2, Zenon DEF KeyInv, NoOrphans
<1>4. OneHolder' BY <1>1, <1>2, Zenon DEF KeyInv, OneHolder
<1>5. NetWithinInflight' BY Zenon DEF KeyInv, NetWithinInflight, OneHolder
<1>6. LostStay' BY Zenon DEF KeyInv, LostStay
<1> QED BY <1>3, <1>4, <1>5, <1>6, Zenon DEF KeyInv

\* A request that lets go takes its keys out with it; of the others that leave,
\* those in flight are no longer in the hands of one request.
LEMMA KeysReleased ==
  ASSUME KeyInv,
         NEW i \in Holders,
         requests'[i].at \in Loose,
         \A j \in Ids \ {i} : requests'[j] = requests[j],
         NEW keys, requests[i].keys \subseteq keys, TakeOut(keys),
         doubled \cup ((keys \ requests[i].keys) \cap inflight_keys) \subseteq doubled'
  PROVE  KeyInv'
<1>1. Holders' = Holders \ {i} BY Zenon DEF Holders, Loose
<1>2. \A j \in Holders' : requests'[j].keys = requests[j].keys /\ j \in Holders /\ j # i
  BY <1>1, Zenon DEF Holders
<1>3. NoOrphans' BY <1>1, <1>2, Zenon DEF KeyInv, NoOrphans, TakeOut
<1>4. OneHolder'
  <2>1. \A j \in Holders' : requests'[j].keys \ doubled' \subseteq inflight_keys' \ lost'
    <3> TAKE j \in Holders'
    <3>1. requests[j].keys \cap requests[i].keys \subseteq doubled
      BY <1>2, Zenon DEF KeyInv, OneHolder
    <3>2. requests[j].keys \ doubled \subseteq inflight_keys \ lost
      BY <1>2, Zenon DEF KeyInv, OneHolder
    <3> QED BY <1>2, <3>1, <3>2 DEF TakeOut
  <2>2. \A j \in Holders' : \A k \in Holders' \ {j} :
          requests'[j].keys \cap requests'[k].keys \subseteq doubled'
    BY <1>2, Zenon DEF KeyInv, OneHolder
  <2> QED BY <2>1, <2>2, Zenon DEF OneHolder
<1>5. NetWithinInflight' BY Zenon DEF KeyInv, NetWithinInflight, TakeOut
<1>6. LostStay' BY Zenon DEF KeyInv, LostStay, TakeOut
<1> QED BY <1>3, <1>4, <1>5, <1>6, Zenon DEF KeyInv

\* A key taken from under the request that asks for it.
LEMMA KeysTakenOut ==
  ASSUME KeyInv, UNCHANGED requests, NEW keys, TakeOut(keys),
         doubled \cup (keys \cap inflight_keys) \subseteq doubled'
  PROVE  KeyInv'
<1>1. Holders' = Holders BY Zenon DEF Holders
<1>2. NoOrphans' BY <1>1, Zenon DEF KeyInv, NoOrphans, TakeOut
<1>3. OneHolder'
  <2>1. \A i \in Holders : requests[i].keys \ doubled' \subseteq inflight_keys' \ lost'
    <3> TAKE i \in Holders
    <3>1. requests[i].keys \ doubled \subseteq inflight_keys \ lost
      BY Zenon DEF KeyInv, OneHolder
    <3> QED BY <3>1, Zenon DEF TakeOut
  <2>2. \A i \in Holders : \A j \in Holders \ {i} :
          requests[i].keys \cap requests[j].keys \subseteq doubled'
    BY Zenon DEF KeyInv, OneHolder
  <2> QED BY <1>1, <2>1, <2>2, Zenon DEF OneHolder
<1>4. NetWithinInflight' /\ LostStay'
  BY Zenon DEF KeyInv, NetWithinInflight, LostStay, TakeOut
<1> QED BY <1>2, <1>3, <1>4, Zenon DEF KeyInv

\* Requests that go away leave the keys lost that are in flight.
LEMMA KeysLost ==
  ASSUME KeyInv, NEW D \in SUBSET Holders, Drop(D),
         UNCHANGED <<inflight_keys, net_inflight_blocks, doubled>>
  PROVE  KeyInv'
<1> DEFINE all == UNION {requests[i].keys : i \in D}
<1>0. /\ \A i \in D : requests'[i].at = "free"
      /\ \A j \in Ids \ D : requests'[j] = requests[j]
  BY Zenon DEF Drop, Free, Holders
<1>1. Holders' = Holders \ D BY <1>0, Zenon DEF Holders
<1>2. \A j \in Holders' : requests'[j].keys = requests[j].keys /\ j \in Holders /\ j \notin D
  BY <1>0, <1>1, Zenon DEF Holders
<1>3. lost' = lost \cup (inflight_keys \cap all) BY Zenon DEF Drop
<1>4. \A key : key \in all <=> \E i \in D : key \in requests[i].keys BY Zenon
<1> HIDE DEF all
<1>5. NoOrphans' BY <1>1, <1>2, <1>3, <1>4, Zenon DEF KeyInv, NoOrphans
<1>6. OneHolder'
  <2>1. \A j \in Holders' : requests'[j].keys \ doubled' \subseteq inflight_keys' \ lost'
    <3> TAKE j \in Holders'
    <3>1. requests[j].keys \cap all \subseteq doubled
      BY <1>2, <1>4, Zenon DEF KeyInv, OneHolder
    <3>2. requests[j].keys \ doubled \subseteq inflight_keys \ lost
      BY <1>2, Zenon DEF KeyInv, OneHolder
    <3> QED BY <1>2, <1>3, <3>1, <3>2, Zenon
  <2>2. \A j \in Holders' : \A k \in Holders' \ {j} :
          requests'[j].keys \cap requests'[k].keys \subseteq doubled'
    BY <1>2, Zenon DEF KeyInv, OneHolder
  <2> QED BY <2>1, <2>2, Zenon DEF OneHolder
<1>7. NetWithinInflight' /\ LostStay'
  BY <1>3, Zenon DEF KeyInv, NetWithinInflight, LostStay
<1> QED BY <1>5, <1>6, <1>7, Zenon DEF KeyInv

\* The keys of a request are marked, except those in flight already.
LEMMA KeysTaken ==
  ASSUME TypeOK, KeyInv, NEW i \in Ids, WithInflight(i)
  PROVE  KeyInv'
<1> DEFINE r == requests[i]
           fresh == r.keys \ inflight_keys
<1>1. i \notin Holders BY Zenon DEF WithInflight, Holders
<1>2. r \in Requests /\ r.at = "call" BY Zenon DEF TypeOK, WithInflight
<1>3. /\ inflight_keys' = inflight_keys \cup r.keys
      /\ UNCHANGED <<net_inflight_blocks, lost, doubled>>
      /\ \A j \in Ids \ {i} : requests'[j] = requests[j]
  BY Zenon DEF TypeOK, WithInflight, history
<1>4. /\ fresh = {} => requests'[i].at = "free"
      /\ fresh # {} => requests'[i].at \notin Loose /\ requests'[i].keys = fresh
  <2>1. CASE fresh = {} BY <2>1, Zenon DEF TypeOK, WithInflight, Free
  <2>2. CASE fresh # {}
    BY <2>2, <1>2, Parts, Zenon DEF TypeOK, WithInflight, Loose, TryGetBlockHashes
  <2> QED BY <2>1, <2>2, Zenon
<1>5. Holders' = IF fresh = {} THEN Holders ELSE Holders \cup {i}
  BY <1>1, <1>3, <1>4, Zenon DEF Holders, Loose
<1>6. \A j \in Holders : requests'[j] = requests[j] BY <1>1, <1>3, Zenon DEF Holders
<1> HIDE DEF fresh
<1>7. fresh = r.keys \ inflight_keys BY Zenon DEF fresh
<1>8. NoOrphans' BY <1>3, <1>4, <1>5, <1>6, <1>7, Zenon DEF KeyInv, NoOrphans
<1>9. OneHolder'
  <2>1. fresh \ doubled \subseteq inflight_keys' \ lost'
    BY <1>3, <1>7, Zenon DEF KeyInv, LostStay
  <2>2. \A j \in Holders : requests[j].keys \cap fresh \subseteq doubled
    BY <1>7, Zenon DEF KeyInv, OneHolder
  <2> QED BY <1>1, <1>3, <1>4, <1>5, <1>6, <2>1, <2>2 DEF KeyInv, OneHolder
<1>10. NetWithinInflight' /\ LostStay' BY <1>3, Zenon DEF KeyInv, NetWithinInflight, LostStay
<1> QED BY <1>8, <1>9, <1>10, Zenon DEF KeyInv

\* Requests become one that holds the keys of all of them.
LEMMA KeysBatched ==
  ASSUME TypeOK, KeyInv, NEW batch \in SUBSET At("batch"), NEW i \in Ids,
         NEW delay \in Delays, NEW p \in peers \cup {NoPeer},
         GetBatchedRequests(batch, i, delay, p)
  PROVE  KeyInv'
<1> DEFINE all == UNION {requests[k].keys : k \in batch}
<1>1. /\ batch \subseteq Holders /\ i \in batch
      /\ UNCHANGED <<inflight_keys, lost, doubled>>
      /\ net_inflight_blocks' \subseteq net_inflight_blocks
  BY Zenon DEF GetBatchedRequests, At, Holders, history
<1>2. /\ requests'[i].keys = all /\ requests'[i].at \in {"wait", "resend"}
      /\ \A k \in batch \ {i} : requests'[k].at = "free"
      /\ \A k \in Ids \ batch : requests'[k] = requests[k]
  BY <1>1, Zenon DEF GetBatchedRequests, New, Free, Holders
<1>3. Holders' = (Holders \ batch) \cup {i} BY <1>1, <1>2, Zenon DEF Holders
<1>4. \A key : key \in all <=> \E k \in batch : key \in requests[k].keys BY Zenon
<1> HIDE DEF all
<1>5. NoOrphans' BY <1>1, <1>2, <1>3, <1>4, Zenon DEF KeyInv, NoOrphans, Holders
<1>6. OneHolder'
  <2>1. all \ doubled \subseteq inflight_keys \ lost
    BY <1>1, <1>4, Zenon DEF KeyInv, OneHolder
  <2>2. \A j \in Holders \ batch : requests[j].keys \cap all \subseteq doubled
    BY <1>1, <1>4, Zenon DEF KeyInv, OneHolder
  <2>3. \A j \in Holders \ batch : requests'[j] = requests[j] BY <1>2, Zenon DEF Holders
  <2> QED BY <1>1, <1>2, <1>3, <2>1, <2>2, <2>3 DEF KeyInv, OneHolder
<1>7. NetWithinInflight' /\ LostStay' BY <1>1, Zenon DEF KeyInv, NetWithinInflight, LostStay
<1> QED BY <1>5, <1>6, <1>7, Zenon DEF KeyInv

\* The key of a compact block goes to the request for its transactions.
LEMMA KeysSplit ==
  ASSUME TypeOK, KeyInv, NEW i \in Ids, NEW j \in Ids, NEW block,
         RequestBlockTxn(i, block, j)
  PROVE  KeyInv'
<1>0. requests[j].at = "free" BY FreeAt, Zenon DEF RequestBlockTxn
<1>1. /\ requests[i] \in Requests /\ requests[i].at = "compact" /\ requests[j].at = "free"
      /\ i # j
  BY <1>0 DEF TypeOK, RequestBlockTxn
<1>2. /\ requests'[i].at = "compact" /\ requests'[i].keys = requests[i].keys \ {block}
      /\ requests'[j].at = "send" /\ requests'[j].keys = {block}
      /\ \A k \in Ids \ {i, j} : requests'[k] = requests[k]
  BY <1>1, Parts, Zenon DEF TypeOK, RequestBlockTxn, New
<1>3. /\ UNCHANGED <<inflight_keys, net_inflight_blocks, lost, doubled>>
      /\ block \in requests[i].keys
  BY Zenon DEF RequestBlockTxn, keys_vars, history
<1>4. /\ i \in Holders /\ j \notin Holders /\ Holders' = Holders \cup {j}
  BY <1>1, <1>2, Zenon DEF Holders
<1>5. \A k \in Holders \ {i} : requests'[k] = requests[k] BY <1>2, <1>4, Zenon DEF Holders
<1>6. NoOrphans' BY <1>2, <1>3, <1>4, <1>5, Zenon DEF KeyInv, NoOrphans
<1>7. OneHolder' BY <1>2, <1>3, <1>4, <1>5 DEF KeyInv, OneHolder
<1>8. NetWithinInflight' /\ LostStay' BY <1>3, Zenon DEF KeyInv, NetWithinInflight, LostStay
<1> QED BY <1>6, <1>7, <1>8, Zenon DEF KeyInv

\* The keys of whole blocks go to the queue, the other keys are released.
LEMMA KeysFinished ==
  ASSUME TypeOK, KeyInv, NEW i \in Ids, NEW j \in Ids, NEW good, NEW taken, NEW full,
         FinishCompactBlocks(i, good, taken, full, j)
  PROVE  KeyInv'
<1> DEFINE r == requests[i]
           requested == r.keys \ full
<1>0. requests[j].at = "free" BY FreeAt, Zenon DEF FinishCompactBlocks
<1>1. requests[i].at = "compact" /\ i # j BY <1>0 DEF FinishCompactBlocks
<1>2. /\ requests'[i].at \in {"free", "call"}
      /\ full = {} => requests'[j].at = "free"
      /\ full # {} => requests'[j].at = "task" /\ requests'[j].keys = full
      /\ \A k \in Ids \ {i, j} : requests'[k] = requests[k]
  BY <1>1, Zenon DEF TypeOK, FinishCompactBlocks, New, Free
<1>3. /\ TakeOut(requested \cup good)
      /\ doubled' = doubled \cup ((good \ requested) \cap inflight_keys) \cup (full \ r.keys)
  BY Zenon DEF FinishCompactBlocks
<1>4. /\ i \in Holders /\ j \notin Holders
      /\ Holders' = (Holders \ {i}) \cup (IF full = {} THEN {} ELSE {j})
  BY <1>0, <1>1, <1>2, Zenon DEF Holders
<1>5. \A k \in Holders \ {i} : requests'[k] = requests[k] BY <1>2, <1>4, Zenon DEF Holders
<1>6. NoOrphans' BY <1>2, <1>3, <1>4, <1>5, Zenon DEF KeyInv, NoOrphans, TakeOut
<1>7. OneHolder'
  <2>1. r.keys \ doubled \subseteq inflight_keys \ lost BY <1>4, Zenon DEF KeyInv, OneHolder
  <2>2. full \ doubled' \subseteq inflight_keys' \ lost'
    BY <1>3, <2>1 DEF TakeOut
  <2>3. ASSUME NEW k \in Holders \ {i}
        PROVE  /\ requests[k].keys \ doubled' \subseteq inflight_keys' \ lost'
               /\ requests[k].keys \cap full \subseteq doubled'
    <3>1. /\ requests[k].keys \ doubled \subseteq inflight_keys \ lost
          /\ requests[k].keys \cap r.keys \subseteq doubled
      BY <1>4, <2>3, Zenon DEF KeyInv, OneHolder
    <3> QED BY <1>3, <3>1 DEF TakeOut
  <2>4. \A k \in Holders \ {i} : \A l \in Holders \ {i, k} :
          requests[k].keys \cap requests[l].keys \subseteq doubled'
    BY <1>3, Zenon DEF KeyInv, OneHolder
  <2> HIDE DEF requested, r
  <2>5. CASE full = {} BY <1>4, <1>5, <2>3, <2>4, <2>5, Zenon DEF OneHolder
  <2>6. CASE full # {}
    <3>1. requests'[j].keys = full /\ Holders' = (Holders \ {i}) \cup {j}
      BY <1>2, <1>4, <2>6, Zenon
    <3> QED BY <1>4, <1>5, <2>2, <2>3, <2>4, <3>1, Zenon DEF OneHolder
  <2> QED BY <2>5, <2>6, Zenon
<1>8. NetWithinInflight' /\ LostStay'
  BY <1>3, Zenon DEF KeyInv, NetWithinInflight, LostStay, TakeOut
<1> QED BY <1>6, <1>7, <1>8, Zenon DEF KeyInv

\* The resend of a request that is handled all the same, or resent once more.
LEMMA KeysDoubled ==
  ASSUME TypeOK, KeyInv, NEW i \in Ids, NEW j \in Ids, DispatchWithPublic(i, j)
  PROVE  KeyInv'
<1> DEFINE fresh == requests[i].keys \ inflight_keys
<1>0. requests[j].at = "free" BY FreeAt, Zenon DEF DispatchWithPublic
<1>1. requests[i] \in Requests /\ requests[i].at = "again" /\ i # j
  BY <1>0 DEF TypeOK, DispatchWithPublic
<1>2. /\ requests'[i].at \in {"task", "fail"} /\ requests'[i].keys = requests[i].keys
      /\ fresh = {} => requests'[j].at = "free"
      /\ fresh # {} => requests'[j].at = "park" /\ requests'[j].keys = fresh
      /\ \A k \in Ids \ {i, j} : requests'[k] = requests[k]
  BY <1>1, Parts, Zenon DEF TypeOK, DispatchWithPublic, New, Free
<1>3. /\ inflight_keys' = inflight_keys \cup requests[i].keys
      /\ doubled' = doubled \cup requests[i].keys
      /\ UNCHANGED <<net_inflight_blocks, lost>>
  BY Zenon DEF DispatchWithPublic
<1>4. /\ i \notin Holders /\ j \notin Holders
      /\ Holders' = Holders \cup {i} \cup (IF fresh = {} THEN {} ELSE {j})
  BY <1>0, <1>1, <1>2, Zenon DEF Holders
<1>5. \A k \in Holders : requests'[k] = requests[k] BY <1>2, <1>4, Zenon DEF Holders
<1>6. fresh \subseteq requests[i].keys BY Zenon
<1> HIDE DEF fresh
<1>7. NoOrphans' BY <1>2, <1>3, <1>4, <1>5, Zenon DEF KeyInv, NoOrphans
<1>8. OneHolder' BY <1>2, <1>3, <1>4, <1>5, <1>6 DEF KeyInv, OneHolder
<1>9. NetWithinInflight' /\ LostStay' BY <1>3, Zenon DEF KeyInv, NetWithinInflight, LostStay
<1> QED BY <1>7, <1>8, <1>9, Zenon DEF KeyInv

\* The three functions for received items release the keys of their request, and
\* take the other items from whoever asks for them.
LEMMA ReceivedReleases ==
  ASSUME TypeOK, KeyInv, NEW i \in Ids, requests[i].at \in {"sent", "recover"},
         NEW items, ItemsReceived(i, requests[i].keys, items)
  PROVE  KeyInv'
<1>1. i \in Holders BY Zenon DEF Holders
<1>2. /\ requests'[i].at \in {"free", "call"}
      /\ \A j \in Ids \ {i} : requests'[j] = requests[j]
  BY Zenon DEF TypeOK, ItemsReceived, New, Free
<1> DEFINE keys == requests[i].keys \cup items
<1>3. /\ requests[i].keys \subseteq keys /\ TakeOut(keys)
      /\ doubled \cup ((keys \ requests[i].keys) \cap inflight_keys) \subseteq doubled'
  BY Zenon DEF ItemsReceived
<1> HIDE DEF keys
<1> QED BY <1>1, <1>2, <1>3, KeysReleased, Zenon DEF Loose

\* A GetCompactBlocks answered with whole blocks keeps its keys.
LEMMA TakenAsBlocks ==
  ASSUME TypeOK, NEW i \in Ids, NEW blocks, HandleCompactWithPublic(i, blocks)
  PROVE  /\ requests[i].at = "sent" /\ requests'[i].at = "task"
         /\ requests'[i].keys = requests[i].keys
         /\ \A j \in Ids \ {i} : requests'[j] = requests[j]
<1> DEFINE r == requests[i]
           q == [r EXCEPT !.kind = "blocks", !.at = "task", !.blocks = blocks, !.peer = NoPeer]
<1>1. r \in Requests /\ r.at = "sent" BY Zenon DEF TypeOK, HandleCompactWithPublic, Answered
<1>2. q.at = "task" /\ q.keys = r.keys BY <1>1, Parts, Zenon
<1>3. requests' = [requests EXCEPT ![i] = q] BY Zenon DEF HandleCompactWithPublic
<1> HIDE DEF q
<1>4. requests'[i] = q /\ \A j \in Ids \ {i} : requests'[j] = requests[j]
  BY <1>3, Zenon DEF TypeOK
<1> QED BY <1>1, <1>2, <1>4, Zenon

\* Every step of the node keeps the keys in order.
LEMMA KeysNext ==
  ASSUME TypeOK, KeyInv, [Next]_vars
  PROVE  KeyInv'
<1> USE DEF keys_vars, history
<1>0. \A i \in Ids : requests[i] \in Requests BY Zenon DEF TypeOK
<1>1. CASE Asking
  <2>1. ASSUME NEW i \in Ids, NEW kind, NEW keys, NEW p, RequestItems(i, kind, keys, p)
        PROVE  KeyInv'
    <3>1. requests[i].at = "free" BY <2>1 DEF RequestItems, Free
    <3>2. requests'[i].at = "call" /\ \A j \in Ids \ {i} : requests'[j] = requests[j]
      BY <2>1, Zenon DEF TypeOK, RequestItems, New
    <3> QED BY <2>1, <3>1, <3>2, KeysKept, Zenon DEF RequestItems, Loose
  <2>2. ASSUME NEW i \in Ids, CheckAndUpdateNetInflightBlocks(i) PROVE KeyInv'
    <3>1. /\ requests[i].at = "check" /\ i \in Holders
          /\ requests'[i].at \in {"park", "send"} /\ requests'[i].keys = requests[i].keys
          /\ \A j \in Ids \ {i} : requests'[j] = requests[j]
      BY <2>2, <1>0, Parts, Zenon DEF TypeOK, CheckAndUpdateNetInflightBlocks, Holders
    <3> QED BY <2>2, <3>1, KeysKept, Zenon DEF CheckAndUpdateNetInflightBlocks, Loose
  <2>3. ASSUME NEW i \in Ids, SendRequest(i) PROVE KeyInv'
    <3>1. /\ requests[i].at = "send"
          /\ requests'[i].at \in {"sent", "pending", "unsent"}
          /\ requests'[i].keys = requests[i].keys
          /\ \A j \in Ids \ {i} : requests'[j] = requests[j]
      BY <2>3, <1>0, Parts, Zenon DEF TypeOK, SendRequest, PlaceAtPeer
    <3> QED BY <2>3, <3>1, KeysKept, Zenon DEF SendRequest, Loose
  <2>4. ASSUME NEW i \in Ids, RemoveNetInflightBlocks(i) PROVE KeyInv'
    <3>1. /\ requests[i].at = "unsent" /\ requests'[i].at = "park"
          /\ requests'[i].keys = requests[i].keys
          /\ \A j \in Ids \ {i} : requests'[j] = requests[j]
      BY <2>4, <1>0, Parts, Zenon DEF TypeOK, RemoveNetInflightBlocks
    <3> QED BY <2>4, <3>1, KeysKept, Zenon DEF RemoveNetInflightBlocks, Loose
  <2>5. ASSUME NEW i \in Ids, PushWaiting(i) PROVE KeyInv'
    <3>1. /\ requests[i].at = "park" /\ requests'[i].at = "wait"
          /\ requests'[i].keys = requests[i].keys
          /\ \A j \in Ids \ {i} : requests'[j] = requests[j]
      BY <2>5, <1>0, Parts DEF TypeOK, PushWaiting
    <3> QED BY <2>5, <3>1, KeysKept, Zenon DEF PushWaiting, Loose
  <2> QED BY <1>1, <2>1, <2>2, <2>3, <2>4, <2>5, KeysTaken, Zenon DEF Asking, At
<1>2. CASE Ticking
  <2>1. CASE LockWaiting \/ NothingDue \/ UnlockWaiting
    BY <2>1, KeysKept, Zenon DEF LockWaiting, NothingDue, UnlockWaiting
  <2>2. ASSUME NEW i \in Ids, NEW disconnect, Timeout(i, disconnect) PROVE KeyInv'
    <3>1. /\ requests[i].at = "sent" /\ requests'[i].at = "fail"
          /\ requests'[i].keys = requests[i].keys
          /\ \A j \in Ids \ {i} : requests'[j] = requests[j]
      BY <2>2, <1>0, Parts, Zenon DEF TypeOK, Timeout
    <3> QED BY <2>2, <3>1, KeysKept, Zenon DEF Timeout, Loose
  <2>3. ASSUME NEW i \in Ids, OnRemoved(i) PROVE KeyInv'
    <3>1. /\ i \in Holders /\ requests'[i].at = "call"
          /\ \A j \in Ids \ {i} : requests'[j] = requests[j]
      BY <2>3, Zenon DEF TypeOK, OnRemoved, Holders, New
    <3>2. TakeOut(requests[i].keys) /\ UNCHANGED doubled BY <2>3, Zenon DEF OnRemoved
    <3> QED BY <3>1, <3>2, KeysReleased, Zenon DEF Loose
  <2>4. ASSUME NEW i \in Ids, Discard(i) PROVE KeyInv'
    <3>1. /\ i \in Holders /\ requests'[i].at = "free"
          /\ \A j \in Ids \ {i} : requests'[j] = requests[j]
      BY <2>4, Zenon DEF TypeOK, Discard, Holders, Free
    <3>2. TakeOut(requests[i].keys) /\ UNCHANGED doubled BY <2>4, Zenon DEF Discard
    <3> QED BY <3>1, <3>2, KeysReleased, Zenon DEF Loose
  <2>5. ASSUME NEW i \in Ids, PopWaiting(i) PROVE KeyInv'
    <3> DEFINE r == [requests[i] EXCEPT !.kind = Resend(requests[i].kind)]
    <3>1. requests[i].at = "wait" /\ i \in Holders
      <4>1. r.at = requests[i].at BY <1>0, Parts DEF Requests, Free
      <4> QED BY <2>5, <4>1, Zenon DEF PopWaiting, Holders
    <3>2. r.keys = requests[i].keys /\ r.at = "wait" BY <1>0, <3>1, Parts, Zenon
    <3>3. /\ requests'[i].at \in {"wait", "batch"}
          /\ requests'[i].keys = requests[i].keys
          /\ \A j \in Ids \ {i} : requests'[j] = requests[j]
      BY <2>5, <1>0, <3>1, Parts, Zenon DEF TypeOK, PopWaiting
    <3>4. TryGetBlockHashes(r) \subseteq requests[i].keys
      BY <3>2, Zenon DEF TryGetBlockHashes
    <3>5. net_inflight_blocks' \subseteq net_inflight_blocks \cup requests[i].keys
      BY <2>5, <3>4, Zenon DEF PopWaiting
    <3> QED BY <2>5, <3>1, <3>3, <3>5, KeysKept, Zenon DEF PopWaiting, Loose
  <2>6. ASSUME NEW i \in Ids, SendBatch(i) PROVE KeyInv'
    <3>1. /\ requests[i].at = "resend"
          /\ requests'[i].at \in {"sent", "pending", "wait"}
          /\ requests'[i].keys = requests[i].keys
          /\ \A j \in Ids \ {i} : requests'[j] = requests[j]
      BY <2>6, <1>0, Parts, Zenon DEF TypeOK, SendBatch, PlaceAtPeer
    <3> QED BY <2>6, <3>1, KeysKept, Zenon DEF SendBatch, Loose
  <2> QED BY <1>2, <2>1, <2>2, <2>3, <2>4, <2>5, <2>6, KeysBatched, Zenon DEF Ticking, At
<1>3. CASE Answering
  <2>1. ASSUME NEW i \in Ids, NEW headers, NEW taken, NEW recovering,
               HandleHeaders(i, headers, taken, recovering)
        PROVE  KeyInv'
    BY <2>1, ReceivedReleases, Zenon DEF HandleHeaders, Answered
  <2>2. ASSUME NEW i \in Ids, HandleBlockHashes(i) PROVE KeyInv'
    BY <2>2, ReceivedReleases, Zenon DEF HandleBlockHashes, Answered
  <2>3. ASSUME NEW i \in Ids, NEW blocks,
               HandleBlocks(i, blocks) \/ HandleCompactWithPublic(i, blocks)
        PROVE  KeyInv'
    <3>1. requests[i].at = "sent" BY <2>3, Zenon DEF HandleBlocks, HandleCompactWithPublic, Answered
    <3>2. /\ requests'[i].at = "task" /\ requests'[i].keys = requests[i].keys
          /\ \A j \in Ids \ {i} : requests'[j] = requests[j]
      <4>1. CASE HandleBlocks(i, blocks)
        BY <1>0, <3>1, <4>1, Parts, ZenonT(30) DEF TypeOK, HandleBlocks
      <4>2. CASE HandleCompactWithPublic(i, blocks)
        BY <4>2, TakenAsBlocks, Zenon
      <4> QED BY <2>3, <4>1, <4>2, Zenon
    <3> QED BY <2>3, <3>1, <3>2, KeysKept, Zenon DEF HandleBlocks, HandleCompactWithPublic, Loose
  <2>4. ASSUME NEW i \in Ids, NEW blocks, HandleBlocksWithPublic(i, blocks) PROVE KeyInv'
    <3>1. /\ i \in Holders /\ requests'[i].at = "again"
          /\ \A j \in Ids \ {i} : requests'[j] = requests[j]
      BY <2>4, <1>0, Parts, Zenon DEF TypeOK, HandleBlocksWithPublic, Answered, Holders
    <3>2. TakeOut(requests[i].keys) /\ UNCHANGED doubled
      BY <2>4, Zenon DEF HandleBlocksWithPublic
    <3> QED BY <3>1, <3>2, KeysReleased, Zenon DEF Loose
  <2>5. ASSUME NEW i \in Ids, NEW items, NEW taken, HandleBlockTxn(i, items, taken)
        PROVE  KeyInv'
    BY <2>5, ReceivedReleases, Zenon DEF HandleBlockTxn, Answered
  <2>6. ASSUME NEW i \in Ids, NEW items, NEW taken, OnBlocksInner(i, items, taken)
        PROVE  KeyInv'
    BY <2>6, ReceivedReleases, Zenon DEF OnBlocksInner
  <2>7. ASSUME NEW i \in Ids, HandleBlockTxnUnrecoverable(i) \/ HandleTerminalBlockHashes(i)
        PROVE  KeyInv'
    <3>1. {i} \in SUBSET Holders
      BY <2>7, Zenon DEF HandleBlockTxnUnrecoverable, HandleTerminalBlockHashes, Answered, Holders
    <3> QED
      BY <2>7, <3>1, KeysLost, Zenon DEF HandleBlockTxnUnrecoverable, HandleTerminalBlockHashes
  <2>8. ASSUME NEW i \in Ids,
               HandleUnexpectedResponse(i) \/ HandleCompactBlocks(i) \/ PopTask(i)
        PROVE  KeyInv'
    <3>1. /\ requests[i].at \in {"sent", "task"}
          /\ requests'[i].at \in {"fail", "compact", "recover"}
          /\ requests'[i].keys = requests[i].keys
          /\ \A j \in Ids \ {i} : requests'[j] = requests[j]
      BY <2>8, <1>0, Parts, ZenonT(30) DEF TypeOK, HandleUnexpectedResponse, HandleCompactBlocks,
         PopTask, Answered
    <3> QED
      BY <2>8, <3>1, KeysKept, Zenon DEF HandleUnexpectedResponse, HandleCompactBlocks,
         PopTask, Loose
  <2> QED
    BY <1>3, <2>1, <2>2, <2>3, <2>4, <2>5, <2>6, <2>7, <2>8, KeysDoubled, KeysSplit,
       KeysFinished, Zenon DEF Answering, At
<1>4. CASE Peering
  <2>1. ASSUME NEW p \in Peers,
               OnPeerConnected(p) \/ OnStatusInHandshaking(p) \/ PeerConnected(p)
                 \/ OnPeerDisconnected(p)
        PROVE  KeyInv'
    BY <2>1, KeysKept, Zenon DEF OnPeerConnected, OnStatusInHandshaking, PeerConnected,
       OnPeerDisconnected
  <2>2. ASSUME NEW p \in Peers, AddPeer(p) PROVE KeyInv'
    <3> DEFINE dropped == AtPeer("sent", p) \cup AtPeer("pending", p)
    <3>1. dropped \in SUBSET Holders BY Zenon DEF AtPeer, At, Holders
    <3>2. Drop(dropped) BY <2>2, Zenon DEF AddPeer
    <3> HIDE DEF dropped
    <3> QED BY <2>2, <3>1, <3>2, KeysLost, Zenon DEF AddPeer
  <2>3. ASSUME NEW p \in Peers, RemovePeer(p) PROVE KeyInv'
    <3>1. \A i \in Ids :
            /\ requests'[i].at \in Loose <=> requests[i].at \in Loose
            /\ requests[i].at \notin Loose => requests'[i].keys = requests[i].keys
      BY <2>3, <1>0, Parts, Zenon DEF RemovePeer, AtPeer, At, Loose
    <3> QED BY <2>3, <3>1, KeysKept, Zenon DEF RemovePeer
  <2>4. ASSUME NEW p \in Peers, NEW ready \in SUBSET AtPeer("pending", p),
               SendPendingRequests(p, ready)
        PROVE  KeyInv'
    <3>1. \A i \in Ids :
            /\ requests'[i].at \in Loose <=> requests[i].at \in Loose
            /\ requests[i].at \notin Loose => requests'[i].keys = requests[i].keys
      BY <2>4, <1>0, Parts, Zenon DEF SendPendingRequests, AtPeer, At, Loose
    <3> QED BY <2>4, <3>1, KeysKept, Zenon DEF SendPendingRequests
  <2> QED BY <1>4, <2>1, <2>2, <2>3, <2>4, Zenon DEF Peering
<1>5. ASSUME NEW key, ReceivedElsewhere(key) PROVE KeyInv'
  BY <1>5, KeysKept, Zenon DEF ReceivedElsewhere
<1>6. ASSUME NEW key, NEW taken, HandleHeaderFromDb(key, taken) PROVE KeyInv'
  <2>1. doubled \cup ({key} \cap inflight_keys) \subseteq doubled'
    BY <1>6, Zenon DEF HandleHeaderFromDb
  <2> QED BY <1>6, <2>1, KeysTakenOut, Zenon DEF HandleHeaderFromDb
<1>7. CASE UNCHANGED vars BY <1>7, KeysKept, Zenon DEF vars
<1> QED BY <1>1, <1>2, <1>3, <1>4, <1>5, <1>6, <1>7, Zenon DEF Next
-----------------------------------------------------------------------------
(***************************************************************************)
(* Types.                                                                   *)
(***************************************************************************)

\* The requests are well typed and in order where they are.
RequestsFormed == requests \in [Ids -> Requests] /\ Formed

\* A step that replaces one request by one that is in order.
LEMMA OneFormed ==
  ASSUME RequestsFormed, NEW i \in Ids, NEW r \in Requests, FormedRequest(r),
         requests' = [requests EXCEPT ![i] = r],
         UNCHANGED handler_peers
  PROVE  RequestsFormed'
BY Zenon DEF RequestsFormed, Formed, FormedRequest

\* ... or two.
LEMMA TwoFormed ==
  ASSUME RequestsFormed, NEW i \in Ids, NEW r \in Requests, FormedRequest(r),
         NEW j \in Ids, NEW q \in Requests, FormedRequest(q),
         requests' = [requests EXCEPT ![i] = r, ![j] = q],
         UNCHANGED handler_peers
  PROVE  RequestsFormed'
BY Zenon DEF RequestsFormed, Formed, FormedRequest

\* A request that changes only its place.
LEMMA Moved ==
  ASSUME NEW r \in Requests, r.at # "free", NEW at \in Places, FormedRequest(r),
         at \notin {"check", "compact", "sent", "pending"}
  PROVE  [r EXCEPT !.at = at] \in Requests /\ FormedRequest([r EXCEPT !.at = at])
<1>1. [r EXCEPT !.at = at] \in Requests BY Parts, Zenon DEF Requests
<1>2. /\ [r EXCEPT !.at = at].at = at /\ [r EXCEPT !.at = at].kind = r.kind
      /\ [r EXCEPT !.at = at].keys = r.keys /\ [r EXCEPT !.at = at].peer = r.peer
  BY Parts, Zenon
<1> QED BY <1>1, <1>2, Zenon DEF FormedRequest

\* An id without a request is well formed.
LEMMA FreeFormed == Free \in Requests /\ FormedRequest(Free)
BY Zenon DEF Free, Requests, FormedRequest

\* A new request that is with no peer.
LEMMA NewFormed ==
  ASSUME NEW kind \in Kinds, NEW keys \in SUBSET Keys, keys \subseteq KeysOf(kind),
         NEW delay \in Delays, NEW at \in Places, NEW p \in Peers \cup {NoPeer},
         at \notin {"check", "compact", "sent", "pending"}
  PROVE  /\ New(kind, keys, delay, at, p) \in Requests
         /\ FormedRequest(New(kind, keys, delay, at, p))
BY NewTyped, Zenon DEF New, FormedRequest

\* The keys of a kind are keys, and a resend asks for a kind.
LEMMA KeysOfKinds ==
  ASSUME NEW kind \in Kinds
  PROVE  KeysOf(kind) \subseteq Keys /\ Resend(kind) \in Kinds
         /\ KeysOf(Resend(kind)) = KeysOf(kind)
BY Zenon DEF Kinds, KeysOf, Keys, Resend

\* What is asked for again is a request in order.
LEMMA ReceivedFormed ==
  ASSUME RequestsFormed, NEW i \in Ids, requests[i].at # "free", NEW items,
         ItemsReceived(i, requests[i].keys, items),
         UNCHANGED handler_peers
  PROVE  RequestsFormed'
<1> DEFINE r == requests[i]
           missing == (r.keys \ items) \cap inflight_keys
           kind == IF r.kind = "blocktxn" THEN "blocks" ELSE r.kind
<1>1. r \in Requests /\ FormedRequest(r) BY Zenon DEF RequestsFormed, Formed
<1>2. r.kind \in Kinds /\ r.delay \in Delays /\ r.keys \in SUBSET Keys BY <1>1, Parts, Zenon
<1>3. kind \in Kinds /\ KeysOf(kind) = KeysOf(r.kind) BY <1>2, Zenon DEF Kinds, KeysOf
<1>4. missing \in SUBSET Keys /\ missing \subseteq KeysOf(kind)
  BY <1>1, <1>2, <1>3, Zenon DEF FormedRequest
<1>5. requests' = [requests EXCEPT ![i] =
                     IF missing = {} THEN Free ELSE New(kind, missing, r.delay, "call", NoPeer)]
  BY Zenon DEF ItemsReceived
<1> HIDE DEF missing, kind
<1>6. /\ New(kind, missing, r.delay, "call", NoPeer) \in Requests
      /\ FormedRequest(New(kind, missing, r.delay, "call", NoPeer))
  BY <1>2, <1>3, <1>4, NewFormed, Zenon DEF Places
<1> QED BY <1>5, <1>6, FreeFormed, OneFormed, Zenon

\* Requests that go away leave the others in order.
LEMMA DropFormed ==
  ASSUME RequestsFormed, NEW D, Drop(D), handler_peers \subseteq handler_peers'
  PROVE  RequestsFormed'
<1>1. \A i \in Ids : requests'[i] = Free \/ requests'[i] = requests[i] BY Zenon DEF Drop
<1>2. requests' \in [Ids -> Requests] BY FreeFormed, Zenon DEF Drop, RequestsFormed
<1> QED BY <1>1, <1>2, FreeFormed, Zenon DEF RequestsFormed, Formed, FormedRequest

\* The place send_request finds for a request, with a peer it knows.
LEMMA SentFormed ==
  ASSUME NEW r \in Requests, r.at # "free", FormedRequest(r), r.peer \in handler_peers
  PROVE  /\ [r EXCEPT !.at = PlaceAtPeer(r.peer)] \in Requests
         /\ FormedRequest([r EXCEPT !.at = PlaceAtPeer(r.peer)])
<1> DEFINE at == PlaceAtPeer(r.peer)
<1>1. at \in {"sent", "pending"} /\ at \in Places BY Zenon DEF PlaceAtPeer, Places
<1> HIDE DEF at
<1>2. [r EXCEPT !.at = at] \in Requests BY <1>1, Parts, Zenon DEF Requests
<1>3. /\ [r EXCEPT !.at = at].at = at /\ [r EXCEPT !.at = at].kind = r.kind
      /\ [r EXCEPT !.at = at].keys = r.keys /\ [r EXCEPT !.at = at].peer = r.peer
  BY Parts, Zenon
<1>4. FormedRequest([r EXCEPT !.at = at]) BY <1>1, <1>3, Zenon DEF FormedRequest
<1> QED BY <1>2, <1>4, Zenon DEF at

\* Asking for items and sending what was asked keeps requests well formed.
LEMMA AskingFormed ==
  ASSUME TypeOK, RequestsFormed, Asking
  PROVE  RequestsFormed'
<1> USE DEF peer_vars
<1>0. \A i \in Ids : requests[i] \in Requests /\ FormedRequest(requests[i])
  BY Zenon DEF RequestsFormed, Formed
<1>1. ASSUME NEW i \in Ids, NEW kind \in Kinds \ {"blocktxn"}, NEW p \in peers \cup {NoPeer},
             NEW keys \in SUBSET KeysOf(kind), RequestItems(i, kind, keys, p)
      PROVE  RequestsFormed'
  <2> DEFINE r == New(kind, keys, 0, "call", p)
  <2>1. requests' = [requests EXCEPT ![i] = r] /\ UNCHANGED handler_peers
    BY <1>1, Zenon DEF RequestItems
  <2>2. keys \in SUBSET Keys BY KeysOfKinds, Zenon
  <2>3. p \in Peers \cup {NoPeer} BY Zenon DEF TypeOK
  <2>4. 0 \in Delays /\ "call" \in Places BY RequestAssumption DEF Delays, Places
  <2>5. r \in Requests /\ FormedRequest(r) BY <2>2, <2>3, <2>4, NewFormed, Zenon
  <2> HIDE DEF r
  <2> QED BY <2>1, <2>5, OneFormed, Zenon
<1>2. ASSUME NEW i \in Ids, WithInflight(i) PROVE RequestsFormed'
  <2> DEFINE r == requests[i]
             fresh == r.keys \ inflight_keys
             next == IF r.peer = NoPeer \/ r.delay > 0 THEN "park"
                     ELSE IF TryGetBlockHashes(r) # {} THEN "check" ELSE "send"
             q == [r EXCEPT !.keys = fresh, !.delay = NextDelay(r.delay), !.at = next]
  <2>1. r \in Requests /\ r.at = "call" /\ FormedRequest(r) BY <1>0, <1>2, Zenon DEF WithInflight
  <2>2. next \in Places /\ next \notin {"compact", "sent", "pending"}
    BY Zenon DEF Places
  <2>3. next = "check" => r.kind \in {"blocks", "compact"} BY Zenon DEF TryGetBlockHashes
  <2>4. NextDelay(r.delay) \in Delays BY <2>1, Parts, DelayTyped, Zenon
  <2>5. requests' = [requests EXCEPT ![i] = IF fresh = {} THEN Free ELSE q]
        /\ UNCHANGED handler_peers
    BY <1>2, Zenon DEF WithInflight
  <2>6. fresh \subseteq r.keys BY Zenon
  <2> HIDE DEF next, fresh
  <2>7. q \in Requests BY <2>1, <2>2, <2>4, <2>6, Parts, Zenon DEF Requests
  <2>8. q.keys = fresh /\ q.at = next /\ q.kind = r.kind BY <2>1, Parts, Zenon
  <2>9. FormedRequest(q) BY <2>1, <2>2, <2>3, <2>6, <2>8, Zenon DEF FormedRequest
  <2> HIDE DEF q
  <2> QED BY <2>5, <2>7, <2>9, FreeFormed, OneFormed, Zenon
<1>3. ASSUME NEW i \in Ids, CheckAndUpdateNetInflightBlocks(i) PROVE RequestsFormed'
  <2>1. PICK at \in {"park", "send"} :
          requests' = [requests EXCEPT ![i] = [requests[i] EXCEPT !.at = at]]
    BY <1>3, Zenon DEF CheckAndUpdateNetInflightBlocks
  <2> QED
    BY <1>0, <1>3, <2>1, Moved, OneFormed, Zenon DEF CheckAndUpdateNetInflightBlocks, Places
<1>4. ASSUME NEW i \in Ids, SendRequest(i) PROVE RequestsFormed'
  <2> DEFINE p == requests[i].peer
  <2>1. requests[i].at = "send" /\ UNCHANGED handler_peers BY <1>4, Zenon DEF SendRequest
  <2>2. requests' = [requests EXCEPT ![i] = [requests[i] EXCEPT !.at =
          IF p \in handler_peers THEN PlaceAtPeer(p) ELSE "unsent"]]
    BY <1>4, Zenon DEF SendRequest
  <2>3. CASE p \in handler_peers
    BY <1>0, <2>1, <2>2, <2>3, SentFormed, OneFormed, Zenon
  <2>4. CASE p \notin handler_peers
    BY <1>0, <2>1, <2>2, <2>4, Moved, OneFormed, Zenon DEF Places
  <2> QED BY <2>3, <2>4, Zenon
<1>5. ASSUME NEW i \in Ids, RemoveNetInflightBlocks(i) PROVE RequestsFormed'
  <2>1. requests' = [requests EXCEPT ![i] = [requests[i] EXCEPT !.at = "park"]]
    BY <1>5, Zenon DEF RemoveNetInflightBlocks
  <2> QED BY <1>0, <1>5, <2>1, Moved, OneFormed, Zenon DEF RemoveNetInflightBlocks, Places
<1>6. ASSUME NEW i \in Ids, PushWaiting(i) PROVE RequestsFormed'
  <2> DEFINE r == requests[i]
             q == [r EXCEPT !.at = "wait", !.peer = NoPeer]
  <2>1. requests' = [requests EXCEPT ![i] = q] BY <1>6, Zenon DEF PushWaiting
  <2>2. r \in Requests /\ r.at = "park" /\ FormedRequest(r) BY <1>0, <1>6, Zenon DEF PushWaiting
  <2>3. q \in Requests BY <2>2, Parts, Zenon DEF Requests, Places
  <2>4. q.at = "wait" /\ q.keys = r.keys /\ q.kind = r.kind BY <2>2, Parts, Zenon
  <2>5. FormedRequest(q) BY <2>2, <2>4, Zenon DEF FormedRequest
  <2> HIDE DEF q
  <2> QED BY <1>6, <2>1, <2>3, <2>5, OneFormed, Zenon DEF PushWaiting
<1> QED BY <1>1, <1>2, <1>3, <1>4, <1>5, <1>6, Zenon DEF Asking, At

\* So do the timeouts and the resends of waiting requests, ...
LEMMA TickingFormed ==
  ASSUME TypeOK, RequestsFormed, Ticking
  PROVE  RequestsFormed'
<1> USE DEF peer_vars
<1>0. \A i \in Ids : requests[i] \in Requests /\ FormedRequest(requests[i])
  BY Zenon DEF RequestsFormed, Formed
<1>1. CASE LockWaiting \/ NothingDue \/ UnlockWaiting
  BY <1>1, Zenon DEF LockWaiting, NothingDue, UnlockWaiting, RequestsFormed, Formed, FormedRequest
<1>2. ASSUME NEW i \in Ids, NEW disconnect, Timeout(i, disconnect) PROVE RequestsFormed'
  <2>1. requests' = [requests EXCEPT ![i] = [requests[i] EXCEPT !.at = "fail"]]
    BY <1>2, Zenon DEF Timeout
  <2> QED BY <1>0, <1>2, <2>1, Moved, OneFormed, Zenon DEF Timeout, Places
<1>3. ASSUME NEW i \in Ids, OnRemoved(i) PROVE RequestsFormed'
  <2> DEFINE r == requests[i]
  <2>1. r \in Requests /\ r.at = "fail" /\ FormedRequest(r) BY <1>0, <1>3, Zenon DEF OnRemoved
  <2>2. /\ New(Resend(r.kind), r.keys, r.delay, "call", NoPeer) \in Requests
        /\ FormedRequest(New(Resend(r.kind), r.keys, r.delay, "call", NoPeer))
    <3>1. r.kind \in Kinds /\ r.keys \in SUBSET Keys /\ r.delay \in Delays BY <2>1, Parts, Zenon
    <3>2. Resend(r.kind) \in Kinds /\ r.keys \subseteq KeysOf(Resend(r.kind))
      BY <2>1, <3>1, KeysOfKinds, Zenon DEF FormedRequest
    <3>3. "call" \in Places BY Zenon DEF Places
    <3> QED BY <3>1, <3>2, <3>3, NewFormed, Zenon
  <2> QED BY <1>3, <2>2, OneFormed, Zenon DEF OnRemoved
<1>4. ASSUME NEW i \in Ids, Discard(i) PROVE RequestsFormed'
  BY <1>4, FreeFormed, OneFormed, Zenon DEF Discard
<1>5. ASSUME NEW i \in Ids, PopWaiting(i) PROVE RequestsFormed'
  <2> DEFINE r == [requests[i] EXCEPT !.kind = Resend(requests[i].kind)]
  <2>1. requests[i].at = "wait"
    <3>1. r.at = requests[i].at BY <1>0, Parts DEF Requests, Free
    <3> QED BY <1>5, <3>1, Zenon DEF PopWaiting
  <2>2. Resend(requests[i].kind) \in Kinds
        /\ KeysOf(Resend(requests[i].kind)) = KeysOf(requests[i].kind)
    BY <1>0, <2>1, Parts, KeysOfKinds, Zenon
  <2>3. r \in Requests BY <1>0, <2>1, <2>2, Parts, Zenon DEF Requests
  <2>4. r.at = "wait" /\ r.keys = requests[i].keys /\ r.kind = Resend(requests[i].kind)
    BY <1>0, <2>1, Parts, Zenon
  <2>5. FormedRequest(r) BY <1>0, <2>2, <2>4, Zenon DEF FormedRequest
  <2>6. \/ requests' = [requests EXCEPT ![i] = r]
        \/ requests' = [requests EXCEPT ![i] = [r EXCEPT !.at = "batch"]]
    BY <1>5, Zenon DEF PopWaiting
  <2>7. UNCHANGED handler_peers BY <1>5, Zenon DEF PopWaiting
  <2> HIDE DEF r
  <2>8. [r EXCEPT !.at = "batch"] \in Requests /\ FormedRequest([r EXCEPT !.at = "batch"])
    BY <2>3, <2>4, <2>5, Moved, Zenon DEF Places
  <2> QED BY <2>3, <2>5, <2>6, <2>7, <2>8, OneFormed, Zenon
<1>6. ASSUME NEW i \in Ids, SendBatch(i) PROVE RequestsFormed'
  <2> DEFINE p == requests[i].peer
             r == requests[i]
             q == [r EXCEPT !.at = "wait", !.peer = NoPeer]
  <2>1. r \in Requests /\ r.at = "resend" /\ FormedRequest(r) BY <1>0, <1>6, Zenon DEF SendBatch
  <2>2. requests' = [requests EXCEPT ![i] =
          IF p \in handler_peers THEN [r EXCEPT !.at = PlaceAtPeer(p)] ELSE q]
    BY <1>6, Zenon DEF SendBatch
  <2>3. UNCHANGED handler_peers BY <1>6, Zenon DEF SendBatch
  <2>4. CASE p \in handler_peers BY <2>1, <2>2, <2>3, <2>4, SentFormed, OneFormed, Zenon
  <2>5. CASE p \notin handler_peers
    <3>1. q \in Requests BY <2>1, Parts, Zenon DEF Requests, Places
    <3>2. q.at = "wait" /\ q.keys = r.keys /\ q.kind = r.kind BY <2>1, Parts, Zenon
    <3>3. FormedRequest(q) BY <2>1, <3>2, Zenon DEF FormedRequest
    <3> HIDE DEF q
    <3> QED BY <2>2, <2>3, <2>5, <3>1, <3>3, OneFormed, Zenon
  <2> QED BY <2>4, <2>5, Zenon
<1>7. ASSUME NEW batch \in SUBSET At("batch"), NEW i \in Ids, NEW delay \in Delays,
             NEW p \in peers \cup {NoPeer}, GetBatchedRequests(batch, i, delay, p)
      PROVE  RequestsFormed'
  <2> DEFINE kind == requests[i].kind
             keys == UNION {requests[k].keys : k \in batch}
             at == IF p = NoPeer THEN "wait" ELSE "resend"
             r == New(kind, keys, delay, at, p)
  <2>1. /\ i \in batch /\ batch \subseteq Ids
        /\ \A k \in batch : requests[k].kind = kind /\ requests[k].at = "batch"
    BY <1>7, Zenon DEF GetBatchedRequests, At
  <2>2. kind \in Kinds BY <1>0, <2>1, Parts, Zenon
  <2>3. \A k \in batch : requests[k].keys \subseteq KeysOf(kind)
    BY <1>0, <2>1, Zenon DEF FormedRequest
  <2>4. keys \subseteq KeysOf(kind) /\ keys \in SUBSET Keys BY <2>2, <2>3, KeysOfKinds
  <2>5. at \in {"wait", "resend"} /\ p \in Peers \cup {NoPeer} BY Zenon DEF TypeOK
  <2>6. requests' = [k \in Ids |-> IF k = i THEN r
                                   ELSE IF k \in batch THEN Free ELSE requests[k]]
        /\ UNCHANGED handler_peers
    BY <1>7, Zenon DEF GetBatchedRequests
  <2> HIDE DEF kind, keys, at
  <2>7. r \in Requests /\ FormedRequest(r)
    BY <2>2, <2>4, <2>5, NewFormed, Zenon DEF Places
  <2> HIDE DEF r
  <2> QED BY <1>0, <2>6, <2>7, FreeFormed, Zenon DEF RequestsFormed, Formed, FormedRequest
<1> QED BY <1>1, <1>2, <1>3, <1>4, <1>5, <1>6, <1>7, Zenon DEF Ticking, At

\* ... the handlers of responses ...
LEMMA AnsweringFormed ==
  ASSUME TypeOK, RequestsFormed, Answering
  PROVE  RequestsFormed'
<1> USE DEF peer_vars
<1>0. \A i \in Ids : requests[i] \in Requests /\ FormedRequest(requests[i])
  BY Zenon DEF RequestsFormed, Formed
<1>1. ASSUME NEW i \in Ids, NEW items, NEW taken,
             \/ HandleBlockHashes(i) \/ HandleBlockTxn(i, items, taken)
             \/ OnBlocksInner(i, items, taken)
             \/ \E recovering : HandleHeaders(i, items, taken, recovering)
      PROVE  RequestsFormed'
  <2>1. requests[i].at # "free" /\ UNCHANGED handler_peers
    BY <1>1, Zenon DEF HandleHeaders, HandleBlockHashes, HandleBlockTxn, OnBlocksInner, Answered
  <2>2. \E got : ItemsReceived(i, requests[i].keys, got)
    BY <1>1, Zenon DEF HandleHeaders, HandleBlockHashes, HandleBlockTxn, OnBlocksInner
  <2> QED BY <2>1, <2>2, ReceivedFormed, Zenon
<1>2. ASSUME NEW i \in Ids, NEW blocks \in SUBSET Blocks,
             HandleBlocks(i, blocks) \/ HandleBlocksWithPublic(i, blocks)
      PROVE  RequestsFormed'
  <2> DEFINE r == requests[i]
  <2>1. r \in Requests /\ r.at = "sent" /\ FormedRequest(r)
    BY <1>0, <1>2, Zenon DEF HandleBlocks, HandleBlocksWithPublic, Answered
  <2>2. PICK at \in {"task", "again"} :
          requests' = [requests EXCEPT ![i] =
                         [r EXCEPT !.at = at, !.blocks = blocks, !.peer = NoPeer]]
    BY <1>2, Zenon DEF HandleBlocks, HandleBlocksWithPublic
  <2> DEFINE q == [r EXCEPT !.at = at, !.blocks = blocks, !.peer = NoPeer]
  <2>3. q \in Requests BY <2>1, Parts, Zenon DEF Requests, Places
  <2>4. q.at = at /\ q.keys = r.keys /\ q.kind = r.kind BY <2>1, Parts, Zenon
  <2>5. FormedRequest(q) BY <2>1, <2>4, Zenon DEF FormedRequest
  <2>6. UNCHANGED handler_peers BY <1>2, Zenon DEF HandleBlocks, HandleBlocksWithPublic
  <2> HIDE DEF q
  <2> QED BY <2>2, <2>3, <2>5, <2>6, OneFormed, Zenon DEF q
<1>3. ASSUME NEW i \in Ids, HandleBlockTxnUnrecoverable(i) \/ HandleTerminalBlockHashes(i)
      PROVE  RequestsFormed'
  BY <1>3, DropFormed, Zenon DEF HandleBlockTxnUnrecoverable, HandleTerminalBlockHashes
<1>4. ASSUME NEW i \in Ids, HandleUnexpectedResponse(i) PROVE RequestsFormed'
  <2>1. requests' = [requests EXCEPT ![i] = [requests[i] EXCEPT !.at = "fail"]]
    BY <1>4, Zenon DEF HandleUnexpectedResponse
  <2> QED BY <1>0, <1>4, <2>1, Moved, OneFormed, Zenon DEF HandleUnexpectedResponse, Answered, Places
<1>5. ASSUME NEW i \in Ids, HandleCompactBlocks(i) PROVE RequestsFormed'
  <2> DEFINE r == requests[i]
             q == [r EXCEPT !.at = "compact", !.blocks = r.keys]
  <2>1. r \in Requests /\ r.at = "sent" /\ r.kind = "compact" /\ FormedRequest(r)
    BY <1>0, <1>5, Zenon DEF HandleCompactBlocks, Answered
  <2>2. requests' = [requests EXCEPT ![i] = q] BY <1>5, Zenon DEF HandleCompactBlocks
  <2>3. r.keys \in SUBSET Blocks BY <2>1, Zenon DEF FormedRequest, KeysOf
  <2>4. q \in Requests BY <2>1, <2>3, Parts, Zenon DEF Requests, Places
  <2>5. q.at = "compact" /\ q.keys = r.keys /\ q.kind = "compact" BY <2>1, Parts, Zenon
  <2>6. FormedRequest(q) BY <2>1, <2>5, Zenon DEF FormedRequest
  <2> HIDE DEF q
  <2> QED BY <1>5, <2>2, <2>4, <2>6, OneFormed, Zenon DEF HandleCompactBlocks
<1>6. ASSUME NEW i \in Ids, PopTask(i) PROVE RequestsFormed'
  <2>1. requests' = [requests EXCEPT ![i] = [requests[i] EXCEPT !.at = "recover"]]
    BY <1>6, Zenon DEF PopTask
  <2> QED BY <1>0, <1>6, <2>1, Moved, OneFormed, Zenon DEF PopTask, Places
<1>7. ASSUME NEW i \in Ids, NEW j \in Ids, DispatchWithPublic(i, j)
      PROVE  RequestsFormed'
  <2> DEFINE r == requests[i]
             fresh == r.keys \ inflight_keys
             at == IF r.kind = "blocks" THEN "task" ELSE "fail"
             q == [r EXCEPT !.at = at]
             n == New(Resend(r.kind), fresh, NextDelay(r.delay), "park", NoPeer)
  <2>1. r \in Requests /\ r.at = "again" /\ FormedRequest(r)
    BY <1>0, <1>7, Zenon DEF DispatchWithPublic
  <2>2. r.kind \in Kinds /\ r.keys \subseteq KeysOf(r.kind)
    BY <2>1, Parts, Zenon DEF FormedRequest
  <2>3. at \in {"task", "fail"} BY Zenon
  <2>4. NextDelay(r.delay) \in Delays BY <2>1, Parts, DelayTyped, Zenon
  <2>5. requests' = [requests EXCEPT ![i] = q, ![j] = IF fresh = {} THEN Free ELSE n]
        /\ UNCHANGED handler_peers
    BY <1>7, Zenon DEF DispatchWithPublic
  <2>6. fresh \in SUBSET Keys /\ fresh \subseteq KeysOf(Resend(r.kind)) /\ Resend(r.kind) \in Kinds
    BY <2>2, KeysOfKinds, Zenon
  <2> HIDE DEF fresh, at
  <2>7. q \in Requests /\ FormedRequest(q) BY <2>1, <2>3, Moved, Zenon DEF Places
  <2>8. n \in Requests /\ FormedRequest(n) BY <2>4, <2>6, NewFormed, Zenon DEF Places
  <2> HIDE DEF q, n
  <2> QED BY <2>5, <2>7, <2>8, FreeFormed, TwoFormed, Zenon
<1>8. ASSUME NEW i \in Ids, NEW j \in Ids, NEW block \in requests[i].keys,
             RequestBlockTxn(i, block, j)
      PROVE  RequestsFormed'
  <2> DEFINE r == requests[i]
             q == [r EXCEPT !.keys = r.keys \ {block}]
             n == New("blocktxn", {block}, 1, "send", r.peer)
  <2>1. r \in Requests /\ r.at = "compact" /\ FormedRequest(r)
    BY <1>0, <1>8, Zenon DEF RequestBlockTxn
  <2>2. q \in Requests BY <2>1, Parts, Zenon DEF Requests
  <2>3. q.at = "compact" /\ q.keys = r.keys \ {block} /\ q.kind = r.kind BY <2>1, Parts, Zenon
  <2>4. FormedRequest(q) BY <2>1, <2>3, Zenon DEF FormedRequest
  <2>5. 1 \in Delays BY RequestAssumption DEF Delays
  <2>6. n \in Requests /\ FormedRequest(n)
    <3>1. r.peer \in Peers \cup {NoPeer} BY <2>1, Parts, Zenon
    <3>2. {block} \in SUBSET Keys /\ {block} \subseteq KeysOf("blocktxn")
      BY <2>1, Zenon DEF FormedRequest, Keys, KeysOf
    <3>3. "blocktxn" \in Kinds /\ "send" \in Places BY Zenon DEF Kinds, Places
    <3> QED BY <2>5, <3>1, <3>2, <3>3, NewFormed, Zenon
  <2>7. requests' = [requests EXCEPT ![i] = q, ![j] = n] /\ UNCHANGED handler_peers
    BY <1>8, Zenon DEF RequestBlockTxn
  <2> HIDE DEF q, n
  <2> QED BY <2>2, <2>4, <2>6, <2>7, TwoFormed, Zenon
<1>9. ASSUME NEW i \in Ids, NEW j \in Ids, NEW good, NEW full \in SUBSET Blocks, NEW taken,
             FinishCompactBlocks(i, good, taken, full, j)
      PROVE  RequestsFormed'
  <2> DEFINE r == requests[i]
             missing == ((r.keys \ full) \ good) \cap inflight_keys
             again == New("blocks", missing, r.delay, "call", NoPeer)
             task == [New("compact", full, r.delay, "task", NoPeer) EXCEPT !.blocks = full]
  <2>1. r \in Requests /\ r.at = "compact" /\ FormedRequest(r)
    BY <1>0, <1>9, Zenon DEF FinishCompactBlocks
  <2>2. r.keys \subseteq Blocks /\ r.delay \in Delays
    BY <2>1, Parts, Zenon DEF FormedRequest, KeysOf
  <2>3. requests' = [requests EXCEPT ![i] = IF missing = {} THEN Free ELSE again,
                                     ![j] = IF full = {} THEN Free ELSE task]
        /\ UNCHANGED handler_peers
    BY <1>9, Zenon DEF FinishCompactBlocks
  <2>4. missing \subseteq Blocks BY <2>2, Zenon
  <2> HIDE DEF missing
  <2>5. again \in Requests /\ FormedRequest(again)
    BY <2>2, <2>4, NewFormed, Zenon DEF Kinds, Keys, KeysOf, Places
  <2>6. task \in Requests /\ FormedRequest(task)
    <3> DEFINE n == New("compact", full, r.delay, "task", NoPeer)
    <3>1. n \in Requests /\ FormedRequest(n)
      <4>1. full \in SUBSET Keys /\ full \subseteq KeysOf("compact") BY Zenon DEF Keys, KeysOf
      <4>2. "compact" \in Kinds /\ "task" \in Places BY Zenon DEF Kinds, Places
      <4> QED BY <2>2, <4>1, <4>2, NewFormed, Zenon
    <3>2. n.at = "task" BY Zenon DEF New
    <3> HIDE DEF n
    <3>4. [n EXCEPT !.blocks = full] \in Requests BY <3>1, <3>2, Parts, Zenon DEF Requests
    <3>5. /\ [n EXCEPT !.blocks = full].at = "task"
          /\ [n EXCEPT !.blocks = full].keys = n.keys
          /\ [n EXCEPT !.blocks = full].kind = n.kind
      BY <3>1, <3>2, Parts, Zenon
    <3>6. FormedRequest([n EXCEPT !.blocks = full]) BY <3>1, <3>5, Zenon DEF FormedRequest
    <3> QED BY <3>4, <3>6, Zenon DEF n
  <2> HIDE DEF again, task
  <2> QED BY <2>3, <2>5, <2>6, FreeFormed, TwoFormed, Zenon
<1>10. ASSUME NEW i \in Ids, NEW blocks \in SUBSET Blocks, HandleCompactWithPublic(i, blocks)
       PROVE  RequestsFormed'
  <2> DEFINE r == requests[i]
             q == [r EXCEPT !.kind = "blocks", !.at = "task", !.blocks = blocks, !.peer = NoPeer]
  <2>1. r \in Requests /\ r.at = "sent" /\ r.kind = "compact" /\ FormedRequest(r)
    BY <1>0, <1>10, Zenon DEF HandleCompactWithPublic, Answered
  <2>2. requests' = [requests EXCEPT ![i] = q] /\ UNCHANGED handler_peers
    BY <1>10, Zenon DEF HandleCompactWithPublic
  <2>3. q \in Requests BY <2>1, Parts, Zenon DEF Requests, Places, Kinds
  <2>4. q.at = "task" /\ q.keys = r.keys /\ q.kind = "blocks" BY <2>1, Parts, Zenon
  <2>5. FormedRequest(q) BY <2>1, <2>4, Zenon DEF FormedRequest, KeysOf
  <2> HIDE DEF q
  <2> QED BY <2>2, <2>3, <2>5, OneFormed, Zenon
<1>11. ASSUME NEW i \in Ids,
              \/ HandleBlockHashes(i)
              \/ \E headers, taken, recovering : HandleHeaders(i, headers, taken, recovering)
              \/ \E items, taken : HandleBlockTxn(i, items, taken) \/ OnBlocksInner(i, items, taken)
       PROVE  RequestsFormed'
  BY <1>1, <1>11, Zenon
<1> QED
  BY <1>2, <1>3, <1>4, <1>5, <1>6, <1>7, <1>8, <1>9, <1>10, <1>11, Zenon DEF Answering, At

\* ... and peers that come and go.
LEMMA PeeringFormed ==
  ASSUME TypeOK, RequestsFormed, Peering
  PROVE  RequestsFormed'
<1>0. \A i \in Ids : requests[i] \in Requests /\ FormedRequest(requests[i])
  BY Zenon DEF RequestsFormed, Formed
<1>1. ASSUME NEW p \in Peers,
             OnPeerConnected(p) \/ OnStatusInHandshaking(p) \/ PeerConnected(p)
               \/ OnPeerDisconnected(p)
      PROVE  RequestsFormed'
  BY <1>1, Zenon DEF OnPeerConnected, OnStatusInHandshaking, PeerConnected,
     OnPeerDisconnected, RequestsFormed, Formed, FormedRequest
<1>2. ASSUME NEW p \in Peers, AddPeer(p) PROVE RequestsFormed'
  BY <1>2, DropFormed, Zenon DEF AddPeer
<1>3. ASSUME NEW p \in Peers, RemovePeer(p) PROVE RequestsFormed'
  <2> DEFINE unfinished == AtPeer("sent", p) \cup AtPeer("pending", p)
  <2>1. \A i \in unfinished : /\ [requests[i] EXCEPT !.at = "fail"] \in Requests
                              /\ FormedRequest([requests[i] EXCEPT !.at = "fail"])
    BY <1>0, Moved, Zenon DEF AtPeer, At, Places
  <2>2. /\ requests' = [i \in Ids |-> IF i \in unfinished
                                      THEN [requests[i] EXCEPT !.at = "fail"]
                                      ELSE requests[i]]
        /\ handler_peers' = handler_peers \ {p}
    BY <1>3, Zenon DEF RemovePeer
  <2>3. requests' \in [Ids -> Requests] BY <1>0, <2>1, <2>2, Zenon
  <2>4. \A i \in Ids \ unfinished :
          requests[i].at \in {"sent", "pending"} => requests[i].peer # p
    BY Zenon DEF AtPeer, At
  <2>5. \A i \in unfinished : [requests[i] EXCEPT !.at = "fail"].at = "fail"
    BY <1>0, Parts, Zenon DEF AtPeer, At
  <2>6. unfinished \subseteq Ids BY Zenon DEF AtPeer, At
  <2> HIDE DEF unfinished
  <2> QED
    BY <1>0, <2>1, <2>2, <2>3, <2>4, <2>5, <2>6, Zenon DEF RequestsFormed, Formed, FormedRequest
<1>4. ASSUME NEW p \in Peers, NEW ready \in SUBSET AtPeer("pending", p),
             SendPendingRequests(p, ready)
      PROVE  RequestsFormed'
  <2>1. requests' = [i \in Ids |-> IF i \in ready THEN [requests[i] EXCEPT !.at = "sent"]
                                   ELSE requests[i]]
        /\ UNCHANGED handler_peers
    BY <1>4, Zenon DEF SendPendingRequests, peer_vars
  <2>2. \A i \in ready : requests[i].at = "pending" /\ i \in Ids BY Zenon DEF AtPeer, At
  <2>3. \A i \in ready : [requests[i] EXCEPT !.at = "sent"] \in Requests
    BY <1>0, <2>2, Parts DEF Requests, Places
  <2>4. \A i \in ready : /\ [requests[i] EXCEPT !.at = "sent"].at = "sent"
                         /\ [requests[i] EXCEPT !.at = "sent"].keys = requests[i].keys
                         /\ [requests[i] EXCEPT !.at = "sent"].kind = requests[i].kind
                         /\ [requests[i] EXCEPT !.at = "sent"].peer = requests[i].peer
    BY <1>0, <2>2, Parts, Zenon
  <2>5. \A i \in ready : FormedRequest([requests[i] EXCEPT !.at = "sent"])
    BY <1>0, <2>2, <2>4, Zenon DEF FormedRequest
  <2>6. requests' \in [Ids -> Requests] BY <1>0, <2>1, <2>3, Zenon
  <2> QED BY <1>0, <2>1, <2>5, <2>6, Zenon DEF RequestsFormed, Formed, FormedRequest
<1> QED BY <1>1, <1>2, <1>3, <1>4, Zenon DEF Peering

\* Requests stay well formed.
LEMMA FormedNext ==
  ASSUME TypeOK, Formed, [Next]_vars
  PROVE  RequestsFormed'
<1>1. RequestsFormed BY Zenon DEF RequestsFormed, TypeOK
<1>2. ASSUME NEW key, ReceivedElsewhere(key) PROVE RequestsFormed'
  BY <1>1, <1>2, Zenon DEF ReceivedElsewhere, peer_vars, RequestsFormed, Formed, FormedRequest
<1>3. ASSUME NEW key, NEW taken, HandleHeaderFromDb(key, taken) PROVE RequestsFormed'
  BY <1>1, <1>3, Zenon DEF HandleHeaderFromDb, peer_vars, RequestsFormed, Formed, FormedRequest
<1>4. CASE UNCHANGED vars
  BY <1>1, <1>4, Zenon DEF vars, RequestsFormed, Formed, FormedRequest
<1> QED
  BY <1>1, <1>2, <1>3, <1>4, AskingFormed, TickingFormed, AnsweringFormed, PeeringFormed, Zenon DEF Next

\* The types of the other variables.
KeysTyped ==
  /\ inflight_keys \in SUBSET Keys /\ net_inflight_blocks \in SUBSET Blocks
  /\ received \in SUBSET Keys /\ doubled \in SUBSET Keys /\ lost \in SUBSET Keys
  /\ refused \in SUBSET Keys
PeersTyped ==
  /\ handler_peers \in SUBSET Peers /\ peers \in SUBSET Peers
  /\ handshaking_peers \in SUBSET Peers
  /\ session \in [Peers -> {"down", "up", "closing"}]
  /\ statuses \in [Peers -> {"none", "handshaken", "connected"}]
  /\ stale \in SUBSET Peers /\ visits \in SUBSET Peers
  /\ events \in Nat /\ waiting_lock \in {"free", "pop", "send"}

\* TypeOK in its three parts.
LEMMA TypeParts == TypeOK <=> requests \in [Ids -> Requests] /\ KeysTyped /\ PeersTyped
BY Zenon DEF TypeOK, KeysTyped, PeersTyped

\* The keys of a request are keys, and those of a request for blocks blocks.
LEMMA KeysBounded ==
  ASSUME TypeOK, Formed, NEW i \in Ids
  PROVE  /\ requests[i].keys \subseteq Keys
         /\ requests[i].kind \in {"blocks", "compact", "blocktxn"}
              => requests[i].keys \subseteq Blocks
         /\ TryGetBlockHashes(requests[i]) \subseteq Blocks
         /\ requests[i].blocks \subseteq Blocks
<1>1. requests[i] \in Requests /\ FormedRequest(requests[i]) BY Zenon DEF TypeOK, Formed
<1>2. requests[i].keys \subseteq Keys /\ requests[i].blocks \subseteq Blocks
  BY <1>1 DEF Requests, Free
<1>3. requests[i].kind \in {"blocks", "compact", "blocktxn"}
        => requests[i].keys \subseteq Blocks
  BY <1>1, Zenon DEF FormedRequest, KeysOf
<1> QED BY <1>2, <1>3, Zenon DEF TryGetBlockHashes

\* What comes with an answer leaves the sets of keys well typed.
LEMMA ReceivedTyped ==
  ASSUME KeysTyped, NEW r, NEW requested, NEW items \in SUBSET Keys, NEW taken \in SUBSET Keys,
         ItemsReceived(r, requested, items), InsertItems(items, taken)
  PROVE  KeysTyped'
BY Zenon DEF KeysTyped, ItemsReceived, InsertItems, TakeOut

\* So does a request that is dropped.
LEMMA DropTyped ==
  ASSUME KeysTyped, NEW D, Drop(D),
         UNCHANGED <<inflight_keys, net_inflight_blocks, received, doubled, refused>>
  PROVE  KeysTyped'
BY Zenon DEF KeysTyped, Drop

\* The sets of keys stay well typed.
LEMMA KeysTypedNext ==
  ASSUME TypeOK, Formed, [Next]_vars
  PROVE  KeysTyped'
<1> USE DEF KeysTyped, keys_vars, history
<1>0. KeysTyped BY TypeParts, Zenon
<1>1. CASE Asking
  <2>1. ASSUME NEW i \in Ids, NEW kind, NEW keys, NEW p, RequestItems(i, kind, keys, p)
        PROVE  KeysTyped'
    BY <1>0, <2>1, Zenon DEF RequestItems
  <2>2. ASSUME NEW i \in Ids,
               WithInflight(i) \/ CheckAndUpdateNetInflightBlocks(i) \/ SendRequest(i)
                 \/ RemoveNetInflightBlocks(i) \/ PushWaiting(i)
        PROVE  KeysTyped'
    <3>1. requests[i].at = "check" => requests[i].keys \subseteq Blocks
      BY KeysBounded, Zenon DEF Formed, FormedRequest
    <3>2. requests[i].keys \subseteq Keys BY KeysBounded, Zenon
    <3> QED
      BY <1>0, <2>2, <3>1, <3>2, Zenon DEF WithInflight, CheckAndUpdateNetInflightBlocks,
         SendRequest, RemoveNetInflightBlocks, PushWaiting
  <2> QED BY <1>1, <2>1, <2>2, Zenon DEF Asking, At
<1>2. CASE Ticking
  <2>1. CASE LockWaiting \/ NothingDue \/ UnlockWaiting
    BY <1>0, <2>1, Zenon DEF LockWaiting, NothingDue, UnlockWaiting
  <2>2. ASSUME NEW i \in Ids, NEW disconnect,
               Timeout(i, disconnect) \/ OnRemoved(i) \/ Discard(i) \/ SendBatch(i)
        PROVE  KeysTyped'
    BY <1>0, <2>2, Zenon DEF Timeout, OnRemoved, Discard, SendBatch, TakeOut
  <2>3. ASSUME NEW i \in Ids, PopWaiting(i) PROVE KeysTyped'
    <3> DEFINE r == [requests[i] EXCEPT !.kind = Resend(requests[i].kind)]
    <3>0. requests[i] \in Requests BY Zenon DEF TypeOK
    <3>1. r.at = requests[i].at BY <3>0, Parts, Zenon DEF Requests, Free
    <3>2. requests[i].at = "wait" BY <2>3, <3>1, Zenon DEF PopWaiting
    <3>3. r.keys = requests[i].keys /\ r.kind = Resend(requests[i].kind)
      BY <3>0, <3>2, Parts, Zenon
    <3>4. TryGetBlockHashes(r) \subseteq Blocks
      <4>1. requests[i].kind \in Kinds BY <3>0, <3>2, Parts, Zenon
      <4> QED BY <3>3, <4>1, KeysBounded, Zenon DEF TryGetBlockHashes, Resend, Kinds
    <3> QED BY <1>0, <2>3, <3>4, Zenon DEF PopWaiting
  <2>4. ASSUME NEW batch, NEW i \in Ids, NEW delay, NEW p,
               GetBatchedRequests(batch, i, delay, p)
        PROVE  KeysTyped'
    BY <1>0, <2>4, Zenon DEF GetBatchedRequests
  <2>5. ASSUME NEW i \in Ids, OnRemoved(i) \/ Discard(i) \/ SendBatch(i) PROVE KeysTyped'
    BY <2>2, <2>5, Zenon
  <2> QED BY <1>2, <2>1, <2>2, <2>3, <2>4, <2>5, Zenon DEF Ticking, At
<1>3. CASE Answering
  <2>1. ASSUME NEW i \in Ids, NEW headers \in SUBSET Headers, NEW taken \in SUBSET headers,
               NEW recovering, HandleHeaders(i, headers, taken, recovering)
        PROVE  KeysTyped'
    <3> DEFINE items == IF recovering THEN requests[i].keys ELSE headers
    <3>1. items \in SUBSET Keys /\ taken \in SUBSET Keys BY KeysBounded, Zenon DEF Keys
    <3>2. ItemsReceived(i, requests[i].keys, items) /\ InsertItems(items, taken)
      BY <2>1, Zenon DEF HandleHeaders
    <3> HIDE DEF items
    <3> QED BY <1>0, <3>1, <3>2, ReceivedTyped, Zenon
  <2>2. ASSUME NEW i \in Ids, HandleBlockHashes(i) PROVE KeysTyped'
    <3>1. requests[i].keys \in SUBSET Keys BY KeysBounded, Zenon
    <3>2. {} \in SUBSET Keys BY Zenon
    <3>3. /\ ItemsReceived(i, requests[i].keys, requests[i].keys)
          /\ InsertItems(requests[i].keys, {})
      BY <2>2, Zenon DEF HandleBlockHashes
    <3> HIDE DEF KeysTyped
    <3> QED BY <1>0, <3>1, <3>2, <3>3, ReceivedTyped, Zenon
  <2>3. ASSUME NEW i \in Ids, NEW items \in SUBSET Keys, NEW taken \in SUBSET items,
               HandleBlockTxn(i, items, taken) \/ OnBlocksInner(i, items, taken)
        PROVE  KeysTyped'
    <3>1. taken \in SUBSET Keys BY Zenon
    <3> QED BY <1>0, <2>3, <3>1, ReceivedTyped, Zenon DEF HandleBlockTxn, OnBlocksInner
  <2>4. ASSUME NEW i \in Ids, HandleBlockTxnUnrecoverable(i) \/ HandleTerminalBlockHashes(i)
        PROVE  KeysTyped'
    BY <1>0, <2>4, DropTyped, Zenon DEF HandleBlockTxnUnrecoverable, HandleTerminalBlockHashes
  <2>5. ASSUME NEW i \in Ids,
               HandleUnexpectedResponse(i) \/ HandleCompactBlocks(i) \/ PopTask(i)
        PROVE  KeysTyped'
    BY <1>0, <2>5, Zenon DEF HandleUnexpectedResponse, HandleCompactBlocks, PopTask
  <2>6. ASSUME NEW i \in Ids, NEW j, DispatchWithPublic(i, j) PROVE KeysTyped'
    <3>1. requests[i].keys \subseteq Keys BY KeysBounded, Zenon
    <3> QED BY <1>0, <2>6, <3>1, Zenon DEF DispatchWithPublic
  <2>7. ASSUME NEW i \in Ids, NEW j, NEW block, RequestBlockTxn(i, block, j)
        PROVE  KeysTyped'
    BY <1>0, <2>7, Zenon DEF RequestBlockTxn
  <2>8. ASSUME NEW i \in Ids, NEW j, NEW good \in SUBSET requests[i].blocks,
               NEW full \in SUBSET Blocks, NEW taken \in SUBSET good,
               FinishCompactBlocks(i, good, taken, full, j)
        PROVE  KeysTyped'
    <3>1. good \subseteq Keys /\ taken \subseteq Keys /\ full \subseteq Keys
      BY KeysBounded, Zenon DEF Keys
    <3> QED BY <1>0, <2>8, <3>1, Zenon DEF FinishCompactBlocks, InsertItems, TakeOut
  <2>9. ASSUME NEW i \in Ids, NEW blocks,
               HandleBlocks(i, blocks) \/ HandleCompactWithPublic(i, blocks)
                 \/ HandleBlocksWithPublic(i, blocks)
        PROVE  KeysTyped'
    BY <1>0, <2>9, Zenon DEF HandleBlocks, HandleCompactWithPublic, HandleBlocksWithPublic, TakeOut
  <2>10. ASSUME NEW i \in Ids,
                \/ \E items \in SUBSET requests[i].keys : \E taken \in SUBSET items :
                     HandleBlockTxn(i, items, taken)
                \/ \E items \in SUBSET requests[i].blocks : \E taken \in SUBSET items :
                     OnBlocksInner(i, items, taken)
         PROVE  KeysTyped'
    <3>1. requests[i].keys \subseteq Keys /\ requests[i].blocks \subseteq Keys
      BY KeysBounded, Zenon DEF Keys
    <3> QED BY <2>3, <2>10, <3>1, Zenon
  <2> HIDE DEF KeysTyped
  <2> QED
    BY <1>3, <2>1, <2>2, <2>4, <2>5, <2>6, <2>7, <2>8, <2>9, <2>10, Zenon DEF Answering, At
<1>4. CASE Peering
  <2>1. ASSUME NEW p \in Peers, AddPeer(p) PROVE KeysTyped'
    BY <1>0, <2>1, DropTyped, Zenon DEF AddPeer
  <2>2. ASSUME NEW p \in Peers,
               OnPeerConnected(p) \/ OnStatusInHandshaking(p) \/ PeerConnected(p)
                 \/ OnPeerDisconnected(p) \/ RemovePeer(p)
        PROVE  KeysTyped'
    BY <1>0, <2>2, Zenon DEF OnPeerConnected, OnStatusInHandshaking, PeerConnected,
       OnPeerDisconnected, RemovePeer
  <2>3. ASSUME NEW p \in Peers, NEW ready, SendPendingRequests(p, ready) PROVE KeysTyped'
    BY <1>0, <2>3, Zenon DEF SendPendingRequests
  <2> QED BY <1>4, <2>1, <2>2, <2>3, Zenon DEF Peering
<1>5. ASSUME NEW key \in Blocks \cup Headers, ReceivedElsewhere(key) PROVE KeysTyped'
  BY <1>0, <1>5, Zenon DEF ReceivedElsewhere, Keys
<1>6. ASSUME NEW key \in Headers, NEW taken \in SUBSET {key}, HandleHeaderFromDb(key, taken)
      PROVE  KeysTyped'
  BY <1>0, <1>6, Zenon DEF HandleHeaderFromDb, InsertItems, TakeOut, Keys
<1>7. CASE UNCHANGED vars BY <1>0, <1>7, Zenon DEF vars
<1> HIDE DEF KeysTyped
<1> QED BY <1>1, <1>2, <1>3, <1>4, <1>5, <1>6, <1>7, Zenon DEF Next

\* The tables of peers stay well typed.
LEMMA PeersTypedNext ==
  ASSUME TypeOK, Formed, [Next]_vars
  PROVE  PeersTyped'
<1> USE DEF PeersTyped, peer_vars, duties
<1>0. PeersTyped BY TypeParts, Zenon
<1>1. CASE Asking
  <2>1. ASSUME NEW i, NEW kind, NEW keys, NEW p, RequestItems(i, kind, keys, p)
        PROVE  PeersTyped'
    BY <1>0, <2>1 DEF RequestItems, Event
  <2>2. ASSUME NEW i \in Ids,
               WithInflight(i) \/ CheckAndUpdateNetInflightBlocks(i) \/ SendRequest(i)
                 \/ RemoveNetInflightBlocks(i) \/ PushWaiting(i)
        PROVE  PeersTyped'
    BY <1>0, <2>2, Zenon DEF WithInflight, CheckAndUpdateNetInflightBlocks, SendRequest,
       RemoveNetInflightBlocks, PushWaiting
  <2> QED BY <1>1, <2>1, <2>2, Zenon DEF Asking, At
<1>2. CASE Ticking
  <2>1. CASE LockWaiting \/ NothingDue \/ UnlockWaiting
    BY <1>0, <2>1, Zenon DEF LockWaiting, NothingDue, UnlockWaiting
  <2>2. ASSUME NEW i \in Ids, NEW disconnect, Timeout(i, disconnect) PROVE PeersTyped'
    <3>1. requests[i].peer \in Peers
      BY <1>0, <2>2, Zenon DEF Timeout, Formed, FormedRequest
    <3> QED BY <1>0, <2>2, <3>1 DEF Timeout, Event, DisconnectPeer
  <2>3. ASSUME NEW i \in Ids, OnRemoved(i) \/ Discard(i) \/ PopWaiting(i) \/ SendBatch(i)
        PROVE  PeersTyped'
    BY <1>0, <2>3, Zenon DEF OnRemoved, Discard, PopWaiting, SendBatch
  <2>4. ASSUME NEW batch, NEW i, NEW delay, NEW p, GetBatchedRequests(batch, i, delay, p)
        PROVE  PeersTyped'
    BY <1>0, <2>4, Zenon DEF GetBatchedRequests
  <2> QED BY <1>2, <2>1, <2>2, <2>3, <2>4, Zenon DEF Ticking, At
<1>3. CASE Answering
  <2>1. ASSUME NEW i \in Ids,
               \/ \E headers, taken, recovering : HandleHeaders(i, headers, taken, recovering)
               \/ HandleBlockHashes(i)
               \/ \E blocks : \/ HandleBlocks(i, blocks) \/ HandleCompactWithPublic(i, blocks)
                              \/ HandleBlocksWithPublic(i, blocks)
               \/ HandleCompactBlocks(i)
               \/ \E items, taken : HandleBlockTxn(i, items, taken)
               \/ HandleBlockTxnUnrecoverable(i) \/ HandleTerminalBlockHashes(i)
               \/ HandleUnexpectedResponse(i)
        PROVE  PeersTyped'
    <3>1. Answered(i) /\ UNCHANGED <<peer_vars, events, waiting_lock>>
      BY <2>1, Zenon DEF HandleHeaders, HandleBlockHashes, HandleBlocks, HandleCompactWithPublic,
         HandleBlocksWithPublic, HandleCompactBlocks, HandleBlockTxn,
         HandleBlockTxnUnrecoverable, HandleTerminalBlockHashes, HandleUnexpectedResponse
    <3> QED BY <1>0, <3>1, Zenon DEF Answered
  <2>2. ASSUME NEW i \in Ids, NEW j,
               \/ DispatchWithPublic(i, j)
               \/ \E block : RequestBlockTxn(i, block, j)
               \/ \E good, taken, full : FinishCompactBlocks(i, good, taken, full, j)
        PROVE  PeersTyped'
    BY <1>0, <2>2, Zenon DEF DispatchWithPublic, RequestBlockTxn, FinishCompactBlocks
  <2>3. ASSUME NEW i \in Ids, PopTask(i) \/ \E items, taken : OnBlocksInner(i, items, taken)
        PROVE  PeersTyped'
    BY <1>0, <2>3, Zenon DEF PopTask, OnBlocksInner
  <2> HIDE DEF PeersTyped
  <2> QED BY <1>3, <2>1, <2>2, <2>3, Zenon DEF Answering, At
<1>4. CASE Peering
  <2>1. ASSUME NEW p \in Peers, OnPeerConnected(p) PROVE PeersTyped'
    BY <1>0, <2>1 DEF OnPeerConnected, Event
  <2>2. ASSUME NEW p \in Peers, OnStatusInHandshaking(p) \/ PeerConnected(p) \/ AddPeer(p)
        PROVE  PeersTyped'
    BY <1>0, <2>2, Zenon DEF OnStatusInHandshaking, PeerConnected, AddPeer
  <2>3. ASSUME NEW p \in Peers, OnPeerDisconnected(p) PROVE PeersTyped'
    BY <1>0, <2>3 DEF OnPeerDisconnected, DisconnectPeer, Event
  <2>4. ASSUME NEW p \in Peers, RemovePeer(p) PROVE PeersTyped'
    BY <1>0, <2>4, Zenon DEF RemovePeer
  <2>5. ASSUME NEW p \in Peers, NEW ready, SendPendingRequests(p, ready) PROVE PeersTyped'
    BY <1>0, <2>5, Zenon DEF SendPendingRequests
  <2> QED BY <1>4, <2>1, <2>2, <2>3, <2>4, <2>5, Zenon DEF Peering
<1>5. ASSUME NEW key, ReceivedElsewhere(key) PROVE PeersTyped'
  BY <1>0, <1>5 DEF ReceivedElsewhere, Event
<1>6. ASSUME NEW key, NEW taken, HandleHeaderFromDb(key, taken) PROVE PeersTyped'
  BY <1>0, <1>6 DEF HandleHeaderFromDb, Event
<1>7. CASE UNCHANGED vars BY <1>0, <1>7, Zenon DEF vars
<1> HIDE DEF PeersTyped
<1> QED BY <1>1, <1>2, <1>3, <1>4, <1>5, <1>6, <1>7, Zenon DEF Next

-----------------------------------------------------------------------------
(***************************************************************************)
(* Pending requests.                                                        *)
(***************************************************************************)
Served == PendingServed /\ GoneIsStale

\* Nothing becomes pending, and whoever takes a request off a peer sends the
\* pending ones or ends the session.
LEMMA ServedKept ==
  ASSUME Served,
         \A i \in Ids : requests'[i].at = "pending" =>
           requests[i].at = "pending" /\ requests'[i].peer = requests[i].peer,
         \A i \in Ids : requests[i].at = "sent" =>
           \/ requests'[i].at = "sent" /\ requests'[i].peer = requests[i].peer
           \/ requests[i].peer \in visits'
           \/ session'[requests[i].peer] # "up",
         visits \subseteq visits',
         \A p \in handler_peers : /\ session'[p] = "up" => session[p] = "up"
                                  /\ session'[p] = "down" => session[p] = "down",
         UNCHANGED <<handler_peers, stale>>
  PROVE  Served'
<1>1. GoneIsStale' BY Zenon DEF Served, GoneIsStale
<1>2. PendingServed' BY DEF Served, PendingServed, AtPeer, At
<1> QED BY <1>1, <1>2, Zenon DEF Served

\* send_request keeps a request only behind another one.
LEMMA ServedSent ==
  ASSUME Served, NEW i \in Ids,
         requests[i].at \in {"send", "resend"},
         requests'[i].peer = requests[i].peer,
         requests'[i].at = PlaceAtPeer(requests[i].peer),
         \A j \in Ids \ {i} : requests'[j] = requests[j],
         UNCHANGED <<visits, session, handler_peers, stale>>
  PROVE  Served'
<1> DEFINE p == requests[i].peer
<1>1. GoneIsStale' BY Zenon DEF Served, GoneIsStale
<1>2. PlaceAtPeer(p) = "pending" => AtPeer("sent", p) # {}
  BY FS_EmptySet, RequestAssumption DEF PlaceAtPeer
<1>3. PlaceAtPeer(p) \in {"sent", "pending"} BY Zenon DEF PlaceAtPeer
<1>4. \A q : AtPeer("sent", q) \subseteq AtPeer("sent", q)' BY Zenon DEF AtPeer, At
<1>5. \A q : q # p => AtPeer("pending", q)' = AtPeer("pending", q) BY Zenon DEF AtPeer, At
<1>6. ASSUME PlaceAtPeer(p) = "pending" PROVE PendingServed'
  BY <1>2, <1>4, <1>5, <1>6, Zenon DEF Served, PendingServed
<1>7. ASSUME PlaceAtPeer(p) = "sent" PROVE PendingServed'
  <2>1. i \in AtPeer("sent", p)' BY <1>7, Zenon DEF AtPeer, At
  <2> QED BY <1>4, <1>5, <2>1, Zenon DEF Served, PendingServed
<1>8. PendingServed' BY <1>3, <1>6, <1>7, Zenon DEF Served
<1> QED BY <1>1, <1>8, Zenon DEF Served

\* send_pending_requests leaves something pending only behind another one.
LEMMA ServedPending ==
  ASSUME TypeOK, Served, NEW p \in Peers, NEW ready \in SUBSET AtPeer("pending", p),
         SendPendingRequests(p, ready)
  PROVE  Served'
<1> DEFINE sent == AtPeer("sent", p)
           room == max_inflight_request_count - Cardinality(sent)
<1>0. \A i \in Ids : requests[i] \in Requests BY Zenon DEF TypeOK
<1>1. /\ requests' = [i \in Ids |-> IF i \in ready THEN [requests[i] EXCEPT !.at = "sent"]
                                    ELSE requests[i]]
      /\ visits' = visits \ {p}
      /\ UNCHANGED <<session, handler_peers, stale>>
  BY Zenon DEF SendPendingRequests, peer_vars
<1>2. ready = AtPeer("pending", p) \/ Cardinality(ready) = room
  BY Zenon DEF SendPendingRequests
<1>3. \A i \in ready : i \in Ids /\ requests[i].at = "pending" /\ requests[i].peer = p
  BY Zenon DEF AtPeer, At
<1>4. \A i \in ready : requests'[i].at = "sent" /\ requests'[i].peer = p
  BY <1>0, <1>1, <1>3, Parts, Zenon
<1>5. \A i \in Ids \ ready : requests'[i] = requests[i] BY <1>1, Zenon
<1>6. GoneIsStale' BY <1>1, Zenon DEF Served, GoneIsStale
<1>7. AtPeer("pending", p)' = {} \/ AtPeer("sent", p)' # {}
  <2>1. CASE ready = AtPeer("pending", p) BY <1>4, <1>5, <2>1, ZenonT(30) DEF AtPeer, At
  <2>2. CASE ready # {} BY <1>3, <1>4, <2>2, ZenonT(30) DEF AtPeer, At
  <2>3. CASE ready = {} /\ Cardinality(ready) = room
    <3>1. sent # {} BY <2>3, FS_EmptySet, RequestAssumption
    <3> QED BY <1>5, <2>3, <3>1 DEF AtPeer, At
  <2> QED BY <1>2, <2>1, <2>2, <2>3, Zenon
<1>8. \A q : q # p => /\ AtPeer("pending", q)' = AtPeer("pending", q)
                      /\ AtPeer("sent", q)' = AtPeer("sent", q)
  BY <1>3, <1>4, <1>5 DEF AtPeer, At
<1>9. PendingServed' BY <1>1, <1>7, <1>8, Zenon DEF Served, PendingServed
<1> QED BY <1>6, <1>9, Zenon DEF Served

\* A response takes its request off the peer and lets its handler send the
\* pending ones.
LEMMA ServedAnswered ==
  ASSUME Served, NEW i \in Ids, requests[i].at \notin {"sent", "pending"} \/ Answered(i),
         requests'[i].at # "pending",
         \A j \in Ids \ {i} : requests'[j] = requests[j],
         visits \subseteq visits',
         UNCHANGED <<session, handler_peers, stale>>
  PROVE  Served'
<1>1. requests[i].at = "sent" => requests[i].peer \in visits' BY Zenon DEF Answered
<1> QED BY <1>1, ServedKept, Zenon

\* Every step leaves the pending requests someone to send them.
LEMMA ServedNext ==
  ASSUME TypeOK, Formed, Served, [Next]_vars
  PROVE  Served'
<1> USE DEF peer_vars, duties
<1>0. \A i \in Ids : requests[i] \in Requests BY Zenon DEF TypeOK
<1>1. CASE Asking
  <2>1. ASSUME NEW i \in Ids, NEW kind, NEW keys, NEW p, RequestItems(i, kind, keys, p)
        PROVE  Served'
    <3>1. /\ requests[i].at = "free" /\ requests'[i].at = "call"
          /\ \A j \in Ids \ {i} : requests'[j] = requests[j]
      BY <2>1 DEF TypeOK, RequestItems, New, Free
    <3> QED BY <2>1, <3>1, ServedAnswered, Zenon DEF RequestItems
  <2>2. ASSUME NEW i \in Ids, WithInflight(i) PROVE Served'
    <3>1. requests[i].at = "call" BY <2>2, Zenon DEF WithInflight
    <3>2. \A j \in Ids \ {i} : requests'[j] = requests[j]
      BY <2>2, Zenon DEF TypeOK, WithInflight
    <3>3. requests'[i].at # "pending"
      BY <1>0, <2>2, <3>1, Parts, Zenon DEF TypeOK, WithInflight, Free
    <3> QED BY <2>2, <3>1, <3>2, <3>3, ServedAnswered, Zenon DEF WithInflight
  <2>3. ASSUME NEW i \in Ids,
               CheckAndUpdateNetInflightBlocks(i) \/ RemoveNetInflightBlocks(i)
                 \/ PushWaiting(i)
        PROVE  Served'
    <3>1. /\ requests[i].at \in {"check", "unsent", "park"}
          /\ requests'[i].at \in {"park", "send", "wait"}
          /\ \A j \in Ids \ {i} : requests'[j] = requests[j]
      BY <1>0, <2>3, Parts DEF TypeOK, CheckAndUpdateNetInflightBlocks,
         RemoveNetInflightBlocks, PushWaiting
    <3> QED
      BY <2>3, <3>1, ServedAnswered, Zenon DEF CheckAndUpdateNetInflightBlocks,
         RemoveNetInflightBlocks, PushWaiting
  <2>4. ASSUME NEW i \in Ids, SendRequest(i) PROVE Served'
    <3> DEFINE p == requests[i].peer
               at == IF p \in handler_peers THEN PlaceAtPeer(p) ELSE "unsent"
    <3>1. /\ requests[i].at = "send" /\ UNCHANGED <<session, handler_peers, stale, visits>>
          /\ requests' = [requests EXCEPT ![i] = [requests[i] EXCEPT !.at = at]]
      BY <2>4, Zenon DEF SendRequest
    <3>2. \A j \in Ids \ {i} : requests'[j] = requests[j] BY <3>1, Zenon DEF TypeOK
    <3> HIDE DEF at
    <3>3. requests'[i].at = at /\ requests'[i].peer = p BY <1>0, <3>1, Parts, Zenon DEF TypeOK
    <3>4. CASE p \in handler_peers BY <3>1, <3>2, <3>3, <3>4, ServedSent, Zenon DEF at
    <3>5. CASE p \notin handler_peers BY <3>1, <3>2, <3>3, <3>5, ServedAnswered DEF at
    <3> QED BY <3>4, <3>5, Zenon
  <2> QED BY <1>1, <2>1, <2>2, <2>3, <2>4, Zenon DEF Asking, At
<1>2. CASE Ticking
  <2>1. CASE LockWaiting \/ NothingDue \/ UnlockWaiting
    BY <2>1, ServedKept, Zenon DEF LockWaiting, NothingDue, UnlockWaiting
  <2>2. ASSUME NEW i \in Ids, NEW disconnect, Timeout(i, disconnect) PROVE Served'
    <3>1. requests[i].peer \in handler_peers /\ requests[i].peer \in Peers
      BY <2>2, Zenon DEF Timeout, TypeOK, Formed, FormedRequest
    <3>2. /\ requests[i].at = "sent" /\ requests'[i].at = "fail"
          /\ \A j \in Ids \ {i} : requests'[j] = requests[j]
      BY <1>0, <2>2, Parts, Zenon DEF TypeOK, Timeout
    <3>3. /\ requests[i].peer \in visits' \/ session'[requests[i].peer] # "up"
          /\ visits \subseteq visits'
          /\ \A p \in handler_peers : /\ session'[p] = "up" => session[p] = "up"
                                      /\ session'[p] = "down" => session[p] = "down"
      BY <2>2, <3>1, Zenon DEF Timeout, DisconnectPeer, TypeOK
    <3> QED BY <2>2, <3>2, <3>3, ServedKept, Zenon DEF Timeout
  <2>3. ASSUME NEW i \in Ids, OnRemoved(i) \/ Discard(i) PROVE Served'
    <3>1. /\ requests[i].at \in {"fail", "wait"} /\ requests'[i].at \in {"free", "call"}
          /\ \A j \in Ids \ {i} : requests'[j] = requests[j]
      BY <2>3 DEF TypeOK, OnRemoved, Discard, New, Free
    <3> QED BY <2>3, <3>1, ServedAnswered, Zenon DEF OnRemoved, Discard
  <2>4. ASSUME NEW i \in Ids, PopWaiting(i) PROVE Served'
    <3> DEFINE r == [requests[i] EXCEPT !.kind = Resend(requests[i].kind)]
    <3>1. r.at = requests[i].at BY <1>0, Parts DEF Requests, Free
    <3>2. requests[i].at = "wait" BY <2>4, <3>1, Zenon DEF PopWaiting
    <3>3. requests'[i].at \in {"wait", "batch"}
      BY <1>0, <2>4, <3>2, Parts, Zenon DEF TypeOK, PopWaiting
    <3>4. \A j \in Ids \ {i} : requests'[j] = requests[j] BY <2>4, Zenon DEF TypeOK, PopWaiting
    <3> QED BY <2>4, <3>2, <3>3, <3>4, ServedAnswered, Zenon DEF PopWaiting
  <2>5. ASSUME NEW i \in Ids, SendBatch(i) PROVE Served'
    <3> DEFINE p == requests[i].peer
    <3>1. /\ requests[i].at = "resend" /\ UNCHANGED <<session, handler_peers, stale, visits>>
          /\ \A j \in Ids \ {i} : requests'[j] = requests[j]
      BY <2>5, Zenon DEF SendBatch, TypeOK
    <3>2. CASE p \in handler_peers
      <4>1. requests' = [requests EXCEPT ![i] = [requests[i] EXCEPT !.at = PlaceAtPeer(p)]]
        BY <2>5, <3>2, Zenon DEF SendBatch
      <4>2. requests'[i].at = PlaceAtPeer(p) /\ requests'[i].peer = p
        BY <1>0, <3>1, <4>1, Parts, Zenon DEF TypeOK
      <4> QED BY <3>1, <4>2, ServedSent, Zenon
    <3>3. CASE p \notin handler_peers
      <4>1. requests'[i].at = "wait" BY <1>0, <2>5, <3>1, <3>3, Parts DEF SendBatch, TypeOK
      <4> QED BY <3>1, <4>1, ServedAnswered, Zenon
    <3> QED BY <3>2, <3>3, Zenon
  <2>6. ASSUME NEW batch \in SUBSET At("batch"), NEW i \in Ids, NEW delay, NEW p,
               GetBatchedRequests(batch, i, delay, p)
        PROVE  Served'
    <3>1. /\ i \in batch /\ \A k \in batch : k \in Ids /\ requests[k].at = "batch"
          /\ UNCHANGED <<session, handler_peers, stale, visits>>
      BY <2>6, Zenon DEF GetBatchedRequests, At
    <3>2. /\ \A k \in batch : requests'[k].at \in {"wait", "resend", "free"}
          /\ \A k \in Ids \ batch : requests'[k] = requests[k]
      BY <2>6, <3>1, Zenon DEF GetBatchedRequests, New, Free
    <3> QED BY <3>1, <3>2, ServedKept, Zenon
  <2> QED BY <1>2, <2>1, <2>2, <2>3, <2>4, <2>5, <2>6, Zenon DEF Ticking, At
<1>3. CASE Answering
  <2>1. ASSUME NEW i \in Ids,
               \/ \E headers, taken, recovering : HandleHeaders(i, headers, taken, recovering)
               \/ HandleBlockHashes(i)
               \/ \E items, taken : HandleBlockTxn(i, items, taken)
        PROVE  Served'
    <3>1. Answered(i) /\ UNCHANGED <<session, handler_peers, stale>>
      BY <2>1, Zenon DEF HandleHeaders, HandleBlockHashes, HandleBlockTxn
    <3>2. PICK items : ItemsReceived(i, requests[i].keys, items)
      BY <2>1, Zenon DEF HandleHeaders, HandleBlockHashes, HandleBlockTxn
    <3>3. /\ requests'[i].at \in {"free", "call"}
          /\ \A j \in Ids \ {i} : requests'[j] = requests[j]
      BY <3>2, Zenon DEF TypeOK, ItemsReceived, New, Free
    <3> QED BY <3>1, <3>3, ServedAnswered, Zenon DEF Answered
  <2>2. ASSUME NEW i \in Ids, NEW items, NEW taken, OnBlocksInner(i, items, taken)
        PROVE  Served'
    <3>1. /\ requests[i].at = "recover" /\ requests'[i].at \in {"free", "call"}
          /\ \A j \in Ids \ {i} : requests'[j] = requests[j]
      BY <2>2, Zenon DEF TypeOK, OnBlocksInner, ItemsReceived, New, Free
    <3> QED BY <2>2, <3>1, ServedAnswered, Zenon DEF OnBlocksInner
  <2>3. ASSUME NEW i \in Ids,
               \/ \E blocks : \/ HandleBlocks(i, blocks) \/ HandleCompactWithPublic(i, blocks)
                              \/ HandleBlocksWithPublic(i, blocks)
               \/ HandleUnexpectedResponse(i) \/ HandleCompactBlocks(i)
        PROVE  Served'
    <3>1. Answered(i) /\ UNCHANGED <<session, handler_peers, stale>>
      BY <2>3, Zenon DEF HandleBlocks, HandleCompactWithPublic, HandleBlocksWithPublic,
         HandleUnexpectedResponse, HandleCompactBlocks
    <3>2. requests[i].at = "sent" BY <3>1, Zenon DEF Answered
    <3>3. \A j \in Ids \ {i} : requests'[j] = requests[j]
      BY <2>3, Zenon DEF TypeOK, HandleBlocks, HandleCompactWithPublic, HandleBlocksWithPublic,
         HandleUnexpectedResponse, HandleCompactBlocks
    <3>4. requests'[i].at \in {"task", "again", "fail", "compact"}
      <4>0. ASSUME NEW blocks, HandleBlocks(i, blocks) PROVE requests'[i].at = "task"
        BY <1>0, <3>2, <4>0, Parts, Zenon DEF TypeOK, HandleBlocks
      <4>1. ASSUME NEW blocks, HandleBlocksWithPublic(i, blocks) PROVE requests'[i].at = "again"
        BY <1>0, <3>2, <4>1, Parts, Zenon DEF TypeOK, HandleBlocksWithPublic
      <4>2. ASSUME NEW blocks, HandleCompactWithPublic(i, blocks) PROVE requests'[i].at = "task"
        BY <4>2, TakenAsBlocks, Zenon
      <4>3. CASE HandleUnexpectedResponse(i)
        BY <1>0, <3>2, <4>3, Parts, Zenon DEF TypeOK, HandleUnexpectedResponse
      <4>4. CASE HandleCompactBlocks(i)
        BY <1>0, <3>2, <4>4, Parts, Zenon DEF TypeOK, HandleCompactBlocks
      <4> QED BY <2>3, <4>0, <4>1, <4>2, <4>3, <4>4, Zenon
    <3> QED BY <3>1, <3>3, <3>4, ServedAnswered, Zenon DEF Answered
  <2>4. ASSUME NEW i \in Ids, HandleBlockTxnUnrecoverable(i) \/ HandleTerminalBlockHashes(i)
        PROVE  Served'
    <3>1. Answered(i) /\ UNCHANGED <<session, handler_peers, stale>> /\ Drop({i})
      BY <2>4, Zenon DEF HandleBlockTxnUnrecoverable, HandleTerminalBlockHashes
    <3>2. /\ requests'[i].at = "free"
          /\ \A j \in Ids \ {i} : requests'[j] = requests[j]
      BY <3>1, Zenon DEF Drop, Free
    <3> QED BY <3>1, <3>2, ServedAnswered, Zenon DEF Answered
  <2>5. ASSUME NEW i \in Ids, PopTask(i) PROVE Served'
    <3>1. /\ requests[i].at = "task" /\ requests'[i].at = "recover"
          /\ \A j \in Ids \ {i} : requests'[j] = requests[j]
      BY <1>0, <2>5, Parts, Zenon DEF TypeOK, PopTask
    <3> QED BY <2>5, <3>1, ServedAnswered, Zenon DEF PopTask
  <2>6. ASSUME NEW i \in Ids, NEW j \in Ids, DispatchWithPublic(i, j) PROVE Served'
    <3>0. requests[j].at = "free" BY <2>6, FreeAt, Zenon DEF DispatchWithPublic
    <3>1. requests[i].at = "again" /\ i # j BY <2>6, <3>0 DEF DispatchWithPublic
    <3>2. /\ requests'[i].at \in {"task", "fail"} /\ requests'[j].at \in {"free", "park"}
          /\ \A k \in Ids \ {i, j} : requests'[k] = requests[k]
      BY <1>0, <2>6, <3>1, Parts, Zenon DEF TypeOK, DispatchWithPublic, New, Free
    <3> QED BY <2>6, <3>0, <3>1, <3>2, ServedKept, Zenon DEF DispatchWithPublic
  <2>7. ASSUME NEW i \in Ids, NEW j \in Ids, NEW block, RequestBlockTxn(i, block, j)
        PROVE  Served'
    <3>0. requests[j].at = "free" BY <2>7, FreeAt, Zenon DEF RequestBlockTxn
    <3>1. requests[i].at = "compact" /\ i # j BY <2>7, <3>0 DEF RequestBlockTxn
    <3>2. /\ requests'[i].at = "compact" /\ requests'[j].at = "send"
          /\ \A k \in Ids \ {i, j} : requests'[k] = requests[k]
      BY <1>0, <2>7, <3>1, Parts, Zenon DEF TypeOK, RequestBlockTxn, New
    <3> QED BY <2>7, <3>0, <3>1, <3>2, ServedKept, Zenon DEF RequestBlockTxn
  <2>8. ASSUME NEW i \in Ids, NEW j \in Ids, NEW good, NEW taken, NEW full,
               FinishCompactBlocks(i, good, taken, full, j)
        PROVE  Served'
    <3>0. requests[j].at = "free" BY <2>8, FreeAt, Zenon DEF FinishCompactBlocks
    <3>1. requests[i].at = "compact" /\ i # j BY <2>8, <3>0 DEF FinishCompactBlocks
    <3>2. /\ requests'[i].at \in {"free", "call"} /\ requests'[j].at \in {"free", "task"}
          /\ \A k \in Ids \ {i, j} : requests'[k] = requests[k]
      BY <2>8, <3>1, Zenon DEF TypeOK, FinishCompactBlocks, New, Free
    <3> QED BY <2>8, <3>0, <3>1, <3>2, ServedKept, Zenon DEF FinishCompactBlocks
  <2> QED
    BY <1>3, <2>1, <2>2, <2>3, <2>4, <2>5, <2>6, <2>7, <2>8, Zenon DEF Answering, At
<1>4. CASE Peering
  <2>1. ASSUME NEW p \in Peers, OnPeerConnected(p) PROVE Served'
    <3>1. /\ UNCHANGED <<requests, handler_peers, stale, visits>> /\ session[p] = "down"
          /\ session' = [session EXCEPT ![p] = "up"]
      BY <2>1, Zenon DEF OnPeerConnected
    <3>2. GoneIsStale' BY <3>1, Zenon DEF Served, GoneIsStale, TypeOK
    <3>3. \A q \in handler_peers : q # p => session'[q] = session[q]
      BY <3>1, Zenon DEF TypeOK
    <3>4. p \in handler_peers => p \in stale BY <3>1, Zenon DEF Served, GoneIsStale
    <3>5. PendingServed' BY <3>1, <3>3, <3>4 DEF Served, PendingServed, AtPeer, At
    <3> QED BY <3>2, <3>5, Zenon DEF Served
  <2>2. ASSUME NEW p \in Peers, OnStatusInHandshaking(p) \/ PeerConnected(p) PROVE Served'
    BY <2>2, ServedKept, Zenon DEF OnStatusInHandshaking, PeerConnected
  <2>3. ASSUME NEW p \in Peers, OnPeerDisconnected(p) PROVE Served'
    <3>1. \A q \in handler_peers : /\ session'[q] = "up" => session[q] = "up"
                                   /\ session'[q] = "down" => session[q] = "down"
      BY <2>3, Zenon DEF OnPeerDisconnected, DisconnectPeer, TypeOK
    <3> QED BY <2>3, <3>1, ServedKept, Zenon DEF OnPeerDisconnected
  <2>4. ASSUME NEW p \in Peers, AddPeer(p) PROVE Served'
    <3>1. /\ handler_peers' = handler_peers \cup {p} /\ UNCHANGED <<session, visits>>
          /\ stale' = IF session[p] = "down" THEN stale \cup {p} ELSE stale \ {p}
      BY <2>4, Zenon DEF AddPeer
    <3>2. GoneIsStale' BY <3>1, Zenon DEF Served, GoneIsStale
    <3>3. AtPeer("pending", p)' = {} BY <2>4, Zenon DEF AddPeer, Drop, AtPeer, At, Free
    <3>4. \A q : q # p => /\ AtPeer("pending", q)' = AtPeer("pending", q)
                          /\ AtPeer("sent", q)' = AtPeer("sent", q)
      BY <2>4, Zenon DEF AddPeer, Drop, AtPeer, At, Free
    <3>5. PendingServed' BY <3>1, <3>3, <3>4, Zenon DEF Served, PendingServed
    <3> QED BY <3>2, <3>5, Zenon DEF Served
  <2>5. ASSUME NEW p \in Peers, RemovePeer(p) PROVE Served'
    <3>1. /\ handler_peers' = handler_peers \ {p} /\ stale' = stale \ {p}
          /\ session' = [session EXCEPT ![p] = "down"] /\ UNCHANGED visits
      BY <2>5, Zenon DEF RemovePeer
    <3>2. \A q \in handler_peers' : session'[q] = session[q] /\ q # p
      BY <3>1, Zenon DEF TypeOK
    <3>3. GoneIsStale' BY <3>1, <3>2, Zenon DEF Served, GoneIsStale
    <3>4. \A i \in Ids : \/ requests'[i] = requests[i]
                         \/ requests[i].peer = p /\ requests'[i].at = "fail"
      <4> TAKE i \in Ids
      <4>1. CASE i \in AtPeer("sent", p) \cup AtPeer("pending", p)
        <5>1. requests[i].peer = p /\ requests[i].at # "free" BY <4>1, Zenon DEF AtPeer, At
        <5>2. requests'[i] = [requests[i] EXCEPT !.at = "fail"] BY <2>5, <4>1, Zenon DEF RemovePeer
        <5> QED BY <1>0, <5>1, <5>2, Parts, Zenon
      <4>2. CASE i \notin AtPeer("sent", p) \cup AtPeer("pending", p)
        BY <2>5, <4>2, Zenon DEF RemovePeer
      <4> QED BY <4>1, <4>2, Zenon
    <3>5. \A q : q # p => /\ AtPeer("pending", q)' \subseteq AtPeer("pending", q)
                          /\ AtPeer("sent", q) \subseteq AtPeer("sent", q)'
      BY <3>4, Zenon DEF AtPeer, At
    <3>6. PendingServed' BY <3>1, <3>2, <3>5, Zenon DEF Served, PendingServed
    <3> QED BY <3>3, <3>6, Zenon DEF Served
  <2> QED BY <1>4, <2>1, <2>2, <2>3, <2>4, <2>5, ServedPending, Zenon DEF Peering
<1>5. ASSUME NEW key, ReceivedElsewhere(key) PROVE Served'
  BY <1>5, ServedKept, Zenon DEF ReceivedElsewhere
<1>6. ASSUME NEW key, NEW taken, HandleHeaderFromDb(key, taken) PROVE Served'
  BY <1>6, ServedKept, Zenon DEF HandleHeaderFromDb
<1>7. CASE UNCHANGED vars BY <1>7, ServedKept, Zenon DEF vars
<1> QED BY <1>1, <1>2, <1>3, <1>4, <1>5, <1>6, <1>7, Zenon DEF Next
-----------------------------------------------------------------------------
(***************************************************************************)
(* What becomes of the keys a step removes.                                 *)
(***************************************************************************)

\* The keys that a step removes from inflight_keys, and their future.
KeysAccounted ==
  \A key \in inflight_keys \ inflight_keys' :
    \/ key \in received' \cup refused'
    \/ \E i \in Ids : requests'[i].at \in {"call", "again"} /\ key \in requests'[i].keys
    \/ \E i \in Ids : Discard(i)

\* headers_received, epochs_received and blocks_received ask again for every key
\* they remove and got no item for.
LEMMA ReceivedAccounted ==
  ASSUME TypeOK, NEW r \in Ids, NEW requested, NEW items,
         ItemsReceived(r, requested, items), items \subseteq received' \cup refused'
  PROVE  KeysAccounted
<1> DEFINE missing == (requested \ items) \cap inflight_keys
<1>1. \A key \in inflight_keys \ inflight_keys' : key \in items \/ key \in missing
  BY Zenon DEF ItemsReceived, TakeOut
<1>2. missing # {} => requests'[r].at = "call" /\ requests'[r].keys = missing
  BY Zenon DEF ItemsReceived, TypeOK, New
<1> QED BY <1>1, <1>2, Zenon DEF KeysAccounted

\* Every step accounts for the keys it removes.
LEMMA AccountedNext ==
  ASSUME TypeOK, [Next]_vars
  PROVE  KeysAccounted
<1> USE DEF keys_vars
<1>0. \A i \in Ids : requests[i] \in Requests BY Zenon DEF TypeOK
<1>1. CASE inflight_keys \subseteq inflight_keys' BY <1>1, Zenon DEF KeysAccounted
<1>2. CASE Asking
  BY <1>1, <1>2, ZenonT(30) DEF Asking, At, RequestItems, WithInflight, CheckAndUpdateNetInflightBlocks,
     SendRequest, RemoveNetInflightBlocks, PushWaiting
<1>3. CASE Ticking
  <2>1. ASSUME NEW i \in Ids, OnRemoved(i) PROVE KeysAccounted
    <3>1. requests'[i].at = "call" /\ requests'[i].keys = requests[i].keys
      BY <2>1, Zenon DEF OnRemoved, TypeOK, New
    <3> QED BY <2>1, <3>1, Zenon DEF OnRemoved, TakeOut, KeysAccounted
  <2>2. ASSUME NEW i \in Ids, Discard(i) PROVE KeysAccounted
    BY <2>2, Zenon DEF KeysAccounted
  <2>3. ASSUME NEW i \in Ids,
               \/ \E disconnect : Timeout(i, disconnect)
               \/ PopWaiting(i) \/ SendBatch(i)
               \/ \E batch, delay, p : GetBatchedRequests(batch, i, delay, p)
        PROVE  KeysAccounted
    BY <1>1, <2>3, Zenon DEF Timeout, PopWaiting, SendBatch, GetBatchedRequests
  <2>4. CASE LockWaiting \/ NothingDue \/ UnlockWaiting
    BY <1>1, <2>4, Zenon DEF LockWaiting, NothingDue, UnlockWaiting
  <2> QED BY <1>3, <2>1, <2>2, <2>3, <2>4, Zenon DEF Ticking, At
<1>4. CASE Answering
  <2>1. ASSUME NEW items, NEW taken, InsertItems(items, taken)
        PROVE  items \subseteq received' \cup refused'
    BY <2>1, Zenon DEF InsertItems
  <2>2. ASSUME NEW i \in Ids,
               \/ \E headers, taken, recovering : HandleHeaders(i, headers, taken, recovering)
               \/ HandleBlockHashes(i)
               \/ \E items, taken : HandleBlockTxn(i, items, taken) \/ OnBlocksInner(i, items, taken)
        PROVE  KeysAccounted
    <3>1. \E items, taken : ItemsReceived(i, requests[i].keys, items) /\ InsertItems(items, taken)
      BY <2>2, Zenon DEF HandleHeaders, HandleBlockHashes, HandleBlockTxn, OnBlocksInner
    <3> QED BY <2>1, <3>1, ReceivedAccounted, Zenon
  <2>3. ASSUME NEW i \in Ids, NEW blocks, HandleBlocksWithPublic(i, blocks)
        PROVE  KeysAccounted
    <3>1. requests'[i].at = "again" /\ requests'[i].keys = requests[i].keys
      BY <1>0, <2>3, Parts, ZenonT(30) DEF HandleBlocksWithPublic, Answered, TypeOK
    <3> QED BY <2>3, <3>1, Zenon DEF HandleBlocksWithPublic, TakeOut, KeysAccounted
  <2>4. ASSUME NEW i \in Ids, NEW j \in Ids, NEW good, NEW taken, NEW full,
               FinishCompactBlocks(i, good, taken, full, j)
        PROVE  KeysAccounted
    <3> DEFINE missing == ((requests[i].keys \ full) \ good) \cap inflight_keys
    <3>0. requests[j].at = "free" BY <2>4, FreeAt, Zenon DEF FinishCompactBlocks
    <3>1. i # j BY <2>4, <3>0 DEF FinishCompactBlocks
    <3>2. \A key \in inflight_keys \ inflight_keys' : key \in good \cup missing
      BY <2>4, Zenon DEF FinishCompactBlocks, TakeOut
    <3>3. missing # {} => requests'[i].at = "call" /\ requests'[i].keys = missing
      BY <2>4, <3>1, Zenon DEF FinishCompactBlocks, TypeOK, New
    <3>4. good \subseteq received' \cup refused' BY <2>1, <2>4, Zenon DEF FinishCompactBlocks
    <3> QED BY <3>2, <3>3, <3>4, Zenon DEF KeysAccounted
  <2>5. ASSUME NEW i \in Ids,
               \/ \E blocks : HandleBlocks(i, blocks) \/ HandleCompactWithPublic(i, blocks)
               \/ HandleBlockTxnUnrecoverable(i) \/ HandleTerminalBlockHashes(i)
               \/ HandleUnexpectedResponse(i) \/ HandleCompactBlocks(i) \/ PopTask(i)
               \/ \E j : DispatchWithPublic(i, j) \/ \E block : RequestBlockTxn(i, block, j)
        PROVE  KeysAccounted
    BY <1>1, <2>5, Zenon DEF HandleBlocks, HandleCompactWithPublic, HandleBlockTxnUnrecoverable,
       HandleTerminalBlockHashes, HandleUnexpectedResponse, HandleCompactBlocks, PopTask,
       DispatchWithPublic, RequestBlockTxn
  <2> QED BY <1>4, <2>2, <2>3, <2>4, <2>5, Zenon DEF Answering, At
<1>5. CASE Peering
  BY <1>1, <1>5, Zenon DEF Peering, OnPeerConnected, OnStatusInHandshaking, PeerConnected,
     AddPeer, OnPeerDisconnected, RemovePeer, SendPendingRequests
<1>6. CASE \E key \in Blocks \cup Headers : ReceivedElsewhere(key)
  BY <1>1, <1>6, Zenon DEF ReceivedElsewhere
<1>7. ASSUME NEW key, NEW taken, HandleHeaderFromDb(key, taken) PROVE KeysAccounted
  BY <1>7, Zenon DEF HandleHeaderFromDb, InsertItems, TakeOut, KeysAccounted
<1>8. CASE UNCHANGED vars BY <1>1, <1>8, Zenon DEF vars
<1> QED BY <1>2, <1>3, <1>4, <1>5, <1>6, <1>7, <1>8, Zenon DEF Next
-----------------------------------------------------------------------------
(***************************************************************************)
(* The theorems.                                                            *)
(***************************************************************************)

\* The node starts without requests.
LEMMA RequestInit ==
  ASSUME Init
  PROVE  RequestInvariant
<1>1. \A i \in Ids : requests[i] = Free BY Zenon DEF Init
<1>2. TypeOK BY FreeFormed, Zenon DEF Init, TypeOK
<1>3. Formed BY <1>1, FreeFormed, Zenon DEF Formed
<1>4. Holders = {} BY <1>1 DEF Holders, Free
<1>5. NoOrphans /\ OneHolder /\ NetWithinInflight /\ LostStay
  BY <1>4, Zenon DEF Init, NoOrphans, OneHolder, NetWithinInflight, LostStay
<1>6. PendingServed /\ GoneIsStale BY Zenon DEF Init, PendingServed, GoneIsStale
<1> QED BY <1>2, <1>3, <1>5, <1>6, Zenon DEF RequestInvariant

\* Every step keeps the invariant.
LEMMA RequestNext ==
  ASSUME RequestInvariant, [Next]_vars
  PROVE  RequestInvariant'
<1>1. TypeOK /\ Formed /\ KeyInv /\ Served BY Zenon DEF RequestInvariant, KeyInv, Served
<1>2. RequestsFormed' BY <1>1, FormedNext, Zenon
<1>3. KeysTyped' BY <1>1, KeysTypedNext, Zenon
<1>4. PeersTyped' BY <1>1, PeersTypedNext, Zenon
<1>5. TypeOK' BY <1>2, <1>3, <1>4, Zenon DEF RequestsFormed, KeysTyped, PeersTyped, TypeOK
<1>6. KeyInv' BY <1>1, KeysNext, Zenon
<1>7. Served' BY <1>1, ServedNext, Zenon
<1> QED BY <1>2, <1>5, <1>6, <1>7, Zenon DEF RequestInvariant, RequestsFormed, KeyInv, Served

\* The invariant of the request manager holds of every behaviour of its threads
\* and peers: request_with_delay, the resends, the handlers of responses and
\* the callbacks of the network, in any interleaving.
THEOREM RequestInvariantHolds == Spec => []RequestInvariant
<1>1. Init => RequestInvariant BY RequestInit, Zenon
<1>2. RequestInvariant /\ [Next]_vars => RequestInvariant' BY RequestNext, Zenon
<1> QED BY <1>1, <1>2, PTL DEF Spec

\* A key in flight is never forgotten (request_manager/mod.rs, inflight_keys),
\* but for those of the three steps that drop a request: GetBlockTxnResponse with
\* transactions that cannot be recovered, GetTerminalBlockHashesResponse, and
\* add_peer over the container of an earlier session.
THEOREM NoOrphansHolds == Spec => []NoOrphans
<1>1. RequestInvariant => NoOrphans BY Zenon DEF RequestInvariant
<1> QED BY <1>1, RequestInvariantHolds, PTL

\* No item is asked for by two requests at a time (Request::with_inflight), and
\* what one asks for is in flight, but for the keys of answers nobody asked the
\* peer for, of the database, and of the resend of GetBlocksWithPublicResponse.
THEOREM OneHolderHolds == Spec => []OneHolder
<1>1. RequestInvariant => OneHolder BY Zenon DEF RequestInvariant
<1> QED BY <1>1, RequestInvariantHolds, PTL

\* No block that is not in flight takes room under NET_INFLIGHT_BLOCKS
\* (check_and_update_net_inflight_blocks), but for one whose key such an answer
\* has taken from under its request.
THEOREM NetWithinInflightHolds == Spec => []NetWithinInflight
<1>1. RequestInvariant => NetWithinInflight BY Zenon DEF RequestInvariant
<1> QED BY <1>1, RequestInvariantHolds, PTL

\* The pending requests of a connected peer have someone to send them
\* (RequestContainer::send_pending_requests).
THEOREM PendingServedHolds == Spec => []PendingServed
<1>1. RequestInvariant => PendingServed BY Zenon DEF RequestInvariant
<1> QED BY <1>1, RequestInvariantHolds, PTL

\* Who removes a key from inflight_keys has its item or asks for it again
\* (headers_received, epochs_received, blocks_received, on_removed).
THEOREM RemoverAsksAgainHolds == Spec => RemoverAsksAgain
<1>1. RequestInvariant => TypeOK BY Zenon DEF RequestInvariant
<1>2. TypeOK /\ [Next]_vars => [KeysAccounted]_vars BY AccountedNext, Zenon
<1>3. [KeysAccounted]_vars =>
        [\A key \in inflight_keys \ inflight_keys' :
           \/ key \in received' \cup refused'
           \/ \E i \in Ids : requests'[i].at \in {"call", "again"} /\ key \in requests'[i].keys
           \/ \E i \in Ids : Discard(i)]_vars
  BY Zenon DEF KeysAccounted
<1> QED BY <1>1, <1>2, <1>3, RequestInvariantHolds, PTL DEF Spec, RemoverAsksAgain
=============================================================================
