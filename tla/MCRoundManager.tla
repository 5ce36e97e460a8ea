--------------------------- MODULE MCRoundManager ---------------------------
(* Finite instances of RoundManager.                                       *)
EXTENDS RoundManager, TLC

CONSTANTS n1, n2, p2, p3

\* One node and two peers, one of them with half of the votes.
OneNodeVotes == n1 :> {1} @@ p2 :> {2} @@ p3 :> {3, 4}

BothVrf == n1 :> 2 @@ p2 :> 1

\* Two nodes that need each other.
TwoNodeVotes == n1 :> {1} @@ n2 :> {2}

\* Two nodes, of which one needs the other or the peer.
UnevenVotes == n1 :> {1, 2} @@ n2 :> {3} @@ p2 :> {4}

FirstVrf == n1 :> 1

NoVrf == <<>>

=============================================================================
