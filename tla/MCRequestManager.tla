--------------------------- MODULE MCRequestManager ---------------------------
(* Finite instances of RequestManager for TLC.                             *)
EXTENDS RequestManager, TLC

Symmetry == Permutations(Ids) \cup Permutations(Blocks) \cup Permutations(Headers)

(* States that differ in `refused' alone are one: no action reads it, and    *)
(* RemoverAsksAgain reads it only in the step that sets it.                  *)
View == <<requests, keys_vars, peer_vars, duties, waiting_lock, received, doubled, lost>>
=============================================================================
