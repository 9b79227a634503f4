---------------------------- MODULE MCLRUCache ----------------------------
(* TLC instance of LRUCache: two of the keys share every bucket. *)
EXTENDS LRUCache
CONSTANTS k1, k2, k3
Hashes == [k \in Key |-> CASE k = k1 -> 1 [] k = k2 -> 5 [] OTHER -> 2]
=============================================================================
