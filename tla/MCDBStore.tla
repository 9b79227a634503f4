----------------------------- MODULE MCDBStore -----------------------------
(* TLC instances of DBStore. *)
EXTENDS DBStore
=============================================================================
