------------------------------ MODULE MCDBImpl ------------------------------
(* TLC instances of DBImpl: writers and readers are interchangeable. *)
EXTENDS DBImpl, TLC

Symmetry == Permutations(Writer) \cup Permutations(Reader)
=============================================================================
