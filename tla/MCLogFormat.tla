---------------------------- MODULE MCLogFormat ----------------------------
(* TLC instances of LogFormat. *)
EXTENDS LogFormat
\* The start, the trailer of the first block, the inside of the second block.
SomeOffsets == {0, 4, 6}
OnlyZero    == {0}
=============================================================================
