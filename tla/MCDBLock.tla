----------------------------- MODULE MCDBLock -----------------------------
(* TLC instances of DBLock. *)
EXTENDS DBLock
CONSTANTS i1, i2, i3, p1, p2, p3, a, ab

OneDB       == {a}
OneDBOf     == [i \in Instance |-> a]
OneChild    == [d \in Database |-> {d}]
AnyMode     == [i \in Instance |-> {"rw", "ro"}]
ReadWrite   == [i \in Instance |-> {"rw"}]
\* Two instances share the first process.
SharedProc  == [i \in Instance |-> IF i = i3 THEN p2 ELSE p1]
\* Each instance has a process of its own.
OwnProc     == [i \in Instance |-> CASE i = i1 -> p1 [] i = i2 -> p2 [] OTHER -> p3]
\* The name of database ab begins with the name of database a.
PrefixDBs   == {a, ab}
PrefixDBOf  == [i \in Instance |-> IF i = i1 THEN a ELSE ab]
PrefixMode  == [i \in Instance |-> IF i = i1 THEN {"ro"} ELSE {"rw"}]
PrefixChild == [d \in Database |-> IF d = a THEN {a, ab} ELSE {ab}]
=============================================================================
