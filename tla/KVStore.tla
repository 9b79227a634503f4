------------------------------ MODULE KVStore ------------------------------
(***************************************************************************)
(* What a database promises its callers, without tables, levels, logs or   *)
(* compactions (include/leveldb/db.h): every key has the value of the last *)
(* write to it, a snapshot keeps what all keys had when it was taken, and  *)
(* nothing but a write changes what a reader sees.                         *)
(***************************************************************************)
EXTENDS Naturals

CONSTANTS
    Key,    \* user keys
    None    \* the value of a key that is not there

VARIABLES
    now,    \* the value of every key; a value is the number of its write
    seq,    \* writes so far
    taken   \* by snapshot number, the values it keeps

kvvars == <<now, seq, taken>>

Init ==
    /\ now = [k \in Key |-> None]
    /\ seq = 0
    /\ taken = <<>>

\* Put or Delete.
Write ==
    /\ seq' = seq + 1
    /\ \E k \in Key : /\ now'[k] \in {seq', None}
                      /\ \A j \in Key \ {k} : now'[j] = now[j]
    /\ taken' = taken

\* GetSnapshot
Take ==
    /\ DOMAIN taken' = DOMAIN taken \cup {seq}
    /\ taken'[seq] = now
    /\ \A s \in DOMAIN taken \ {seq} : taken'[s] = taken[s]
    /\ UNCHANGED <<now, seq>>

\* ReleaseSnapshot, and every snapshot when the database is closed.
Drop ==
    /\ DOMAIN taken' \subseteq DOMAIN taken
    /\ \A s \in DOMAIN taken' : taken'[s] = taken[s]
    /\ UNCHANGED <<now, seq>>

Next == Write \/ Take \/ Drop

Spec == Init /\ [][Next]_kvvars
=============================================================================
