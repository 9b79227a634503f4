---------------------------- MODULE MCVersionSet ----------------------------
\* Two user keys in three levels, each of which a memtable can reach.  Snapshots
\* and restarts are explored apart (a restart ends every snapshot), and so are
\* chains of three overlapping tables in level 0: they take four writes, and
\* restarts, which put every memtable into level 0.
EXTENDS VersionSet

VARIABLE part

Bytes == <<3>>
TopAndNext == {<<0, 1, 2>>, <<1, 1, 1>>}

MCInit == Init /\ part \in {"snapshots", "restart", "chain"}

\* In the part "chain" nothing is deleted and no memtable is flushed.
Chain ==
    /\ \A e \in mem' : e[3] = "value"
    /\ opened' = opened => imm \subseteq imm'

MCNext ==
    /\ Next /\ part' = part
    /\ part # "snapshots" => snaps' = {}
    /\ part = "snapshots" => opened' = 0
    /\ part # "chain" => lastSeq' < MaxSeq
    /\ part = "chain" => Chain

Spec == MCInit /\ [][MCNext]_<<vvars, part>>
=============================================================================
