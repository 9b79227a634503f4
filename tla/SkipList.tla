------------------------------ MODULE SkipList ------------------------------
\* The memtable (memtable.cpp) on its skip list (skiplist.h): one writer links
\* a node level by level while readers, who take no lock, follow the links. A
\* load or a store of a link is one step. The release store of a link and the
\* acquire load that reads it make what the writer did before visible, so that
\* a reader runs behind the writer in the writer's order. max_height_ is loaded
\* with no barrier: a reader may get any earlier value.
\* A node is numbered by the sequence number of its entry; 0 is head_.
EXTENDS Naturals

CONSTANTS
    NULL,
    Wild,               \* what memory from the arena holds before it is written
    Keys,               \* user keys
    MaxNodes,           \* bound: insertions
    MaxHeight,          \* kMaxHeight
    Readers

ASSUME HeightAssumption == MaxNodes \in Nat /\ MaxHeight \in Nat \ {0}
ASSUME KeysAssumption == Keys \subseteq Nat
ASSUME PointerAssumption ==
    NULL \notin 0..MaxNodes /\ Wild \notin 0..MaxNodes /\ NULL # Wild

VARIABLES
    node,               \* the entry and the height of a node, or NULL
    next,               \* next_ of every node, by level
    maxHeight,          \* max_height_
    lastSequence,       \* what the writer has published after Insert
    writer,             \* where Insert is
    reader              \* where each reader is

svars == <<node, next, maxHeight, lastSequence, writer, reader>>

Nodes == 1..MaxNodes
Levels == 0..(MaxHeight - 1)
Heads == 0
Types == {"value", "deletion"}

\* The comparator of the memtable, on internal keys.
Lower(a, b) == a.u < b.u \/ (a.u = b.u /\ a.s > b.s)
KeyOf(n) == [u |-> node[n].u, s |-> n]

FaultKeyIsAfterNode(key, n) == n # NULL /\ ~Lower(key, KeyOf(n))

KeyIsAfterNode(key, n) == n # NULL /\ Lower(KeyOf(n), key)

Idle == [pc |-> "idle"]

SInit ==
    /\ node = [n \in Nodes |-> NULL]
    /\ next = [n \in 0..MaxNodes |-> [l \in Levels |-> IF n = Heads THEN NULL ELSE Wild]]
    /\ maxHeight = 1
    /\ lastSequence = 0
    /\ writer = Idle
    /\ reader = [r \in Readers |-> Idle]

-----------------------------------------------------------------------------
\* Insert, by the one writer, who holds the front of the write queue.

\* prev[l] as FindGreaterOrEqual leaves it: the writer sees its own list, in
\* which every node is linked.
Tall(l) == {n \in 1..lastSequence : node[n].height > l}
IsPrev(p, key, l) ==
    /\ p = Heads \/ (p \in Tall(l) /\ Lower(KeyOf(p), key))
    /\ \A n \in Tall(l) :
        Lower(KeyOf(n), key) => p # Heads /\ ~Lower(KeyOf(p), KeyOf(n))

\* The search, RandomHeight, the new max_height_ and NewNode.
InsertStart(u, t, h) ==
    /\ writer = Idle
    /\ lastSequence < MaxNodes
    /\ LET x == lastSequence + 1
       IN  /\ node' = [node EXCEPT ![x] = [u |-> u, t |-> t, height |-> h]]
           /\ \E prev \in [0..(h - 1) -> Heads..lastSequence] :
                /\ \A l \in 0..(h - 1) : IsPrev(prev[l], [u |-> u, s |-> x], l)
                /\ writer' = [pc |-> "own", x |-> x, level |-> 0, prev |-> prev]
    /\ maxHeight' = IF h > maxHeight THEN h ELSE maxHeight
    /\ UNCHANGED <<next, lastSequence, reader>>

FaultSetOwn ==
    /\ writer.pc = "own"
    /\ writer' = [writer EXCEPT !.pc = "publish"]
    /\ UNCHANGED <<node, next, maxHeight, lastSequence, reader>>

\* x->NoBarrier_SetNext(i, prev[i]->NoBarrier_Next(i))
SetOwn ==
    /\ writer.pc = "own"
    /\ LET l == writer.level
       IN  next' = [next EXCEPT ![writer.x][l] = next[writer.prev[l]][l]]
    /\ writer' = [writer EXCEPT !.pc = "publish"]
    /\ UNCHANGED <<node, maxHeight, lastSequence, reader>>

\* prev[i]->SetNext(i, x)
Publish ==
    /\ writer.pc = "publish"
    /\ LET l == writer.level
       IN  /\ next' = [next EXCEPT ![writer.prev[l]][l] = writer.x]
           /\ writer' = IF l + 1 < node[writer.x].height
                        THEN [writer EXCEPT !.pc = "own", !.level = l + 1]
                        ELSE [writer EXCEPT !.pc = "linked"]
    /\ UNCHANGED <<node, maxHeight, lastSequence, reader>>

\* The writer sets the last sequence number under the mutex.
InsertDone ==
    /\ writer.pc = "linked"
    /\ lastSequence' = writer.x
    /\ writer' = Idle
    /\ UNCHANGED <<node, next, maxHeight, reader>>

-----------------------------------------------------------------------------
\* Readers. A call takes the last sequence number under the mutex, then the
\* height, and loads one link at a time. "seek" is FindGreaterOrEqual, "get"
\* MemTable::Get with it, "less" FindLessThan, which Prev calls, "last"
\* FindLast, "next" the one load of Next and SeekToFirst.

Call(r, op, from, key, level) ==
    reader' = [reader EXCEPT ![r] =
        [pc |-> "search", op |-> op, from |-> from, key |-> key, snap |-> lastSequence,
         x |-> from, level |-> level, result |-> NULL]]

Search(r, op, u) ==
    /\ reader[r] = Idle
    /\ \E h \in 1..maxHeight : Call(r, op, Heads, [u |-> u, s |-> lastSequence], h - 1)
    /\ UNCHANGED <<node, next, maxHeight, lastSequence, writer>>

\* An iterator stands on a node: no node ever leaves the list.
CallPrev(r, n) ==
    /\ reader[r] = Idle
    /\ \E h \in 1..maxHeight : Call(r, "less", Heads, KeyOf(n), h - 1)
    /\ UNCHANGED <<node, next, maxHeight, lastSequence, writer>>

CallNext(r, n) ==
    /\ reader[r] = Idle
    /\ Call(r, "next", n, NULL, 0)
    /\ UNCHANGED <<node, next, maxHeight, lastSequence, writer>>

\* The test that lets the search go on along the level.
GoesOn(q, n) ==
    CASE q.op \in {"seek", "get"} -> KeyIsAfterNode(q.key, n)
      [] q.op = "less"            -> n # NULL /\ Lower(KeyOf(n), q.key)
      [] q.op = "last"            -> n # NULL
      [] q.op = "next"            -> FALSE

Load(r) ==
    /\ reader[r].pc = "search"
    /\ LET q == reader[r]
           n == next[q.x][q.level]
           end == IF q.op \in {"less", "last"} THEN q.x ELSE n
       IN  reader' = [reader EXCEPT ![r] =
               IF n = Wild THEN [q EXCEPT !.pc = "wild"]
               ELSE IF GoesOn(q, n) THEN [q EXCEPT !.x = n]
               ELSE IF q.level > 0 THEN [q EXCEPT !.level = @ - 1]
               ELSE [q EXCEPT !.pc = "done", !.result = end]]
    /\ UNCHANGED <<node, next, maxHeight, lastSequence, writer>>

\* MemTable::Get on the node found: the user key must be the same.
GetOf(q) ==
    IF q.result # NULL /\ node[q.result].u = q.key.u
    THEN [found |-> TRUE, s |-> IF node[q.result].t = "value" THEN q.result ELSE NULL]
    ELSE [found |-> FALSE, s |-> NULL]

Return(r) ==
    /\ reader[r].pc = "done"
    /\ reader' = [reader EXCEPT ![r] = Idle]
    /\ UNCHANGED <<node, next, maxHeight, lastSequence, writer>>

SNext ==
    \/ \E u \in Keys, t \in Types, h \in 1..MaxHeight : InsertStart(u, t, h)
    \/ SetOwn
    \/ Publish
    \/ InsertDone
    \/ \E r \in Readers :
        \/ \E u \in Keys, op \in {"seek", "get", "last"} : Search(r, op, u)
        \/ \E n \in 1..lastSequence : CallPrev(r, n)
        \/ \E n \in Heads..lastSequence : CallNext(r, n)
        \/ Load(r)
        \/ Return(r)

SSpec == SInit /\ [][SNext]_svars

-----------------------------------------------------------------------------
\* A reader never follows a link that was not written, although it may come to
\* a node through any level while the writer is linking it.
NeverWild == \A r \in Readers : reader[r].pc # "wild"

\* What the answer q.result of a search must be, given the entries 1..q.snap
\* that were in the list when it began.
Exact(q) ==
    LET Old == 1..q.snap
        After(k) == {n \in Old : ~Lower(KeyOf(n), k)}
        Newest == {n \in Old : node[n].u = q.key.u /\
                               \A m \in Old : node[m].u = q.key.u => m <= n}
        Ahead == {n \in Old : q.from = Heads \/ Lower(KeyOf(q.from), KeyOf(n))}
    IN  CASE q.op = "seek" ->
                IF q.result = NULL THEN After(q.key) = {}
                ELSE /\ ~Lower(KeyOf(q.result), q.key)
                     /\ \A n \in After(q.key) : ~Lower(KeyOf(n), KeyOf(q.result))
          [] q.op = "get" ->
                IF Newest = {} THEN ~GetOf(q).found
                ELSE \A n \in Newest : GetOf(q) = [found |-> TRUE,
                         s |-> IF node[n].t = "value" THEN n ELSE NULL]
          [] q.op = "less" ->
                /\ q.result # Heads => Lower(KeyOf(q.result), q.key)
                /\ \A n \in Old : Lower(KeyOf(n), q.key) =>
                       q.result # Heads /\ ~Lower(KeyOf(q.result), KeyOf(n))
          [] q.op = "last" ->
                \A n \in Old : q.result # Heads /\ ~Lower(KeyOf(q.result), KeyOf(n))
          [] q.op = "next" ->
                IF q.result = NULL THEN Ahead = {}
                ELSE /\ q.from # Heads => Lower(KeyOf(q.from), KeyOf(q.result))
                     /\ \A n \in Ahead : ~Lower(KeyOf(n), KeyOf(q.result))

\* A search that ran beside insertions misses no entry that was in the list
\* when it began: the snapshot's entries are found exactly, and what it finds
\* besides is an entry in the right place.
SearchesExact == \A r \in Readers : reader[r].pc = "done" => Exact(reader[r])
=============================================================================
