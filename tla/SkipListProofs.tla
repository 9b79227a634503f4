--------------------------- MODULE SkipListProofs ---------------------------
\* Proofs about SkipList, for any keys, any heights, any number of insertions
\* and any number of readers: no reader follows a link that was not written,
\* and every search finds the entries that were in the list when it began.
EXTENDS SkipList, TLAPS

-----------------------------------------------------------------------------
\* The inductive invariant.

Entry == [u : Keys, t : Types, height : 1..MaxHeight]
InternalKey == [u : Keys, s : 0..MaxNodes]
Ops == {"seek", "get", "less", "last", "next"}
ReaderCall == [pc : {"search", "done"}, op : Ops, from : 0..MaxNodes,
               key : InternalKey \cup {NULL}, snap : 0..MaxNodes, x : 0..MaxNodes,
               level : Levels, result : 0..MaxNodes \cup {NULL}]

\* The nodes that NewNode has made; the last one may still be being linked.
Born == 1..(IF writer.pc = "idle" THEN lastSequence ELSE lastSequence + 1)

\* Node n may be entered at level l: all it offers below is written.
Ready(n, l) == \A k \in 0..l : next[n][k] # Wild

Before(a, n) == a = Heads \/ Lower(KeyOf(a), KeyOf(n))

SkipTypeOK ==
    /\ node \in [Nodes -> Entry \cup {NULL}]
    /\ next \in [0..MaxNodes -> [Levels -> Nodes \cup {NULL, Wild}]]
    /\ maxHeight \in 1..MaxHeight
    /\ lastSequence \in 0..MaxNodes
    /\ reader \in [Readers -> ReaderCall \cup {Idle}]
    /\ \A n \in Born : n \in Nodes /\ node[n] \in Entry

\* The levels on which the writer has linked its node.
Linked(l) == IF writer.pc = "linked" THEN l <= writer.level ELSE l < writer.level

WriterOK ==
    LET x == writer.x
        h == node[x].height
    IN  /\ writer.pc \in {"own", "publish", "linked"}
        /\ writer = [pc |-> writer.pc, x |-> x, level |-> writer.level, prev |-> writer.prev]
        /\ x = lastSequence + 1
        /\ writer.level \in 0..(h - 1)
        /\ writer.prev \in [0..(h - 1) -> 0..lastSequence]
        /\ \A l \in 0..(h - 1) : IsPrev(writer.prev[l], KeyOf(x), l)
        /\ \A l \in 0..(h - 1) : Linked(l) =>
                next[x][l] # Wild /\ next[writer.prev[l]][l] = x
        /\ writer.pc = "publish" => next[x][writer.level] # Wild
        /\ writer.pc = "linked" => writer.level = h - 1

WriterInv == writer = Idle \/ WriterOK

\* A link leads forward to a node that may be entered.
LinkOK(n, l) ==
    \A b \in Nodes : b = next[n][l] =>
        /\ b \in Born /\ node[b].height > l
        /\ Ready(b, l)
        /\ Before(n, b)
        /\ b = lastSequence + 1 => Linked(l)

\* No finished entry lies between a node and the next one on level 0.
Gapless(n) ==
    next[n][0] # Wild =>
        \A m \in 1..lastSequence : Before(n, m) =>
            next[n][0] # NULL /\ ~Lower(KeyOf(m), KeyOf(next[n][0]))

ListInv ==
    /\ \A l \in Levels : next[Heads][l] # Wild
    /\ \A n \in Nodes \ Born, l \in Levels : next[n][l] = Wild
    /\ \A n \in 1..lastSequence : Ready(n, node[n].height - 1)
    /\ \A n \in 0..MaxNodes, l \in Levels : LinkOK(n, l)
    /\ \A n \in 0..MaxNodes : Gapless(n)

ReaderOK(q) ==
    /\ q.snap <= lastSequence
    /\ q.from \in 0..q.snap
    /\ q.x \in {Heads} \cup Born
    /\ q.op # "next" => q.key \in InternalKey
    /\ q.op = "get" => q.key.s = q.snap
    /\ q.op \in {"seek", "get", "less"} => q.x = Heads \/ Lower(KeyOf(q.x), q.key)
    /\ q.op = "next" => q.x = q.from /\ q.level = 0
    /\ q.pc = "search" => Ready(q.x, q.level)
    /\ q.pc = "done" =>
        /\ q.result \in (IF q.op \in {"less", "last"} THEN {Heads} ELSE {NULL}) \cup Born
        /\ Exact(q)

ReaderInv == \A r \in Readers : \A q \in {reader[r]} : q = Idle \/ ReaderOK(q)

SInv == SkipTypeOK /\ WriterInv /\ ListInv /\ ReaderInv

USE HeightAssumption, KeysAssumption, PointerAssumption

-----------------------------------------------------------------------------
\* An answer stays exact while entries are only added.
LEMMA ExactFrame ==
    ASSUME NEW q \in ReaderCall, NEW S, \A n \in S : node'[n] = node[n],
           1..q.snap \subseteq S, q.from \in 0..q.snap,
           q.result \in (IF q.op \in {"less", "last"} THEN {Heads} ELSE {NULL}) \cup S,
           Exact(q)
    PROVE  Exact(q)'
<1> USE DEF ReaderCall, Ops, Heads
<1>1. \A n \in S : KeyOf(n)' = KeyOf(n)
  BY DEF KeyOf
<1>2. \A n \in 1..q.snap : n \in S
  OBVIOUS
<1>3. CASE q.op = "seek"
  BY <1>1, <1>2, <1>3 DEF Exact
<1>4. CASE q.op = "get"
  BY <1>1, <1>2, <1>4 DEF Exact, GetOf
<1>5. CASE q.op = "less"
  BY <1>1, <1>2, <1>5 DEF Exact
<1>6. CASE q.op = "last"
  BY <1>1, <1>2, <1>6 DEF Exact
<1>7. CASE q.op = "next"
  BY <1>1, <1>2, <1>7 DEF Exact
<1> QED
  BY <1>3, <1>4, <1>5, <1>6, <1>7

\* A reader is not disturbed while nodes stay, links are written and never
\* unwritten, and the snapshot falls behind.
LEMMA ReaderStays ==
    ASSUME SkipTypeOK, NEW q \in ReaderCall, ReaderOK(q),
           lastSequence' \in 0..MaxNodes, lastSequence <= lastSequence',
           Born \subseteq Born',
           \A n \in Born : node'[n] = node[n],
           \A n \in 0..MaxNodes, l \in Levels : next[n][l] # Wild => next'[n][l] # Wild
    PROVE  ReaderOK(q)'
<1>1. 1..q.snap \subseteq Born
  BY DEF ReaderOK, ReaderCall, Born, SkipTypeOK
<1>2. q.x \in Born /\ Lower(KeyOf(q.x), q.key) => Lower(KeyOf(q.x), q.key)'
  BY DEF KeyOf, Lower
<1>3. q.pc = "search" => Ready(q.x, q.level)'
  BY DEF ReaderOK, ReaderCall, Ready, Levels
<1>4. q.pc = "done" => Exact(q)'
  BY <1>1, ExactFrame DEF ReaderOK
<1> QED
  BY <1>2, <1>3, <1>4 DEF ReaderOK, ReaderCall, SkipTypeOK, Heads

\* So the steps of the writer preserve what is said of readers.
LEMMA ReaderFrame ==
    ASSUME SkipTypeOK, ReaderInv, reader' = reader,
           lastSequence' \in 0..MaxNodes, lastSequence <= lastSequence',
           Born \subseteq Born',
           \A n \in Born : node'[n] = node[n],
           \A n \in 0..MaxNodes, l \in Levels : next[n][l] # Wild => next'[n][l] # Wild
    PROVE  ReaderInv'
<1> SUFFICES ASSUME NEW r \in Readers, NEW q, q = reader[r], q # Idle
             PROVE  ReaderOK(q)'
  BY DEF ReaderInv
<1>1. q \in ReaderCall /\ ReaderOK(q)
  BY DEF SkipTypeOK, ReaderInv
<1> QED
  BY <1>1, ReaderStays

-----------------------------------------------------------------------------
\* Facts about keys, and about the search of the writer.

\* Internal keys are totally ordered.
LEMMA Order ==
    ASSUME NEW a \in InternalKey, NEW b \in InternalKey, NEW c \in InternalKey
    PROVE  /\ ~Lower(a, a)
           /\ Lower(a, b) => ~Lower(b, a)
           /\ Lower(a, b) /\ Lower(b, c) => Lower(a, c)
           /\ ~Lower(a, b) /\ Lower(a, c) => Lower(b, c)
           /\ Lower(a, b) /\ ~Lower(c, b) => Lower(a, c)
           /\ a.s # b.s => Lower(a, b) \/ Lower(b, a)
<1>1. \A k \in InternalKey : k.u \in Keys /\ k.s \in 0..MaxNodes
  BY DEF InternalKey
<1>2. \A k \in InternalKey : k.u \in Nat
  BY <1>1
<1>3. \A k \in InternalKey : k.s \in Nat
  BY <1>1
<1> QED
  BY <1>2, <1>3 DEF Lower

LEMMA BornKeys ==
    ASSUME SkipTypeOK, WriterInv
    PROVE  /\ \A n \in Born : n \in Nodes /\ KeyOf(n) \in InternalKey /\ KeyOf(n).s = n
           /\ 1..lastSequence \subseteq Born
           /\ Born \subseteq 1..(lastSequence + 1)
           /\ \A n \in Born : node[n].height \in 1..MaxHeight
BY DEF SkipTypeOK, Born, KeyOf, InternalKey, Entry, Nodes

\* Entries that are not touched keep their places in the order.
LEMMA IsPrevFrame ==
    ASSUME lastSequence \in Nat, lastSequence' = lastSequence, NEW p, NEW k, NEW l,
           \A n \in 1..lastSequence : node'[n] = node[n],
           IsPrev(p, k, l)
    PROVE  IsPrev(p, k, l)'
<1>1. Tall(l)' = Tall(l)
  BY DEF Tall
<1>2. \A n \in Tall(l) : KeyOf(n)' = KeyOf(n)
  BY DEF Tall, KeyOf
<1> QED
  BY <1>1, <1>2 DEF IsPrev, Heads

\* Links of nodes that do not exist are not written.
LEMMA WrittenNodes ==
    ASSUME ListInv, NEW n \in 0..MaxNodes, NEW l \in Levels, next[n][l] # Wild
    PROVE  n \in {Heads} \cup Born
BY DEF ListInv, Nodes, Heads

-----------------------------------------------------------------------------
LEMMA InitInv == SInit => SInv
<1> SUFFICES ASSUME SInit PROVE SInv
  OBVIOUS
<1>1. SkipTypeOK
  BY DEF SInit, SkipTypeOK, Nodes, Levels, Heads, Born, Idle
<1>2. WriterInv
  BY DEF SInit, WriterInv
<1>3. ListInv
  <2>1. \A n \in 0..MaxNodes, l \in Levels : next[n][l] = (IF n = 0 THEN NULL ELSE Wild)
    BY DEF SInit, Heads
  <2>2. \A n \in 0..MaxNodes, l \in Levels : LinkOK(n, l)
    BY <2>1 DEF LinkOK, Nodes
  <2>3. \A n \in 0..MaxNodes : Gapless(n)
    BY DEF SInit, Gapless
  <2> QED
    BY <2>1, <2>2, <2>3 DEF SInit, ListInv, Nodes, Heads
<1>4. ReaderInv
  BY DEF SInit, ReaderInv
<1> QED
  BY <1>1, <1>2, <1>3, <1>4 DEF SInv

\* The new node has no links yet and no link leads to it.
LEMMA InsertStartInv ==
    ASSUME SInv, NEW u \in Keys, NEW t \in Types, NEW h \in 1..MaxHeight,
           InsertStart(u, t, h)
    PROVE  SInv'
<1> DEFINE x == lastSequence + 1
<1> USE DEF SInv
<1>1. /\ writer.pc = "idle" /\ x \in Nodes /\ Born = 1..lastSequence
      /\ node' = [node EXCEPT ![x] = [u |-> u, t |-> t, height |-> h]]
      /\ next' = next /\ lastSequence' = lastSequence /\ reader' = reader
      /\ maxHeight' \in 1..MaxHeight
  BY DEF InsertStart, Idle, Nodes, Born, SkipTypeOK
<1>2. PICK prev \in [0..(h - 1) -> Heads..lastSequence] :
        /\ \A l \in 0..(h - 1) : IsPrev(prev[l], [u |-> u, s |-> x], l)
        /\ writer' = [pc |-> "own", x |-> x, level |-> 0, prev |-> prev]
  BY DEF InsertStart
<1>3. /\ Born' = 1..x
      /\ \A n \in Born : node'[n] = node[n] /\ KeyOf(n)' = KeyOf(n)
      /\ node'[x] = [u |-> u, t |-> t, height |-> h] /\ KeyOf(x)' = [u |-> u, s |-> x]
  BY <1>1, <1>2 DEF SkipTypeOK, Born, Nodes, KeyOf
<1>4. SkipTypeOK'
  BY <1>1, <1>3 DEF SkipTypeOK, Nodes, Entry
<1>5. WriterInv'
  <2>1. \A l \in 0..(h - 1) : IsPrev(prev[l], [u |-> u, s |-> x], l)'
    BY <1>1, <1>2, <1>3, IsPrevFrame DEF SkipTypeOK
  <2>2. /\ writer'.pc = "own" /\ writer'.x = x /\ writer'.level = 0 /\ writer'.prev = prev
        /\ writer' = [pc |-> writer'.pc, x |-> writer'.x, level |-> writer'.level,
                      prev |-> writer'.prev]
    BY <1>2
  <2>3. \A l \in 0..(h - 1) : ~Linked(l)'
    BY <2>2 DEF Linked
  <2> QED
    BY <1>1, <1>3, <2>1, <2>2, <2>3 DEF WriterInv, WriterOK, Heads
<1>6. ListInv'
  <2>1. \A n \in 0..MaxNodes, l \in Levels : LinkOK(n, l)'
    <3> SUFFICES ASSUME NEW n \in 0..MaxNodes, NEW l \in Levels, next[n][l] \in Nodes
                 PROVE  LinkOK(n, l)'
      BY <1>1 DEF LinkOK, Nodes
    <3>1. LinkOK(n, l) /\ n \in {Heads} \cup Born
      BY WrittenNodes DEF ListInv, Nodes
    <3>2. next[n][l] \in Born /\ next[n][l] # x
      BY <1>1, <3>1 DEF LinkOK, SkipTypeOK
    <3> QED
      BY <1>1, <1>3, <3>1, <3>2 DEF LinkOK, Ready, Before, SkipTypeOK
  <2>2. \A n \in 0..MaxNodes : Gapless(n)'
    <3> SUFFICES ASSUME NEW n \in 0..MaxNodes, next[n][0] # Wild
                 PROVE  Gapless(n)'
      BY <1>1 DEF Gapless
    <3>0. 0 \in Levels
      BY DEF Levels
    <3>1. Gapless(n) /\ n \in {Heads} \cup Born /\ LinkOK(n, 0) /\ next[n][0] \in Nodes \cup {NULL}
      BY <3>0, WrittenNodes DEF ListInv, SkipTypeOK
    <3>2. next[n][0] # NULL => next[n][0] \in Born
      BY <3>1 DEF LinkOK
    <3> QED
      BY <1>1, <1>3, <3>1, <3>2 DEF Gapless, Before
  <2>3. \A n \in 1..lastSequence : Ready(n, node[n].height - 1)'
    BY <1>1, <1>3 DEF ListInv, Ready
  <2>4. /\ \A l \in Levels : next'[Heads][l] # Wild
        /\ \A n \in Nodes \ Born', l \in Levels : next'[n][l] = Wild
    BY <1>1, <1>3 DEF ListInv, SkipTypeOK
  <2> QED
    BY <1>1, <2>1, <2>2, <2>3, <2>4 DEF ListInv
<1>7. ReaderInv'
  BY <1>1, <1>3, ReaderFrame DEF SkipTypeOK
<1> QED
  BY <1>4, <1>5, <1>6, <1>7

\* Where the writer is while it links its node.
LEMMA AtWork ==
    ASSUME SInv, writer.pc # "idle"
    PROVE  /\ WriterOK
           /\ writer.x \in Born /\ writer.x = lastSequence + 1
           /\ writer.level \in Levels
           /\ \A l \in 0..(node[writer.x].height - 1) :
                /\ l \in Levels
                /\ writer.prev[l] \in 0..lastSequence /\ writer.prev[l] # writer.x
                /\ writer.prev[l] \in 0..MaxNodes
                /\ next[writer.prev[l]][l] # Wild
                /\ Before(writer.prev[l], writer.x)
                /\ IsPrev(writer.prev[l], KeyOf(writer.x), l)
<1> USE DEF SInv
<1>1. WriterOK /\ writer.x = lastSequence + 1 /\ writer.x \in Born
  BY DEF WriterInv, WriterOK, Idle, Born, SkipTypeOK
<1>2. node[writer.x].height \in 1..MaxHeight
  BY <1>1, BornKeys
<1>3. writer.level \in Levels
  BY <1>1, <1>2 DEF WriterOK, Levels
<1>4. ASSUME NEW l \in 0..(node[writer.x].height - 1)
      PROVE  /\ l \in Levels
             /\ writer.prev[l] \in 0..lastSequence /\ writer.prev[l] # writer.x
             /\ writer.prev[l] \in 0..MaxNodes
             /\ next[writer.prev[l]][l] # Wild
             /\ Before(writer.prev[l], writer.x)
             /\ IsPrev(writer.prev[l], KeyOf(writer.x), l)
  <2>1. l \in Levels
    BY <1>2 DEF Levels
  <2>2. writer.prev[l] \in 0..lastSequence /\ IsPrev(writer.prev[l], KeyOf(writer.x), l)
    BY <1>1 DEF WriterOK
  <2>3. writer.prev[l] # Heads => /\ writer.prev[l] \in 1..lastSequence
                                  /\ node[writer.prev[l]].height \in 1..MaxHeight
                                  /\ l <= node[writer.prev[l]].height - 1
    BY <2>1, <2>2, BornKeys DEF IsPrev, Tall, Levels
  <2>4. next[writer.prev[l]][l] # Wild
    BY <2>1, <2>3 DEF ListInv, Ready, Levels
  <2>5. Before(writer.prev[l], writer.x)
    BY <2>2 DEF IsPrev, Before
  <2> QED
    BY <1>1, <2>1, <2>2, <2>4, <2>5 DEF SkipTypeOK
<1> QED
  BY <1>1, <1>3, <1>4

\* The node takes over the link of its predecessor, which leads past it.
LEMMA SetOwnInv ==
    ASSUME SInv, SetOwn
    PROVE  SInv'
<1> DEFINE x == writer.x
           l == writer.level
           p == writer.prev[l]
           b == next[p][l]
<1> USE DEF SInv
<1>1. /\ writer.pc = "own" /\ next' = [next EXCEPT ![x][l] = b]
      /\ writer' = [writer EXCEPT !.pc = "publish"]
      /\ node' = node /\ maxHeight' = maxHeight /\ lastSequence' = lastSequence
      /\ reader' = reader
  BY DEF SetOwn
<1>2. /\ WriterOK /\ x \in Born /\ x = lastSequence + 1 /\ l \in Levels
      /\ l \in 0..(node[x].height - 1)
      /\ p \in 0..lastSequence /\ p # x /\ p \in 0..MaxNodes /\ b # Wild
      /\ Before(p, x) /\ IsPrev(p, KeyOf(x), l)
  BY <1>1, AtWork DEF WriterOK
<1>3. /\ writer' = [pc |-> "publish", x |-> x, level |-> l, prev |-> writer.prev]
      /\ writer'.pc = "publish" /\ writer'.x = x /\ writer'.level = l
      /\ writer'.prev = writer.prev
      /\ writer' = [pc |-> writer'.pc, x |-> writer'.x, level |-> writer'.level,
                    prev |-> writer'.prev]
  BY <1>1, <1>2 DEF WriterOK
<1>4. /\ Born' = Born
      /\ \A n : KeyOf(n)' = KeyOf(n)
      /\ \A k : Linked(k)' <=> Linked(k)
  BY <1>1, <1>3 DEF Born, KeyOf, Linked
<1>5. /\ x \in Nodes /\ b \in Nodes \cup {NULL}
      /\ next'[x][l] = b
      /\ \A n \in 0..MaxNodes, k \in Levels : ~(n = x /\ k = l) => next'[n][k] = next[n][k]
      /\ \A n \in 0..MaxNodes, k \in Levels : next[n][k] # Wild => next'[n][k] # Wild
  BY <1>1, <1>2 DEF SkipTypeOK, Nodes
<1>6. SkipTypeOK'
  BY <1>1, <1>4, <1>5 DEF SkipTypeOK
<1>7. WriterInv'
  <2>1. \A k \in 0..(node[x].height - 1) : IsPrev(writer.prev[k], KeyOf(x), k)'
    BY <1>1, <1>2, <1>4, IsPrevFrame DEF WriterOK, SkipTypeOK
  <2>2. ASSUME NEW k \in 0..(node[x].height - 1), Linked(k)
        PROVE  next'[x][k] # Wild /\ next'[writer.prev[k]][k] = x
    <3>1. /\ next[x][k] # Wild /\ next[writer.prev[k]][k] = x
          /\ k \in Levels /\ writer.prev[k] \in 0..MaxNodes /\ writer.prev[k] # x
      BY <1>1, <1>2, <2>2, AtWork DEF WriterOK
    <3> QED
      BY <1>5, <3>1 DEF Nodes
  <2> QED
    BY ZenonT(40), <1>1, <1>2, <1>3, <1>4, <1>5, <2>1, <2>2 DEF WriterInv, WriterOK
<1>8. ListInv'
  <2>1. b \in Nodes => /\ b \in 1..lastSequence /\ b \in Born /\ node[b].height > l
                       /\ Ready(b, l) /\ Before(p, b)
    <3>1. LinkOK(p, l) /\ ~Linked(l)
      BY <1>1, <1>2 DEF ListInv, Linked, Levels
    <3> QED
      BY SMTT(30), <3>1, BornKeys DEF LinkOK, SkipTypeOK
  <2>2. b \in Nodes => Lower(KeyOf(x), KeyOf(b))
    <3> SUFFICES ASSUME b \in Nodes
                 PROVE  Lower(KeyOf(x), KeyOf(b))
      OBVIOUS
    <3>1. b \in Tall(l) /\ b # x
      BY <1>2, <2>1 DEF Tall, SkipTypeOK
    <3>2. ~Lower(KeyOf(b), KeyOf(x))
      BY <1>2, <2>1, <3>1 DEF IsPrev, Before
    <3> QED
      BY <1>2, <2>1, <3>1, <3>2, BornKeys, Order
  <2>3. \A n \in 0..MaxNodes, k \in Levels : LinkOK(n, k)'
    <3> SUFFICES ASSUME NEW n \in 0..MaxNodes, NEW k \in Levels,
                        NEW c \in Nodes, c = next'[n][k]
                 PROVE  /\ c \in Born' /\ node'[c].height > k
                        /\ Ready(c, k)' /\ Before(n, c)'
                        /\ c = lastSequence' + 1 => Linked(k)'
      BY DEF LinkOK
    <3>1. CASE n = x /\ k = l
      <4>1. c = b
        BY <1>5, <3>1
      <4>2. Ready(c, k)'
        BY <1>2, <1>5, <2>1, <3>1, <4>1 DEF Ready, Levels, Nodes
      <4>3. Lower(KeyOf(n), KeyOf(c))
        BY <2>2, <3>1, <4>1
      <4>4. Before(n, c)'
        BY <1>4, <4>3 DEF Before
      <4>5. c \in Born /\ node[c].height > k /\ c # lastSequence + 1
        BY SMTT(30), <2>1, <3>1, <4>1 DEF SkipTypeOK
      <4> QED
        BY <1>1, <1>4, <4>2, <4>4, <4>5
    <3>2. CASE ~(n = x /\ k = l)
      <4>1. next'[n][k] = next[n][k] /\ LinkOK(n, k)
        BY <1>5, <3>2 DEF ListInv
      <4>2. Ready(c, k)'
        BY <1>5, <4>1 DEF LinkOK, Ready, Levels, Nodes
      <4> QED
        BY <1>1, <1>4, <4>1, <4>2 DEF LinkOK, Before
    <3> QED
      BY <3>1, <3>2
  <2>4. \A n \in 0..MaxNodes : Gapless(n)'
    <3> SUFFICES ASSUME NEW n \in 0..MaxNodes
                 PROVE  Gapless(n)'
      OBVIOUS
    <3>0. 0 \in Levels
      BY DEF Levels
    <3>1. CASE n = x /\ l = 0
      <4>1. ASSUME NEW m \in 1..lastSequence, Before(x, m)
            PROVE  b # NULL /\ ~Lower(KeyOf(m), KeyOf(b))
        <5>1. x # Heads /\ m \in Born /\ (p # Heads => p \in Born)
          BY <1>2, BornKeys DEF Heads, Nodes
        <5>2. Before(p, m)
          BY <1>2, <4>1, <5>1, BornKeys, Order DEF Before
        <5> QED
          BY <1>2, <3>1, <5>2 DEF ListInv, Gapless
      <4>2. next'[n][0] = b
        BY <1>5, <3>1
      <4> QED
        BY <1>1, <1>4, <3>1, <4>1, <4>2 DEF Gapless, Before
    <3>2. CASE ~(n = x /\ l = 0)
      BY <1>1, <1>4, <1>5, <3>0, <3>2 DEF ListInv, Gapless, Before
    <3> QED
      BY <3>1, <3>2
  <2>5. \A n \in 1..lastSequence : Ready(n, node[n].height - 1)'
    BY <1>1, <1>5, BornKeys DEF ListInv, Ready, Levels, Nodes
  <2>6. /\ \A k \in Levels : next'[Heads][k] # Wild
        /\ \A n \in Nodes \ Born, k \in Levels : next'[n][k] = Wild
    BY <1>2, <1>5 DEF ListInv, Nodes, Heads
  <2> QED
    BY <1>1, <1>4, <2>3, <2>4, <2>5, <2>6 DEF ListInv
<1>9. ReaderInv'
  BY <1>1, <1>4, <1>5, ReaderFrame DEF SkipTypeOK
<1> QED
  BY <1>6, <1>7, <1>8, <1>9

\* The predecessor now leads to the node, whose links up to this level are
\* written, and there is no finished entry between the two.
LEMMA PublishInv ==
    ASSUME SInv, Publish
    PROVE  SInv'
<1> DEFINE x == writer.x
           l == writer.level
           p == writer.prev[l]
           h == node[x].height
<1> USE DEF SInv
<1>1. /\ writer.pc = "publish" /\ next' = [next EXCEPT ![p][l] = x]
      /\ writer' = IF l + 1 < h THEN [writer EXCEPT !.pc = "own", !.level = l + 1]
                   ELSE [writer EXCEPT !.pc = "linked"]
      /\ node' = node /\ maxHeight' = maxHeight /\ lastSequence' = lastSequence
      /\ reader' = reader
  BY DEF Publish
<1>2. /\ WriterOK /\ x \in Born /\ x = lastSequence + 1 /\ l \in Levels
      /\ l \in 0..(h - 1) /\ h \in 1..MaxHeight
      /\ p \in 0..lastSequence /\ p # x /\ p \in 0..MaxNodes
      /\ Before(p, x) /\ IsPrev(p, KeyOf(x), l)
      /\ next[x][l] # Wild
  BY <1>1, AtWork, BornKeys DEF WriterOK
<1>3. /\ writer'.pc = (IF l + 1 < h THEN "own" ELSE "linked") /\ writer'.x = x
      /\ writer'.level = (IF l + 1 < h THEN l + 1 ELSE l)
      /\ writer'.prev = writer.prev
      /\ writer' = [pc |-> writer'.pc, x |-> writer'.x, level |-> writer'.level,
                    prev |-> writer'.prev]
  BY <1>1, <1>2 DEF WriterOK
<1>4. /\ Born' = Born
      /\ \A n : KeyOf(n)' = KeyOf(n)
      /\ \A k \in Levels : Linked(k)' <=> Linked(k) \/ k = l
  BY <1>1, <1>2, <1>3 DEF Born, KeyOf, Linked, Levels
<1>5. /\ x \in Nodes
      /\ next'[p][l] = x
      /\ \A n \in 0..MaxNodes, k \in Levels : ~(n = p /\ k = l) => next'[n][k] = next[n][k]
      /\ \A n \in 0..MaxNodes, k \in Levels : next[n][k] # Wild => next'[n][k] # Wild
  BY <1>1, <1>2 DEF SkipTypeOK, Nodes
<1>6. SkipTypeOK'
  BY <1>1, <1>4, <1>5 DEF SkipTypeOK
<1>7. WriterInv'
  <2>1. \A k \in 0..(h - 1) : IsPrev(writer.prev[k], KeyOf(x), k)'
    BY <1>1, <1>2, <1>4, IsPrevFrame DEF WriterOK, SkipTypeOK
  <2>2. ASSUME NEW k \in 0..(h - 1), Linked(k)'
        PROVE  next'[x][k] # Wild /\ next'[writer.prev[k]][k] = x
    <3>1. k \in Levels /\ writer.prev[k] \in 0..MaxNodes /\ writer.prev[k] # x
      BY <1>1, AtWork
    <3>2. CASE k = l
      BY <1>2, <1>5, <3>1, <3>2 DEF Nodes
    <3>3. CASE k # l
      <4>1. next[x][k] # Wild /\ next[writer.prev[k]][k] = x
        BY <1>2, <1>4, <2>2, <3>1, <3>3 DEF WriterOK
      <4> QED
        BY <1>5, <3>1, <3>3, <4>1 DEF Nodes
    <3> QED
      BY <3>2, <3>3
  <2>3. /\ writer'.pc \in {"own", "linked"}
        /\ writer'.level \in 0..(h - 1)
        /\ writer'.pc = "linked" => writer'.level = h - 1
    BY <1>2, <1>3
  <2>4. /\ writer'.x = x /\ writer'.x = lastSequence' + 1 /\ node'[writer'.x].height = h
        /\ writer'.prev = writer.prev
        /\ writer'.prev \in [0..(h - 1) -> 0..lastSequence']
        /\ writer'.pc # "publish"
    BY <1>1, <1>2, <1>3 DEF WriterOK
  <2> HIDE DEF h
  <2>5. WriterOK'
    BY <1>3, <1>4, <2>1, <2>2, <2>3, <2>4 DEF WriterOK
  <2> QED
    BY <2>5 DEF WriterInv
<1>8. ListInv'
  <2>1. \A k \in 0..l : k \in Levels /\ next[x][k] # Wild
    BY SMTT(30), <1>1, <1>2 DEF WriterOK, Linked, Levels
  <2>2. \A n \in 0..MaxNodes, k \in Levels : LinkOK(n, k)'
    <3> SUFFICES ASSUME NEW n \in 0..MaxNodes, NEW k \in Levels,
                        NEW c \in Nodes, c = next'[n][k]
                 PROVE  /\ c \in Born' /\ node'[c].height > k
                        /\ Ready(c, k)' /\ Before(n, c)'
                        /\ c = lastSequence' + 1 => Linked(k)'
      BY DEF LinkOK
    <3>1. CASE n = p /\ k = l
      <4>1. c = x
        BY <1>5, <3>1
      <4>2. Ready(c, k)'
        BY <1>2, <1>5, <2>1, <3>1, <4>1 DEF Ready, Nodes
      <4>3. Before(n, c)
        BY <1>2, <3>1, <4>1
      <4>4. Before(n, c)'
        BY <1>4, <4>3 DEF Before
      <4>5. node[c].height > k
        BY <1>2, <3>1, <4>1
      <4> QED
        BY <1>1, <1>2, <1>4, <3>1, <4>1, <4>2, <4>4, <4>5
    <3>2. CASE ~(n = p /\ k = l)
      <4>1. next'[n][k] = next[n][k] /\ LinkOK(n, k)
        BY <1>5, <3>2 DEF ListInv
      <4>2. Ready(c, k)'
        BY <1>5, <4>1 DEF LinkOK, Ready, Levels, Nodes
      <4> QED
        BY <1>1, <1>4, <4>1, <4>2 DEF LinkOK, Before
    <3> QED
      BY <3>1, <3>2
  <2>3. \A n \in 0..MaxNodes : Gapless(n)'
    <3> SUFFICES ASSUME NEW n \in 0..MaxNodes
                 PROVE  Gapless(n)'
      OBVIOUS
    <3>0. 0 \in Levels
      BY DEF Levels
    <3>1. CASE n = p /\ l = 0
      <4>1. ASSUME NEW m \in 1..lastSequence, Before(p, m)
            PROVE  ~Lower(KeyOf(m), KeyOf(x))
        <5>1. m \in Tall(l)
          BY <3>1, BornKeys DEF Tall
        <5> QED
          BY <1>2, <4>1, <5>1 DEF IsPrev, Before
      <4>2. next'[n][0] = x /\ x # NULL
        BY <1>5, <3>1 DEF Nodes
      <4> QED
        BY <1>1, <1>4, <3>1, <4>1, <4>2 DEF Gapless, Before
    <3>2. CASE ~(n = p /\ l = 0)
      BY <1>1, <1>4, <1>5, <3>0, <3>2 DEF ListInv, Gapless, Before
    <3> QED
      BY <3>1, <3>2
  <2>4. \A n \in 1..lastSequence : Ready(n, node[n].height - 1)'
    <3>1. \A n \in 1..lastSequence : /\ n \in 0..MaxNodes
                                    /\ 0..(node[n].height - 1) \subseteq Levels
      BY BornKeys DEF Levels, Nodes
    <3> QED
      BY <1>1, <1>5, <3>1 DEF ListInv, Ready
  <2>5. \A k \in Levels : next'[Heads][k] # Wild
    BY <1>5 DEF ListInv, Heads
  <2>6. \A n \in Nodes \ Born, k \in Levels : next'[n][k] = Wild
    <3>1. p = Heads \/ p \in Born
      BY <1>2, BornKeys DEF Heads
    <3> QED
      BY <1>5, <3>1 DEF ListInv, Nodes, Heads
  <2> QED
    BY <1>1, <1>4, <2>2, <2>3, <2>4, <2>5, <2>6 DEF ListInv
<1>9. ReaderInv'
  BY <1>1, <1>4, <1>5, ReaderFrame DEF SkipTypeOK
<1> QED
  BY <1>6, <1>7, <1>8, <1>9

\* The node that is linked everywhere becomes an entry that searches must find.
LEMMA InsertDoneInv ==
    ASSUME SInv, InsertDone
    PROVE  SInv'
<1> DEFINE x == writer.x
           p == writer.prev[0]
<1> USE DEF SInv
<1>1. /\ writer.pc = "linked" /\ lastSequence' = x /\ writer' = Idle
      /\ node' = node /\ next' = next /\ maxHeight' = maxHeight /\ reader' = reader
  BY DEF InsertDone
<1>2. /\ WriterOK /\ x \in Born /\ x = lastSequence + 1 /\ x \in Nodes
      /\ node[x].height \in 1..MaxHeight /\ 0 \in 0..(node[x].height - 1)
      /\ writer.level = node[x].height - 1
      /\ p \in 0..lastSequence /\ p # x /\ p \in 0..MaxNodes
      /\ Before(p, x) /\ IsPrev(p, KeyOf(x), 0)
      /\ lastSequence \in Nat
  <2>1. /\ x \in Born /\ node[x].height \in 1..MaxHeight /\ x \in Nodes
        /\ lastSequence \in Nat
    BY <1>1, AtWork, BornKeys DEF SkipTypeOK
  <2>2. 0 \in 0..(node[x].height - 1)
    BY <2>1
  <2> QED
    BY <1>1, <2>1, <2>2, AtWork DEF WriterOK
<1>3. /\ Born' = Born /\ Born = 1..x
      /\ \A n : KeyOf(n)' = KeyOf(n)
  BY <1>1, <1>2 DEF Born, KeyOf, Idle
<1>4. SkipTypeOK'
  BY <1>1, <1>2, <1>3 DEF SkipTypeOK, Nodes
<1>5. WriterInv'
  BY <1>1 DEF WriterInv
<1>6. ListInv'
  <2>1. \A k \in 0..(node[x].height - 1) :
            next[x][k] # Wild /\ next[writer.prev[k]][k] = x
    BY <1>1, <1>2 DEF WriterOK, Linked
  <2>2. \A n \in 0..MaxNodes, k \in Levels : LinkOK(n, k)'
    <3> SUFFICES ASSUME NEW n \in 0..MaxNodes, NEW k \in Levels,
                        NEW c \in Nodes, c = next[n][k]
                 PROVE  /\ c \in Born' /\ node'[c].height > k
                        /\ Ready(c, k)' /\ Before(n, c)'
                        /\ c # lastSequence' + 1
      BY <1>1 DEF LinkOK
    <3>1. c \in Born /\ node[c].height > k /\ Ready(c, k) /\ Before(n, c)
      BY DEF ListInv, LinkOK
    <3> QED
      BY <1>1, <1>2, <1>3, <3>1 DEF Ready, Before
  <2>3. \A n \in 0..MaxNodes : Gapless(n)'
    <3> SUFFICES ASSUME NEW n \in 0..MaxNodes, next[n][0] # Wild,
                        NEW m \in 1..x, Before(n, m)
                 PROVE  next[n][0] # NULL /\ ~Lower(KeyOf(m), KeyOf(next[n][0]))
      BY <1>1, <1>3 DEF Gapless, Before
    <3>0. 0 \in Levels /\ Gapless(n)
      BY DEF Levels, ListInv
    <3>1. CASE m # x
      <4>1. m \in 1..lastSequence
        BY <1>2, <3>1
      <4> QED
        BY <3>0, <4>1 DEF Gapless
    <3>2. CASE m = x /\ n = p
      <4>1. next[n][0] = x
        BY <1>2, <2>1, <3>2
      <4> QED
        BY <1>2, <3>2, <4>1, BornKeys, Order DEF Nodes
    <3>3. CASE m = x /\ n # p
      <4>1. n \in {Heads} \cup Born /\ n # x
        <5>1. n \in {Heads} \cup Born
          BY <3>0, WrittenNodes
        <5> QED
          BY <1>2, <3>3, <5>1, BornKeys, Order DEF Before, Nodes, Heads
      <4>2. n # Heads => n \in 1..lastSequence /\ Lower(KeyOf(n), KeyOf(x))
        BY <1>2, <1>3, <3>3, <4>1 DEF Before
      <4>3. n # Heads => p # Heads /\ ~Lower(KeyOf(p), KeyOf(n))
        <5>1. n # Heads => n \in Tall(0)
          BY <4>2, BornKeys DEF Tall
        <5> QED
          BY <1>2, <4>2, <5>1 DEF IsPrev
      <4>4. p # Heads /\ p \in 1..lastSequence /\ p \in Born
        BY <1>2, <3>3, <4>3, BornKeys DEF Heads
      <4>5. Before(n, p)
        BY <3>3, <4>1, <4>3, <4>4, BornKeys, Order DEF Before
      <4>6. next[n][0] # NULL /\ ~Lower(KeyOf(p), KeyOf(next[n][0]))
        BY <3>0, <4>4, <4>5 DEF Gapless
      <4>7. next[n][0] \in Born
        BY <3>0, <4>6 DEF ListInv, LinkOK, SkipTypeOK
      <4>8. Lower(KeyOf(p), KeyOf(x))
        BY <1>2, <4>4 DEF Before
      <4> QED
        BY <1>2, <3>3, <4>4, <4>6, <4>7, <4>8, BornKeys, Order
    <3> QED
      BY <3>1, <3>2, <3>3
  <2>4. \A n \in 1..x : Ready(n, node[n].height - 1)'
    <3>1. \A n \in 1..lastSequence : Ready(n, node[n].height - 1)
      BY DEF ListInv
    <3> QED
      BY <1>1, <1>2, <2>1, <3>1 DEF Ready
  <2> QED
    BY <1>1, <1>3, <2>2, <2>3, <2>4 DEF ListInv
<1>7. ReaderInv'
  BY <1>1, <1>2, <1>3, <1>4, ReaderFrame DEF SkipTypeOK
<1> QED
  BY <1>4, <1>5, <1>6, <1>7

-----------------------------------------------------------------------------
\* The steps of readers, who write nothing.

LEMMA ReaderStep ==
    ASSUME SInv, UNCHANGED <<node, next, maxHeight, lastSequence, writer>>,
           NEW r \in Readers, NEW q, reader' = [reader EXCEPT ![r] = q],
           q = Idle \/ (q \in ReaderCall /\ ReaderOK(q))
    PROVE  SInv'
<1> USE DEF SInv
<1>1. Born' = Born
  BY DEF Born
<1>2. SkipTypeOK'
  BY <1>1 DEF SkipTypeOK
<1>3. WriterInv'
  BY DEF WriterInv, WriterOK, IsPrev, Tall, KeyOf, Linked
<1>4. ListInv'
  BY DEF ListInv, LinkOK, Gapless, Ready, Before, Born, KeyOf, Linked
<1>5. ReaderInv'
  <2> SUFFICES ASSUME NEW s \in Readers, NEW c, c = reader'[s], c # Idle
               PROVE  ReaderOK(c)'
    BY DEF ReaderInv
  <2>1. c \in ReaderCall /\ ReaderOK(c)
    BY DEF SkipTypeOK, ReaderInv
  <2> QED
    BY <1>1, <2>1, ReaderStays DEF SkipTypeOK
<1> QED
  BY <1>2, <1>3, <1>4, <1>5

\* A search begins at head_, or at the node where an iterator stands.
LEMMA CallInv ==
    ASSUME SInv, NEW r \in Readers,
           \/ \E u \in Keys, op \in {"seek", "get", "last"} : Search(r, op, u)
           \/ \E n \in 1..lastSequence : CallPrev(r, n)
           \/ \E n \in Heads..lastSequence : CallNext(r, n)
    PROVE  SInv'
<1> USE DEF SInv
<1> DEFINE New(op, from, key, level) ==
        [pc |-> "search", op |-> op, from |-> from, key |-> key, snap |-> lastSequence,
         x |-> from, level |-> level, result |-> NULL]
<1>1. \A h \in 1..maxHeight : h - 1 \in Levels /\ Ready(Heads, h - 1)
  BY DEF SkipTypeOK, Levels, ListInv, Ready
<1>2. ASSUME NEW u \in Keys, NEW op \in {"seek", "get", "last"}, Search(r, op, u)
      PROVE  SInv'
  <2>1. PICK h \in 1..maxHeight :
          reader' = [reader EXCEPT ![r] = New(op, Heads, [u |-> u, s |-> lastSequence], h - 1)]
    BY <1>2 DEF Search, Call
  <2>2. PICK q : q = New(op, Heads, [u |-> u, s |-> lastSequence], h - 1)
    OBVIOUS
  <2>3. q \in ReaderCall
    BY <1>1, <2>2 DEF ReaderCall, Ops, InternalKey, SkipTypeOK, Heads
  <2>4. ReaderOK(q)
    BY <1>1, <2>2 DEF ReaderOK, InternalKey, SkipTypeOK, Heads
  <2> QED
    BY <1>2, <2>1, <2>2, <2>3, <2>4, ReaderStep DEF Search
<1>3. ASSUME NEW n \in 1..lastSequence, CallPrev(r, n)
      PROVE  SInv'
  <2>1. PICK h \in 1..maxHeight :
          reader' = [reader EXCEPT ![r] = New("less", Heads, KeyOf(n), h - 1)]
    BY <1>3 DEF CallPrev, Call
  <2>2. PICK q : q = New("less", Heads, KeyOf(n), h - 1)
    OBVIOUS
  <2>3. KeyOf(n) \in InternalKey
    BY BornKeys
  <2>4. q \in ReaderCall
    BY <1>1, <2>2, <2>3 DEF ReaderCall, Ops, SkipTypeOK, Heads
  <2>5. ReaderOK(q)
    BY <1>1, <2>2, <2>3 DEF ReaderOK, SkipTypeOK, Heads
  <2> QED
    BY <1>3, <2>1, <2>2, <2>4, <2>5, ReaderStep DEF CallPrev
<1>4. ASSUME NEW n \in Heads..lastSequence, CallNext(r, n)
      PROVE  SInv'
  <2>1. reader' = [reader EXCEPT ![r] = New("next", n, NULL, 0)]
    BY <1>4 DEF CallNext, Call
  <2>2. PICK q : q = New("next", n, NULL, 0)
    OBVIOUS
  <2>3. 0 \in Levels /\ n \in {Heads} \cup Born /\ next[n][0] # Wild
    <3>1. 0 \in Levels /\ (n # Heads => n \in 1..lastSequence)
      BY DEF Levels, Heads, SkipTypeOK
    <3>2. n # Heads => node[n].height \in 1..MaxHeight /\ n \in Born
      BY <3>1, BornKeys
    <3>3. n # Heads => 0 \in 0..(node[n].height - 1)
      BY <3>2
    <3> QED
      BY <3>1, <3>2, <3>3 DEF ListInv, Ready
  <2>4. q \in ReaderCall
    BY <2>2, <2>3 DEF ReaderCall, Ops, SkipTypeOK, Heads
  <2>5. ReaderOK(q)
    BY <2>2, <2>3 DEF ReaderOK, Ready, SkipTypeOK, Heads
  <2> QED
    BY <1>4, <2>1, <2>2, <2>4, <2>5, ReaderStep DEF CallNext
<1> QED
  BY <1>2, <1>3, <1>4

\* At the end of level 0 the answer is exact: no entry of the snapshot lies
\* between the node where the search stands and the one it has loaded.
LEMMA LoadExact ==
    ASSUME SInv, NEW q \in ReaderCall, ReaderOK(q), q.pc = "search", q.level = 0,
           NEW n, n = next[q.x][0], n # Wild, ~GoesOn(q, n),
           NEW d, d = [q EXCEPT !.pc = "done",
                           !.result = IF q.op \in {"less", "last"} THEN q.x ELSE n]
    PROVE  /\ d.result \in (IF d.op \in {"less", "last"} THEN {Heads} ELSE {NULL}) \cup Born
           /\ Exact(d)
<1> USE DEF SInv
<1>1. /\ d.op = q.op /\ d.from = q.from /\ d.key = q.key /\ d.snap = q.snap
      /\ d.result = (IF q.op \in {"less", "last"} THEN q.x ELSE n)
      /\ q.op \in Ops
  BY DEF ReaderCall
<1>2. /\ 0 \in Levels /\ q.x \in 0..MaxNodes /\ q.x \in {Heads} \cup Born
      /\ n \in Nodes \cup {NULL} /\ Gapless(q.x)
      /\ n # NULL => n \in Born /\ Before(q.x, n)
  <2>1. 0 \in Levels /\ q.x \in 0..MaxNodes
    BY DEF Levels, ReaderCall
  <2>2. n \in Nodes \cup {NULL}
    BY <2>1 DEF SkipTypeOK
  <2>3. LinkOK(q.x, 0) /\ Gapless(q.x)
    BY <2>1 DEF ListInv
  <2>4. n # NULL => n \in Born /\ Before(q.x, n)
    BY <2>2, <2>3 DEF LinkOK
  <2> QED
    BY <2>1, <2>2, <2>3, <2>4 DEF ReaderOK
<1>3. ASSUME NEW m \in 1..q.snap
      PROVE  /\ m \in Born /\ KeyOf(m) \in InternalKey
             /\ Before(q.x, m) => n # NULL /\ ~Lower(KeyOf(m), KeyOf(n))
  <2>1. m \in 1..lastSequence
    BY DEF ReaderOK, ReaderCall, SkipTypeOK
  <2> QED
    BY <1>2, <2>1, BornKeys DEF Gapless
<1>4. /\ q.x # Heads => KeyOf(q.x) \in InternalKey
      /\ n # NULL => KeyOf(n) \in InternalKey
  BY <1>2, BornKeys
<1>5. d.result \in (IF d.op \in {"less", "last"} THEN {Heads} ELSE {NULL}) \cup Born
  BY <1>1, <1>2
\* Seek and Get stand before the key, and what they have loaded is not before it.
<1>6. ASSUME q.op \in {"seek", "get"}
      PROVE  /\ q.key \in InternalKey
             /\ \A m \in 1..q.snap : ~Lower(KeyOf(m), q.key) => Before(q.x, m)
             /\ n # NULL => ~Lower(KeyOf(n), q.key)
  <2>1. q.key \in InternalKey /\ (q.x = Heads \/ Lower(KeyOf(q.x), q.key))
    BY <1>6 DEF ReaderOK
  <2>2. n # NULL => ~Lower(KeyOf(n), q.key)
    BY <1>6 DEF GoesOn, KeyIsAfterNode
  <2> QED
    BY <1>3, <1>4, <2>1, <2>2, Order DEF Before
<1>7. CASE q.op = "seek"
  <2>1. ASSUME NEW m \in 1..d.snap, ~Lower(KeyOf(m), d.key)
        PROVE  d.result # NULL /\ ~Lower(KeyOf(m), KeyOf(d.result))
    BY <1>1, <1>3, <1>6, <1>7, <2>1
  <2>2. d.result # NULL => ~Lower(KeyOf(d.result), d.key)
    BY <1>1, <1>6, <1>7
  <2> QED
    BY <1>1, <1>5, <1>7, <2>1, <2>2 DEF Exact
<1>8. CASE q.op = "get"
  <2>1. q.key.s = q.snap /\ q.key.u \in Nat /\ q.snap \in Nat
    BY <1>6, <1>8 DEF ReaderOK, ReaderCall, InternalKey
  <2>2. \A m \in 1..q.snap : /\ KeyOf(m).u = node[m].u /\ KeyOf(m).s = m
                             /\ m \in Nat /\ node[m].u \in Nat
    <3> SUFFICES ASSUME NEW m \in 1..q.snap
                 PROVE  /\ KeyOf(m).u = node[m].u /\ KeyOf(m).s = m
                        /\ m \in Nat /\ node[m].u \in Nat
      OBVIOUS
    <3>1. KeyOf(m).u \in Keys
      BY <1>3 DEF InternalKey
    <3> QED
      BY <2>1, <3>1 DEF KeyOf
  <2>3. n # NULL => /\ KeyOf(n).u = node[n].u /\ KeyOf(n).s = n
                    /\ n \in Nat /\ node[n].u \in Nat /\ n >= 1
    BY <1>2, <1>4 DEF KeyOf, InternalKey, Nodes
  <2>4. n # NULL /\ node[n].u = q.key.u => n \in 1..q.snap
    BY <1>6, <1>8, <2>1, <2>3 DEF Lower
  <2>5. ASSUME NEW m \in 1..q.snap, node[m].u = q.key.u
        PROVE  n # NULL /\ node[n].u = q.key.u /\ m <= n
    <3>1. n # NULL /\ ~Lower(KeyOf(m), KeyOf(n)) /\ ~Lower(KeyOf(n), q.key)
      <4>1. ~Lower(KeyOf(m), q.key)
        BY <2>1, <2>2, <2>5 DEF Lower
      <4> QED
        BY <1>3, <1>6, <1>8, <4>1
    <3> QED
      BY <2>1, <2>2, <2>3, <2>5, <3>1 DEF Lower
  <2>6. GetOf(d) = IF n # NULL /\ node[n].u = q.key.u
                   THEN [found |-> TRUE, s |-> IF node[n].t = "value" THEN n ELSE NULL]
                   ELSE [found |-> FALSE, s |-> NULL]
    BY <1>1, <1>8 DEF GetOf
  <2> DEFINE Newest == {m \in 1..d.snap : node[m].u = d.key.u /\
                               \A k \in 1..d.snap : node[k].u = d.key.u => k <= m}
  <2>7. \A m \in Newest : n # NULL /\ node[n].u = q.key.u /\ m = n
    BY <1>1, <2>2, <2>3, <2>4, <2>5
  <2>8. Newest = {} => ~(n # NULL /\ node[n].u = q.key.u)
    BY <1>1, <2>4, <2>5
  <2>9. Newest = {} => ~GetOf(d).found
    BY <2>6, <2>8
  <2>10. \A m \in Newest : GetOf(d) = [found |-> TRUE,
                               s |-> IF node[m].t = "value" THEN m ELSE NULL]
    BY <2>6, <2>7
  <2>11. d.op = "get"
    BY <1>1, <1>8
  <2> QED
    BY <1>5, <2>9, <2>10, <2>11 DEF Exact
<1>9. CASE q.op = "less"
  <2>1. q.key \in InternalKey /\ (q.x = Heads \/ Lower(KeyOf(q.x), q.key))
    BY <1>9 DEF ReaderOK
  <2>2. n # NULL => ~Lower(KeyOf(n), q.key)
    BY <1>9 DEF GoesOn
  <2>3. ASSUME NEW m \in 1..q.snap, Lower(KeyOf(m), q.key)
        PROVE  q.x # Heads /\ ~Lower(KeyOf(q.x), KeyOf(m))
    BY <1>3, <1>4, <2>1, <2>2, <2>3, Order DEF Before
  <2> QED
    BY <1>1, <1>5, <1>9, <2>1, <2>3 DEF Exact
<1>10. CASE q.op = "last"
  <2>1. n = NULL
    BY <1>10 DEF GoesOn
  <2>2. \A m \in 1..q.snap : q.x # Heads /\ ~Lower(KeyOf(q.x), KeyOf(m))
    BY <1>3, <2>1 DEF Before
  <2> QED
    BY <1>1, <1>5, <1>10, <2>2 DEF Exact
<1>11. CASE q.op = "next"
  <2>1. q.x = q.from
    BY <1>11 DEF ReaderOK
  <2>2. \A m \in 1..q.snap : q.from = Heads \/ Lower(KeyOf(q.from), KeyOf(m)) =>
            n # NULL /\ ~Lower(KeyOf(m), KeyOf(n))
    BY <1>3, <2>1 DEF Before
  <2>3. n # NULL /\ q.from # Heads => Lower(KeyOf(q.from), KeyOf(n))
    BY <1>2, <2>1 DEF Before
  <2> QED
    BY <1>1, <1>5, <1>11, <2>2, <2>3 DEF Exact
<1> QED
  BY <1>1, <1>5, <1>7, <1>8, <1>9, <1>10, <1>11 DEF Ops

\* A loaded link is written; a search goes on, goes down or ends.
LEMMA LoadInv ==
    ASSUME SInv, NEW r \in Readers, Load(r)
    PROVE  SInv'
<1> USE DEF SInv
<1>1. PICK q : q = reader[r]
  OBVIOUS
<1>2. PICK n : n = next[q.x][q.level]
  OBVIOUS
<1>3. q \in ReaderCall /\ ReaderOK(q) /\ q.pc = "search"
  <2>1. q.pc = "search"
    BY <1>1 DEF Load
  <2>2. q # Idle
    BY <2>1 DEF Idle
  <2> QED
    BY <1>1, <2>1, <2>2 DEF SkipTypeOK, ReaderInv
<1>4. q.level \in Levels /\ q.level \in Nat /\ q.x \in 0..MaxNodes /\ q.op \in Ops
  BY <1>3 DEF ReaderCall, Levels
<1>5. n # Wild
  BY <1>2, <1>3, <1>4 DEF ReaderOK, Ready
<1>6. n \in Nodes \cup {NULL} /\ (n # NULL => n \in Born /\ Ready(n, q.level) /\ n \in 0..MaxNodes)
  <2>1. n \in Nodes \cup {NULL}
    BY <1>2, <1>4, <1>5 DEF SkipTypeOK
  <2>2. LinkOK(q.x, q.level)
    BY <1>4 DEF ListInv
  <2>3. n # NULL => n \in Born /\ Ready(n, q.level)
    BY <1>2, <2>1, <2>2 DEF LinkOK
  <2> QED
    BY <2>1, <2>3 DEF Nodes
<1>7. CASE GoesOn(q, n)
  <2>1. PICK d : d = [q EXCEPT !.x = n]
    OBVIOUS
  <2>2. reader' = [reader EXCEPT ![r] = d]
    BY <1>1, <1>2, <1>5, <1>7, <2>1 DEF Load
  <2>3. /\ n # NULL /\ q.op # "next"
        /\ q.op \in {"seek", "get", "less"} => Lower(KeyOf(n), q.key)
    BY <1>4, <1>7 DEF GoesOn, KeyIsAfterNode, Ops
  <2>4. d \in ReaderCall
    BY <1>3, <1>6, <2>1, <2>3 DEF ReaderCall
  <2>5. /\ d.pc = "search" /\ d.op = q.op /\ d.from = q.from /\ d.key = q.key
        /\ d.snap = q.snap /\ d.x = n /\ d.level = q.level
    BY <1>3, <2>1 DEF ReaderCall
  <2>6. ReaderOK(d)
    BY <1>3, <1>6, <2>3, <2>5 DEF ReaderOK
  <2> QED
    BY <2>2, <2>4, <2>6, ReaderStep DEF Load
<1>8. CASE ~GoesOn(q, n) /\ q.level > 0
  <2>1. PICK d : d = [q EXCEPT !.level = q.level - 1]
    OBVIOUS
  <2>2. reader' = [reader EXCEPT ![r] = d]
    BY <1>1, <1>2, <1>5, <1>8, <2>1 DEF Load
  <2>3. d \in ReaderCall
    BY <1>3, <1>4, <1>8, <2>1 DEF ReaderCall, Levels
  <2>4. /\ d.pc = "search" /\ d.op = q.op /\ d.from = q.from /\ d.key = q.key
        /\ d.snap = q.snap /\ d.x = q.x /\ d.level = q.level - 1
    BY <1>3, <2>1 DEF ReaderCall
  <2>5. Ready(q.x, q.level - 1)
    BY <1>3, <1>4 DEF ReaderOK, Ready
  <2>6. ReaderOK(d)
    BY <1>3, <1>4, <1>8, <2>4, <2>5 DEF ReaderOK
  <2> QED
    BY <2>2, <2>3, <2>6, ReaderStep DEF Load
<1>9. CASE ~GoesOn(q, n) /\ ~(q.level > 0)
  <2>1. PICK d : d = [q EXCEPT !.pc = "done",
                          !.result = IF q.op \in {"less", "last"} THEN q.x ELSE n]
    OBVIOUS
  <2>2. reader' = [reader EXCEPT ![r] = d]
    BY <1>1, <1>2, <1>5, <1>9, <2>1 DEF Load
  <2>3. d \in ReaderCall
    BY <1>3, <1>4, <1>6, <2>1 DEF ReaderCall
  <2>4. /\ d.pc = "done" /\ d.op = q.op /\ d.from = q.from /\ d.key = q.key
        /\ d.snap = q.snap /\ d.x = q.x /\ d.level = q.level
    BY <1>3, <2>1 DEF ReaderCall
  <2>5. q.level = 0
    BY <1>4, <1>9
  <2>6. /\ d.result \in (IF d.op \in {"less", "last"} THEN {Heads} ELSE {NULL}) \cup Born
        /\ Exact(d)
    BY <1>2, <1>3, <1>5, <1>9, <2>1, <2>5, LoadExact
  <2>7. ReaderOK(d)
    BY <1>3, <2>4, <2>6 DEF ReaderOK
  <2> QED
    BY <2>2, <2>3, <2>7, ReaderStep DEF Load
<1> QED
  BY <1>7, <1>8, <1>9

LEMMA ReturnInv ==
    ASSUME SInv, NEW r \in Readers, Return(r)
    PROVE  SInv'
BY ReaderStep DEF Return

-----------------------------------------------------------------------------
LEMMA StutterInv ==
    ASSUME SInv, UNCHANGED svars
    PROVE  SInv'
<1> USE DEF SInv, svars
<1>1. Born' = Born
  BY DEF Born
<1>2. SkipTypeOK'
  BY <1>1 DEF SkipTypeOK
<1>3. WriterInv'
  BY DEF WriterInv, WriterOK, IsPrev, Tall, KeyOf, Linked
<1>4. ListInv'
  BY DEF ListInv, LinkOK, Gapless, Ready, Before, Born, KeyOf, Linked
<1>5. ReaderInv'
  BY <1>1, ReaderFrame DEF SkipTypeOK
<1> QED
  BY <1>2, <1>3, <1>4, <1>5

LEMMA StepInv == SInv /\ [SNext]_svars => SInv'
<1> SUFFICES ASSUME SInv, [SNext]_svars PROVE SInv'
  OBVIOUS
<1>1. CASE \E u \in Keys, t \in Types, h \in 1..MaxHeight : InsertStart(u, t, h)
  BY <1>1, InsertStartInv
<1>2. CASE SetOwn
  BY <1>2, SetOwnInv
<1>3. CASE Publish
  BY <1>3, PublishInv
<1>4. CASE InsertDone
  BY <1>4, InsertDoneInv
<1>5. ASSUME NEW r \in Readers,
             \/ \E u \in Keys, op \in {"seek", "get", "last"} : Search(r, op, u)
             \/ \E n \in 1..lastSequence : CallPrev(r, n)
             \/ \E n \in Heads..lastSequence : CallNext(r, n)
      PROVE  SInv'
  BY <1>5, CallInv
<1>6. ASSUME NEW r \in Readers, Load(r) \/ Return(r)
      PROVE  SInv'
  BY <1>6, LoadInv, ReturnInv
<1>7. CASE UNCHANGED svars
  BY <1>7, StutterInv
<1> QED
  BY <1>1, <1>2, <1>3, <1>4, <1>5, <1>6, <1>7 DEF SNext

LEMMA Invariant == SSpec => []SInv
BY InitInv, StepInv, PTL DEF SSpec

\* A reader never follows a link of skiplist.h that Insert has not written,
\* although it may come to a node through any level while it is being linked.
THEOREM LinksWritten == SSpec => []NeverWild
<1>1. SInv => NeverWild
  BY DEF SInv, SkipTypeOK, ReaderCall, Idle, NeverWild
<1> QED
  BY <1>1, Invariant, PTL

\* Seek, Get, Next, Prev and SeekToLast answer exactly for the entries that were
\* in the list when the call began, whatever is inserted beside them.
THEOREM SearchesAreExact == SSpec => []SearchesExact
<1>1. SInv => SearchesExact
  <2> SUFFICES ASSUME SInv, NEW r \in Readers, reader[r].pc = "done"
               PROVE  Exact(reader[r])
    BY DEF SearchesExact
  <2>1. reader[r] # Idle
    BY DEF Idle
  <2>2. ReaderOK(reader[r])
    BY <2>1 DEF SInv, ReaderInv
  <2> QED
    BY <2>2 DEF ReaderOK
<1> QED
  BY <1>1, Invariant, PTL
=============================================================================
