------------------------------ MODULE KvIndex ------------------------------
(***************************************************************************)
(* The index of a KvDB table: SMDIndex (a B tree) and SMDIndexBp (a B+     *)
(* tree) built in memory by insertKeyOffset, saved node by node to a page  *)
(* file, and searched there after the table is opened again.               *)
(*                                                                         *)
(* A key is a pair <<start, end>>: PairKey_t, or a point whose ends are    *)
(* equal.  A tree is a heap of nodes with the code's pointers (left        *)
(* subtree of each key, right subtree, parent), because the pointers are   *)
(* what a split can get wrong.  The code is sequential and every method    *)
(* is one action.                                                          *)
(***************************************************************************)
EXTENDS Integers, Sequences, SequencesExt, FiniteSets, FiniteSetsExt, Functions

CONSTANTS
    Points,    \* int keys that callers insert
    Pairs,     \* PairKey_t keys that callers insert
    MaxKey,    \* m_nMaxKey
    PageSpace, \* bytes of a page behind its head
    MinUnit    \* minUint of the page file

VARIABLES
    bp,      \* the index is a B+ tree
    tree,    \* the nodes, the root pointer and m_vecAllNodeP
    truth,   \* the keys whose insertion returned true, with their offsets
    entry,   \* the entry of m_mapIndexTableInfo
    disk,    \* nodes of the index page file, by offset
    saved,   \* the entry that the page file "smd_index" holds
    result,  \* what save() returned: "none", "true" or "false"
    cached   \* the page cache knows the pages: the file existed at open

ivars == <<bp, tree, truth, entry, disk, saved, result, cached>>

Nil == 0
Invalid == -1     \* SMD_INVALIDINDEX_RETURN, offsets are not negative

-----------------------------------------------------------------------------
(* Keys and nodes *)

\* PairKey_t::operator<: both ends are smaller.
Less(a, b) == a[1] < b[1] /\ a[2] < b[2]

\* BT_Key_t and BT_Node_t
BTKey(k, off) == [key |-> k, off |-> off, left |-> Nil]
BTNode(leaf, parent) ==
    [keys |-> <<>>, leaf |-> leaf, parent |-> parent, right |-> Nil, at |-> Invalid]

\* SMDIndexBp keeps the data offset where a subtree offset would be.
BpKey(k, off) == BTKey(k, off)
BpNode(leaf, parent) == BTNode(leaf, parent)

EmptyTree == [node |-> <<>>, root |-> Nil, all |-> {}, ok |-> TRUE]

\* equal_range: how many keys are smaller, and how many are equivalent.
Before(keys, k) == Cardinality({i \in DOMAIN keys : Less(keys[i].key, k)})
Equal(keys, k) ==
    Cardinality({i \in DOMAIN keys :
                    ~Less(keys[i].key, k) /\ ~Less(k, keys[i].key)})

\* The subtree that lies before the key with number i + 1.
Child(node, i) == IF i < Len(node.keys) THEN node.keys[i + 1].left ELSE node.right

Children(node) == {node.keys[i].left : i \in DOMAIN node.keys} \cup {node.right}

-----------------------------------------------------------------------------
(* Insertion *)

RECURSIVE FindInsertNode(_, _, _)
\* The leaf for a new key, Nil when an equivalent key is met on the way.
FindInsertNode(t, n, k) ==
    LET node == t.node[n]
    IN  IF Equal(node.keys, k) # 0 THEN Nil
        ELSE IF node.leaf THEN n
        ELSE FindInsertNode(t, Child(node, Before(node.keys, k)), k)

BpFindInsertNode(t, k) == FindInsertNode(t, t.root, k)

\* Fault: a new node on the right always becomes the last child.
FaultConnectLast(t, n, r) == [t EXCEPT !.node[t.node[n].parent].right = r]

\* The new right half takes the place of the node in its parent.
ConnectRightNode(t, n, r) ==
    LET p == t.node[n].parent
        at == {i \in DOMAIN t.node[p].keys : t.node[p].keys[i].left = n}
    IN  IF t.node[p].right \in {n, Nil} THEN [t EXCEPT !.node[p].right = r]
        ELSE IF at # {} THEN [t EXCEPT !.node[p].keys[Min(at)].left = r]
        ELSE [t EXCEPT !.ok = FALSE]

BpConnectRightNode(t, n, r) == ConnectRightNode(t, n, r)

\* push_back and sort: keys of one node are pairwise comparable.
Sorted(keys, new) ==
    LET i == Before(keys, new.key) IN InsertAt(keys, i + 1, new)

\* A root that overflows gets a new root above it.
NewRoot(t, n) ==
    LET r == Len(t.node) + 1
    IN  IF t.node[n].parent # Nil THEN t
        ELSE [t EXCEPT !.node = Append([@ EXCEPT ![n].parent = r], BTNode(FALSE, Nil)),
                       !.root = r, !.all = @ \cup {r}]

\* The first key of the right half.  A leaf of a B+ tree keeps the middle.
RightFrom(plus, leaf, mid) == IF plus /\ leaf THEN mid ELSE mid + 1

\* Children follow the keys: those of the halves get a new parent.
Adopt(nodes, left, right) ==
    [c \in DOMAIN nodes |->
        CASE c \in Children(left) -> [nodes[c] EXCEPT !.parent = Len(nodes) + 1]
          [] c \in Children(right) -> [nodes[c] EXCEPT !.parent = Len(nodes) + 2]
          [] OTHER -> nodes[c]]

\* The two halves of an overfull node, behind the nodes there are.
Halves(plus, t, n) ==
    LET node == t.node[n]
        mid  == (Len(node.keys) \div 2) + 1
        left == [BTNode(node.leaf, node.parent) EXCEPT
                    !.keys = SubSeq(node.keys, 1, mid - 1),
                    !.right = IF node.leaf THEN Nil ELSE node.keys[mid].left]
        right == [BTNode(node.leaf, node.parent) EXCEPT
                    !.keys = SubSeq(node.keys, RightFrom(plus, node.leaf, mid), Len(node.keys)),
                    !.right = IF node.leaf THEN Nil ELSE node.right]
    IN  [t EXCEPT !.node = Adopt(@, left, right) \o <<left, right>>]

\* One overfull node: a root gets a parent, the halves replace the node, the
\* middle key goes to the parent, and the node is freed.
Split(plus, t, n) ==
    LET up  == NewRoot(t, n)
        l   == Len(up.node) + 1
        p   == up.node[n].parent
        two == IF plus THEN BpConnectRightNode(Halves(plus, up, n), n, l + 1)
               ELSE ConnectRightNode(Halves(plus, up, n), n, l + 1)
        mid == [t.node[n].keys[(Len(t.node[n].keys) \div 2) + 1] EXCEPT !.left = l]
    IN  IF ~two.ok THEN [tree |-> two, at |-> Nil]
        ELSE [tree |-> [two EXCEPT !.node[p].keys = Sorted(@, mid),
                                   !.all = (@ \ {n}) \cup {l, l + 1}],
              at |-> p]

RECURSIVE Settle(_, _)
\* The calls of InsertAt up the tree.
Settle(plus, s) ==
    IF s.at = Nil \/ Len(s.tree.node[s.at].keys) <= MaxKey THEN s.tree
    ELSE Settle(plus, Split(plus, s.tree, s.at))

\* InsertAt
Insert(plus, t, n, new) ==
    Settle(plus, [tree |-> [t EXCEPT !.node[n].keys = Sorted(@, new)], at |-> n])

BTInsertAt(t, n, new) == Insert(FALSE, t, n, new)
BpInsertAt(t, n, new) == Insert(TRUE, t, n, new)

\* InsertNode on an empty tree
FirstNode(new) ==
    [node |-> <<[BTNode(TRUE, Nil) EXCEPT !.keys = <<new>>]>>,
     root |-> 1, all |-> {1}, ok |-> TRUE]

\* InsertNode of SMDIndex: the new tree, the old one for a refused key.
BTInsertNode(t, new) ==
    IF t.root = Nil THEN FirstNode(new)
    ELSE LET n == FindInsertNode(t, t.root, new.key)
         IN  IF n = Nil THEN t ELSE BTInsertAt(t, n, new)

BpInsertNode(t, new) ==
    IF t.root = Nil THEN FirstNode(new)
    ELSE LET n == BpFindInsertNode(t, new.key)
         IN  IF n = Nil THEN t ELSE BpInsertAt(t, n, new)

-----------------------------------------------------------------------------
(* Saving: nodes are put level by level, twice *)

\* Bytes that put() needs: length word, key count, keys, right subtree and,
\* in a B+ tree, the leaf flag.  A pair key has two ints.
NodeSize(plus, node) ==
    LET key == IF \E i \in DOMAIN node.keys : node.keys[i].key \in Pairs THEN 8 ELSE 4
    IN  4 + 4 + (Len(node.keys) * (key + (IF plus THEN 4 ELSE 8)))
          + 4 + (IF plus THEN 1 ELSE 0)

\* SMDPageFile::put(stream): where the stream starts and where it ends when
\* the file is filled up to `end`.  A rest shorter than minUint is skipped,
\* a longer one is filled and the stream goes on in the next page.
PutStream(end, size) ==
    LET rest  == PageSpace - (end % PageSpace)
        start == IF end % PageSpace # 0 /\ rest < MinUnit THEN end + rest ELSE end
    IN  [start |-> start, end |-> start + size]

PageOf(off) == off \div PageSpace

\* The page that is in memory after a stream that ends at `end`.
LastPage(end) == PageOf(end - 1)

NextLevel(t, level) ==
    FlattenSeq([i \in DOMAIN level |->
        LET node == t.node[level[i]]
        IN  [j \in 1..Len(node.keys) |-> node.keys[j].left] \o <<node.right>>])

RECURSIVE Levels(_, _)
\* The nodes in the order saveLevNode meets them.
Levels(t, level) ==
    LET next == SelectSeq(NextLevel(t, level), LAMBDA n : n # Nil)
    IN  IF level = <<>> THEN <<>> ELSE level \o Levels(t, next)

\* What saveOneNode writes: child pointers become the offsets that the
\* children have at that moment.
Image(at, node) ==
    [keys  |-> [i \in DOMAIN node.keys |->
                   [key |-> node.keys[i].key, off |-> node.keys[i].off,
                    left |-> IF node.keys[i].left = Nil THEN Invalid
                             ELSE at[node.keys[i].left]]],
     right |-> IF node.right = Nil THEN Invalid ELSE at[node.right],
     leaf  |-> node.leaf]

BpImage(at, node) == Image(at, node)

\* First pass: every node is appended and learns its offset.
FirstPass(plus, t, order) ==
    FoldLeft(LAMBDA s, n :
                LET p == PutStream(s.end, NodeSize(plus, t.node[n]))
                IN  [at |-> s.at @@ (n :> p.start), end |-> p.end],
             [at |-> <<>>, end |-> 0], order)

\* The second pass puts every node at its offset again.  The page cache
\* knows no page of a file that is being created, so that a page can be
\* written again only while it is the one in memory.
Rewritable(first, order) ==
    \A i \in DOMAIN order : PageOf(first.at[order[i]]) = LastPage(first.end)

\* Fault: one pass, children are not yet placed when their parent is put.
FaultSaveOnce(plus, t) ==
    LET order == Levels(t, <<t.root>>)
        first == FirstPass(plus, t, order)
        early == [n \in DOMAIN first.at |-> Invalid]
    IN  [ok |-> TRUE, disk |-> [o \in Range(first.at) |->
            Image(early, t.node[CHOOSE n \in DOMAIN first.at : first.at[n] = o])]]

\* saveIndex.  The root is the first node of both passes: where it cannot
\* be put again, the second pass ends before it wrote anything.
SaveIndex(plus, t) ==
    LET order == Levels(t, <<t.root>>)
        first == FirstPass(plus, t, order)
        ok    == Rewritable(first, order)
        known == [n \in DOMAIN first.at |-> IF ok THEN first.at[n] ELSE Invalid]
    IN  [ok   |-> ok,
         disk |-> [o \in Range(first.at) |->
            LET node == t.node[CHOOSE n \in DOMAIN first.at : first.at[n] = o]
            IN  IF plus THEN BpImage(known, node) ELSE Image(known, node)]]

BTSaveIndex(t) == SaveIndex(FALSE, t)
BpSaveIndex(t) == SaveIndex(TRUE, t)

-----------------------------------------------------------------------------
(* Searching *)

RECURSIVE SearchKey(_, _, _)
\* SMDIndex::SearchKey, in memory.  (SMDIndexBp's does not compile.)
SearchKey(t, n, k) ==
    LET node == t.node[n]
        i    == Before(node.keys, k)
    IN  IF Equal(node.keys, k) = 1 THEN node.keys[i + 1].off
        ELSE IF Equal(node.keys, k) > 1 \/ Child(node, i) = Nil THEN Invalid
        ELSE SearchKey(t, Child(node, i), k)

RECURSIVE BTSearchFromFile(_, _)
BTSearchFromFile(k, off) ==
    LET node == disk[off]
        i    == Before(node.keys, k)
    IN  IF off \notin DOMAIN disk THEN Invalid
        ELSE IF Equal(node.keys, k) = 1 THEN node.keys[i + 1].off
        ELSE IF Equal(node.keys, k) > 1 \/ Child(node, i) = Invalid THEN Invalid
        ELSE BTSearchFromFile(k, Child(node, i))

RECURSIVE BpSearchFromFile(_, _)
\* An equivalent key of an inner node sends the search to its right.
BpSearchFromFile(k, off) ==
    LET node == disk[off]
        i    == Before(node.keys, k)
    IN  IF off \notin DOMAIN disk THEN Invalid
        ELSE CASE Equal(node.keys, k) > 1 -> Invalid
               [] node.leaf -> IF Equal(node.keys, k) = 1 THEN node.keys[i + 1].off
                               ELSE Invalid
               [] OTHER -> BpSearchFromFile(k, Child(node, i + Equal(node.keys, k)))

\* SMDIndexSegment::searchFromFile.  A page that the cache does not know
\* cannot be read, and readNodeFromFile returns false.
SearchFromFile(k) ==
    IF ~entry.known \/ ~cached THEN Invalid
    ELSE IF bp THEN BpSearchFromFile(k, entry.off) ELSE BTSearchFromFile(k, entry.off)

-----------------------------------------------------------------------------
(* SMDIndexSegment *)

NoEntry == [known |-> FALSE, mem |-> FALSE, off |-> Invalid, key |-> "NULL"]

\* typeid names as gcc gives them: only PairKey_t is recognised.
KeyType(keys) == IF keys \cap Pairs # {} THEN "PAIR" ELSE "NULL"
BpKeyType(keys) == KeyType(keys)

Init ==
    /\ bp \in BOOLEAN
    /\ tree = EmptyTree /\ truth = <<>> /\ disk = <<>>
    /\ entry = NoEntry /\ saved = NoEntry /\ result = "none" /\ cached = FALSE

\* Keys are inserted before saveAllIndex deletes the tree ("save all index
\* to file when insert all record"): later pIndexBase is NULL.  The keys of
\* one index have one type.
MayInsert(k) ==
    /\ entry.known => entry.mem
    /\ result = "none"
    /\ DOMAIN truth = {} \/ (k \in Pairs) = (DOMAIN truth \subseteq Pairs)

\* The index is created with its first key.
InsertInto(t, k, off) ==
    /\ tree' = t
    /\ truth' = IF t # tree THEN truth @@ (k :> off) ELSE truth
    /\ entry' = [entry EXCEPT !.known = TRUE, !.mem = TRUE]
    /\ UNCHANGED <<bp, disk, saved, result, cached>>

InsertKeyOffsetBTree(k, off) ==
    ~bp /\ MayInsert(k) /\ InsertInto(BTInsertNode(tree, BTKey(k, off)), k, off)

InsertKeyOffsetBPTree(k, off) ==
    bp /\ MayInsert(k) /\ InsertInto(BpInsertNode(tree, BpKey(k, off)), k, off)

\* saveAllIndex deletes the tree whether it was saved or not.
SaveAllIndex(res) ==
    /\ disk' = res.disk
    /\ tree' = EmptyTree
    /\ entry' = [known |-> TRUE, mem |-> FALSE, off |-> 0,
                 key |-> IF bp THEN BpKeyType(DOMAIN truth) ELSE KeyType(DOMAIN truth)]

\* save: the entries are written only when every index was saved.
Save ==
    /\ entry.mem
    /\ \E res \in {IF bp THEN BpSaveIndex(tree) ELSE BTSaveIndex(tree)} :
        /\ SaveAllIndex(res)
        /\ saved' = IF res.ok THEN entry' ELSE saved
        /\ result' = IF res.ok THEN "true" ELSE "false"
    /\ UNCHANGED <<bp, truth, cached>>

\* The table is closed (clearAll) and opened again (read).
Reopen ==
    /\ ~cached
    /\ result # "none"
    /\ entry' = saved /\ cached' = TRUE
    /\ UNCHANGED <<bp, tree, truth, disk, saved, result>>

Next ==
    \/ \E k \in Points \cup Pairs :
         \/ InsertKeyOffsetBTree(k, Cardinality(DOMAIN truth))
         \/ InsertKeyOffsetBPTree(k, Cardinality(DOMAIN truth))
    \/ Save
    \/ Reopen

-----------------------------------------------------------------------------
(* Properties *)

Probes == 0..(Max({k[2] : k \in Points \cup Pairs}) + 1)

Covering(p) == {k \in DOMAIN truth : k[1] <= p /\ p <= k[2]}

\* `found` is right for p: nothing for a key that no entry covers, the data
\* offset of the only entry that covers it; where entries overlap, one of
\* theirs or nothing.
Right(p, found) ==
    /\ found \in {truth[k] : k \in Covering(p)} \cup {Invalid}
    /\ Cardinality(Covering(p)) = 1 => found # Invalid

\* An index finds every key that was inserted and no other: in memory while
\* the B tree is built, and in the file once the table is opened again.  An
\* index that could not be saved is not there, rather than wrong
\* (insertKeyOffset, saveIndex, searchFromMem, searchFromFile).
SearchExact ==
    /\ (~bp /\ tree.root # Nil) =>
         \A p \in Probes : Right(p, SearchKey(tree, tree.root, <<p, p>>))
    /\ (cached /\ result = "true") => \A p \in Probes : Right(p, SearchFromFile(<<p, p>>))
    /\ (cached /\ result = "false") => \A p \in Probes : SearchFromFile(<<p, p>>) = Invalid

RECURSIVE Depths(_, _)
\* Depths of the leaves under a node
Depths(t, n) ==
    IF t.node[n].leaf THEN {0}
    ELSE {d + 1 : d \in UNION {Depths(t, c) : c \in Children(t.node[n])}}

\* After every insertion the nodes form a balanced search tree: parents and
\* children point at each other, no node is over its size or without keys,
\* all leaves are at one depth, and the nodes that the destructor will free
\* are exactly those of the tree (InsertAt, ConnectRightNode).
TreeSound ==
    tree.root = Nil \/
    LET live == Range(Levels(tree, <<tree.root>>))
        node == tree.node
    IN  /\ tree.ok /\ tree.all = live
        /\ Len(Levels(tree, <<tree.root>>)) = Cardinality(live)
        /\ node[tree.root].parent = Nil
        /\ Cardinality(Depths(tree, tree.root)) = 1
        /\ \A n \in live :
             /\ Len(node[n].keys) \in 1..MaxKey
             /\ \A i \in 1..(Len(node[n].keys) - 1) :
                    Less(node[n].keys[i].key, node[n].keys[i + 1].key)
             /\ ~node[n].leaf => \A c \in Children(node[n]) : c # Nil /\ node[c].parent = n
=============================================================================
