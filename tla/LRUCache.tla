----------------------------- MODULE LRUCache -----------------------------
(***************************************************************************)
(* One shard of the LRU cache: the list ordered by use, the hash table     *)
(* with its chains, and the reference counts shared by the cache and by    *)
(* the holders of handles.  Every operation runs under the mutex of the    *)
(* shard and is one action.                                                *)
(*                                                                         *)
(* An entry is a record with the number of its Insert, its key and its     *)
(* charge.  refs = 0: the deleter ran and the memory was freed.            *)
(***************************************************************************)
EXTENDS Naturals, Sequences, SequencesExt, FiniteSets, FiniteSetsExt

CONSTANTS
    Key,
    HashOf,         \* hash of a key
    Charge,         \* charges that callers pass
    Capacity,       \* capacity_
    kInitialLength, \* buckets of an empty HandleTable
    MaxEntries,     \* bound: calls of Insert
    MaxHandles      \* bound: handles of one entry that are out at a time

ASSUME CacheAssumption ==
    /\ HashOf \in [Key -> Nat] /\ Charge \subseteq Nat /\ Capacity \in Nat
    /\ kInitialLength \in Nat \ {0} /\ MaxEntries \in Nat /\ MaxHandles \in Nat

VARIABLES
    refs,    \* reference count of every entry inserted so far
    handles, \* handles of each entry that callers have not released
    lru,     \* the list, oldest first
    list,    \* the buckets of the hash table, each a chain
    elems,   \* elems_
    usage,   \* usage_
    gone     \* the cache has been destroyed

vars == <<refs, handles, lru, list, elems, usage, gone>>

Entry == DOMAIN refs

-----------------------------------------------------------------------------
(* HandleTable *)

Bucket(k, buckets) == (HashOf[k] % Len(buckets)) + 1

\* The entry FindPointer stops at, as a set with at most one element.
Lookup(k) ==
    LET chain == SelectSeq(list[Bucket(k, list)], LAMBDA e : e.key = k)
    IN  IF chain = <<>> THEN {} ELSE {Head(chain)}

\* The smallest doubling of the initial length that is not below n.
NewLength(n) == Min({kInitialLength * 2^j : j \in 0..n} \ 0..(n - 1))

\* Fault: the chains are kept and only the array grows.
FaultResizeKeeps(buckets, length) ==
    [b \in 1..length |-> IF b \in DOMAIN buckets THEN buckets[b] ELSE <<>>]

\* Every entry goes to the front of its new chain.
Resize(buckets, length) ==
    [b \in 1..length |->
        Reverse(SelectSeq(FlattenSeq(buckets),
                          LAMBDA e : (HashOf[e.key] % length) + 1 = b))]

\* Fault: the new entry is always chained last.
FaultLinkLast(e, old) == [list EXCEPT ![Bucket(e.key, list)] = Append(@, e)]

\* e takes the place of the old entry with its key, or the end of the chain.
Link(e, old) ==
    [list EXCEPT ![Bucket(e.key, list)] =
        IF old = {} THEN Append(@, e)
        ELSE LET chain == @ IN [i \in DOMAIN chain |-> IF chain[i] \in old THEN e ELSE chain[i]]]

TableInsert(e, old) ==
    IF old = {} /\ elems + 1 > Len(list) THEN Resize(Link(e, old), NewLength(elems + 1))
    ELSE Link(e, old)

TableRemove(buckets, S) ==
    LET keys == {e.key : e \in S}
    IN  [b \in DOMAIN buckets |-> SelectSeq(buckets[b], LAMBDA e : e.key \notin keys)]

-----------------------------------------------------------------------------
(* LRUCache *)

Without(s, S) == SelectSeq(s, LAMBDA e : e \notin S)

\* Unref of every entry of S.
Unref(rs, S) == [e \in DOMAIN rs |-> IF e \in S THEN rs[e] - 1 ELSE rs[e]]

\* Fault: the charge is taken off as soon as one reference goes.
FaultFreedEarly(rs, S) == MapThenSumSet(LAMBDA e : e.charge, S)

\* What Unref of the entries of S takes off the usage.
Freed(rs, S) == MapThenSumSet(LAMBDA e : IF rs[e] = 1 THEN e.charge ELSE 0, S)

Init ==
    /\ refs = <<>> /\ handles = <<>> /\ lru = <<>>
    /\ list = [b \in 1..kInitialLength |-> <<>>] /\ elems = 0
    /\ usage = 0 /\ gone = FALSE

\* Fault: one entry is evicted, not as many as it takes.
FaultEvictedOne(s, rs, use) == IF use > Capacity /\ s # <<>> THEN {Head(s)} ELSE {}

\* The loop of Insert: the oldest entries go, held or not, until the usage fits
\* or the list is empty.
Evicted(s, rs, use) ==
    LET oldest(n) == {s[i] : i \in 1..n}
        fits(n)   == use <= Capacity + Freed(rs, oldest(n))
    IN  oldest(Min({Len(s)} \cup {n \in 0..Len(s) : fits(n)}))

Insert(k, c) ==
    LET e    == [n |-> Cardinality(Entry) + 1, key |-> k, charge |-> c]
        old  == Lookup(k)
        rs1  == [f \in Entry \cup {e} |-> IF f = e THEN 2 ELSE refs[f]]
        rs2  == Unref(rs1, old)
        use  == usage + c - Freed(rs1, old)
        lru1 == Append(Without(lru, old), e)
        out  == Evicted(lru1, rs2, use)
    IN  /\ ~gone /\ Cardinality(Entry) < MaxEntries
        /\ refs' = Unref(rs2, out)
        /\ lru' = Without(lru1, out)
        /\ list' = TableRemove(TableInsert(e, old), out)
        /\ elems' = elems + (IF old = {} THEN 1 ELSE 0) - Cardinality(out)
        /\ usage' = use - Freed(rs2, out)
        /\ handles' = [f \in Entry \cup {e} |-> IF f = e THEN 1 ELSE handles[f]]
        /\ UNCHANGED gone

\* Fault: the handle that Lookup returns is not counted.
FaultLookupHitUncounted(k) ==
    /\ ~gone
    /\ \E e \in Lookup(k) :
        /\ handles[e] < MaxHandles /\ handles' = [handles EXCEPT ![e] = @ + 1]
        /\ lru' = Append(Without(lru, {e}), e)
    /\ UNCHANGED <<refs, list, elems, usage, gone>>

\* Lookup that finds an entry; one that does not changes nothing.
LookupHit(k) ==
    /\ ~gone
    /\ \E e \in Lookup(k) :
        /\ handles[e] < MaxHandles
        /\ refs' = [refs EXCEPT ![e] = @ + 1] /\ handles' = [handles EXCEPT ![e] = @ + 1]
        /\ lru' = Append(Without(lru, {e}), e)
    /\ UNCHANGED <<list, elems, usage, gone>>

Release(e) ==
    /\ handles[e] > 0 /\ handles' = [handles EXCEPT ![e] = @ - 1]
    /\ usage' = usage - Freed(refs, {e}) /\ refs' = Unref(refs, {e})
    /\ UNCHANGED <<lru, list, elems, gone>>

\* Erase of one key and Prune take entries out of list and table.
Drop(S) ==
    /\ list' = TableRemove(list, S) /\ elems' = elems - Cardinality(S)
    /\ lru' = Without(lru, S)
    /\ usage' = usage - Freed(refs, S) /\ refs' = Unref(refs, S)
    /\ UNCHANGED <<handles, gone>>

Erase(k) == ~gone /\ Lookup(k) # {} /\ Drop(Lookup(k))

Prune ==
    /\ ~gone /\ \E e \in ToSet(lru) : refs[e] = 1
    /\ Drop({e \in ToSet(lru) : refs[e] = 1})

\* Fault: the destructor also unrefs entries that were evicted before.
FaultDestroyAll ==
    /\ ~gone /\ gone' = TRUE /\ \A e \in Entry : handles[e] = 0
    /\ refs' = [e \in Entry |-> refs[e] - 1]
    /\ usage' = usage - Freed(refs, Entry)
    /\ UNCHANGED <<handles, lru, list, elems>>

\* ~LRUCache: callers have released their handles ("Error if caller has an
\* unreleased handle").
Destroy ==
    /\ ~gone /\ gone' = TRUE /\ \A e \in Entry : handles[e] = 0
    /\ refs' = Unref(refs, ToSet(lru))
    /\ usage' = usage - Freed(refs, ToSet(lru))
    /\ UNCHANGED <<handles, lru, list, elems>>

Finished == gone /\ UNCHANGED vars

Next ==
    \/ \E k \in Key : \/ \E c \in Charge : Insert(k, c)
                      \/ LookupHit(k) \/ Erase(k)
    \/ \E e \in Entry : Release(e)
    \/ Prune \/ Destroy \/ Finished

Spec == Init /\ [][Next]_vars

-----------------------------------------------------------------------------
AnEntry == [n : 1..MaxEntries, key : Key, charge : Charge]

TypeOK ==
    /\ Entry \subseteq AnEntry /\ handles \in [Entry -> 0..MaxHandles]
    /\ refs \in [Entry -> 0..(MaxHandles + 1)]
    /\ lru \in Seq(Entry) /\ list \in Seq(Seq(Entry))
    /\ elems \in Nat /\ usage \in Nat /\ gone \in BOOLEAN

\* An entry has one reference of the cache while it is in the list and one for
\* each handle, so it is freed exactly when the last of them goes: never under a
\* caller that holds it, and never left over.
RefsExact ==
    \A e \in Entry :
        refs[e] = handles[e] + (IF e \in ToSet(lru) /\ ~gone THEN 1 ELSE 0)

\* usage_ is the charge of the entries that are not freed, evicted ones that are
\* still held included.
UsageExact ==
    usage = MapThenSumSet(LAMBDA e : e.charge, {e \in Entry : refs[e] > 0})

\* Only entries that callers hold can keep the cache above its capacity.
OverOnlyByHandles == usage > Capacity => lru = <<>>

\* List and table have the same entries, at most one of each key; every one of
\* them is found by its key, in the bucket its hash selects, also after a
\* Resize, and elems_ counts them (the assertion at the end of Resize).
TableAgrees ==
    LET chained == FlattenSeq(list)
    IN  /\ ToSet(chained) = ToSet(lru)
        /\ elems = Len(chained) /\ elems = Len(lru)
        /\ \A e \in ToSet(lru) : Lookup(e.key) = {e}

\* What Lookup finds is the last value inserted under the key: an older one that
\* was replaced never comes back.
NewestFound ==
    \A e, f \in Entry : (e \in Lookup(f.key)) => f.n <= e.n

=============================================================================
