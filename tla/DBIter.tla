------------------------------- MODULE DBIter -------------------------------
\* The iterator of a database (db_iter.cpp) over the merge (merger.cpp) of a
\* memtable that writers go on filling and of sorted runs that do not change.
\* A run is a set of entries: user key u, sequence number s and type t. A
\* sequence number belongs to one entry and stands for its value too.
EXTENDS Naturals, FiniteSets

CONSTANTS
    NULL,
    Keys,               \* user keys
    Runs,               \* iterators merged; number 1 is the memtable's
    Loaded,             \* entries when the iterator is made
    MaxSequence         \* bound: sequence numbers

VARIABLES
    runs,               \* the entries each merged iterator runs over
    sequence,           \* sequence_: the snapshot the iterator shows
    iter,               \* the DBIter and the MergingIterator below it
    call                \* the last call of the client

vars == <<runs, sequence, iter, call>>

Types == {"value", "deletion", "damaged"}
Number == 1..Runs

\* InternalKeyComparator::Compare: by user key, the newer entry first.
Before(a, b) == a.u < b.u \/ (a.u = b.u /\ a.s > b.s)

First(S) == IF S = {} THEN NULL ELSE CHOOSE e \in S : \A f \in S : ~Before(f, e)
Last(S) == IF S = {} THEN NULL ELSE CHOOSE e \in S : \A f \in S : ~Before(e, f)

\* A merged iterator stands on an entry, or is not valid (NULL). The memtable's
\* holds a node of the skip list: what is inserted around it does not move it.
LeafSeek(i, e) == First({f \in runs[i] : ~Before(f, e)})
LeafNext(i, e) == First({f \in runs[i] : Before(e, f)})
LeafPrev(i, e) == Last({f \in runs[i] : Before(f, e)})

-----------------------------------------------------------------------------
\* MergingIterator: pos[i] is where child i stands, cur the child whose entry
\* is the current one (0 when there is none), dir the direction.

FindSmallest(pos) ==
    LET Valid == {i \in Number : pos[i] # NULL}
    IN  IF Valid = {} THEN 0 ELSE CHOOSE i \in Valid : \A j \in Valid : ~Before(pos[j], pos[i])
FindLargest(pos) ==
    LET Valid == {i \in Number : pos[i] # NULL}
    IN  IF Valid = {} THEN 0 ELSE CHOOSE i \in Valid : \A j \in Valid : ~Before(pos[i], pos[j])

Forward(pos) == [pos |-> pos, cur |-> FindSmallest(pos), dir |-> "forward"]
Reverse(pos) == [pos |-> pos, cur |-> FindLargest(pos), dir |-> "reverse"]

Valid(m) == m.cur # 0
Entry(m) == m.pos[m.cur]

MergeSeekToFirst == Forward([i \in Number |-> First(runs[i])])
MergeSeekToLast == Reverse([i \in Number |-> Last(runs[i])])
MergeSeek(e) == Forward([i \in Number |-> LeafSeek(i, e)])

FaultMergeNext(m) == Forward([m.pos EXCEPT ![m.cur] = LeafNext(m.cur, @)])

\* The other children come to stand after the current entry.
MergeNext(m) ==
    LET After(i) ==
            LET at == LeafSeek(i, Entry(m))
            IN  IF at = Entry(m) THEN LeafNext(i, at) ELSE at
        Turned == [i \in Number |->
            IF m.dir = "forward" \/ i = m.cur THEN m.pos[i] ELSE After(i)]
    IN  Forward([Turned EXCEPT ![m.cur] = LeafNext(m.cur, @)])

\* The other children come to stand before it: the last one of a child that has
\* nothing at or after it.
MergePrev(m) ==
    LET Ahead(i) ==
            LET at == LeafSeek(i, Entry(m))
            IN  IF at # NULL THEN LeafPrev(i, at) ELSE Last(runs[i])
        Turned == [i \in Number |->
            IF m.dir = "reverse" \/ i = m.cur THEN m.pos[i] ELSE Ahead(i)]
    IN  Reverse([Turned EXCEPT ![m.cur] = LeafPrev(m.cur, @)])

-----------------------------------------------------------------------------
\* DBIter: m is its iter_, sk and sv are saved_key_ and saved_value_.

\* ParseKey accepts the entry and the snapshot sees it.
Readable(e) == e.t # "damaged" /\ e.s <= sequence
Noted(d) == IF Entry(d.m).t = "damaged" THEN [d EXCEPT !.status = "corrupt"] ELSE d

RECURSIVE FindNextUserEntry(_, _)
FindNextUserEntry(d, skipping) ==
    LET e == Entry(d.m)
        Deleted == Readable(e) /\ e.t = "deletion"
        Hidden == skipping /\ e.u <= d.sk
        Moved == [Noted(d) EXCEPT !.m = MergeNext(d.m), !.sk = IF Deleted THEN e.u ELSE @]
    IN  IF Readable(e) /\ ~Deleted /\ ~Hidden
        THEN [d EXCEPT !.valid = TRUE, !.sk = NULL]
        ELSE IF Valid(Moved.m)
        THEN FindNextUserEntry(Moved, skipping \/ Deleted)
        ELSE [Moved EXCEPT !.valid = FALSE, !.sk = NULL]

\* type is the type of the entry seen last.
RECURSIVE ScanBack(_, _)
ScanBack(d, type) ==
    IF ~Valid(d.m) THEN [d |-> d, type |-> type]
    ELSE LET e == Entry(d.m)
             Back == [Noted(d) EXCEPT !.m = MergePrev(d.m)]
         IN  IF ~Readable(e) THEN ScanBack(Back, type)
             ELSE IF type # "deletion" /\ e.u < d.sk THEN [d |-> d, type |-> type]
             ELSE IF e.t = "deletion"
             THEN ScanBack([Back EXCEPT !.sk = NULL, !.sv = NULL], "deletion")
             ELSE ScanBack([Back EXCEPT !.sk = e.u, !.sv = e.s], "value")

FindPrevUserEntry(d) ==
    LET found == ScanBack(d, "deletion")
    IN  IF found.type = "deletion"
        THEN [found.d EXCEPT !.valid = FALSE, !.sk = NULL, !.sv = NULL, !.dir = "forward"]
        ELSE [found.d EXCEPT !.valid = TRUE]

\* The switch of Prev: back over every entry of the key shown.
RECURSIVE BackOver(_, _)
BackOver(m, u) == IF Valid(m) /\ Entry(m).u >= u THEN BackOver(MergePrev(m), u) ELSE m

-----------------------------------------------------------------------------
At(d) ==
    CASE ~d.valid            -> NULL
      [] d.dir = "forward"   -> [key |-> Entry(d.m).u, value |-> Entry(d.m).s]
      [] OTHER               -> [key |-> d.sk, value |-> d.sv]

Assigned == [1..Loaded -> Keys \X Types \X Number]
\* A newer entry of a key is never in an older run.
Layered(a) ==
    \A s, r \in 1..Loaded : s < r /\ a[s][1] = a[r][1] => a[s][3] >= a[r][3]

Init ==
    /\ \E a \in Assigned :
        /\ Layered(a)
        /\ runs = [i \in Number |->
            {[u |-> a[s][1], s |-> s, t |-> a[s][2]] : s \in {s \in 1..Loaded : a[s][3] = i}}]
    /\ sequence \in 0..Loaded
    /\ iter = [m |-> [pos |-> [i \in Number |-> NULL], cur |-> 0, dir |-> "forward"],
               dir |-> "forward", valid |-> FALSE, sk |-> NULL, sv |-> NULL, status |-> "ok"]
    /\ call = <<"new">>

SeekToFirst ==
    /\ LET d == [iter EXCEPT !.dir = "forward", !.sv = NULL, !.m = MergeSeekToFirst]
       IN  iter' = IF Valid(d.m) THEN FindNextUserEntry(d, FALSE) ELSE [d EXCEPT !.valid = FALSE]
    /\ call' = <<"first">>
    /\ UNCHANGED <<runs, sequence>>

SeekToLast ==
    /\ iter' = FindPrevUserEntry(
                   [iter EXCEPT !.dir = "reverse", !.sv = NULL, !.m = MergeSeekToLast])
    /\ call' = <<"last">>
    /\ UNCHANGED <<runs, sequence>>

\* saved_key_ holds the encoded target, which nothing compares with.
Seek(u) ==
    /\ LET d == [iter EXCEPT !.dir = "forward", !.sk = NULL, !.sv = NULL,
                             !.m = MergeSeek([u |-> u, s |-> sequence])]
       IN  iter' = IF Valid(d.m) THEN FindNextUserEntry(d, FALSE) ELSE [d EXCEPT !.valid = FALSE]
    /\ call' = <<"seek", u>>
    /\ UNCHANGED <<runs, sequence>>

\* In reverse iter_ stands before the entries of the key shown, or nowhere.
NextOf(d) ==
    LET m == IF d.dir = "forward" THEN d.m
             ELSE IF Valid(d.m) THEN MergeNext(d.m) ELSE MergeSeekToFirst
        moved == [d EXCEPT !.m = m, !.dir = "forward",
                           !.sk = IF d.dir = "forward" THEN Entry(m).u ELSE @]
    IN  IF Valid(m) THEN FindNextUserEntry(moved, TRUE)
        ELSE [moved EXCEPT !.valid = FALSE, !.sk = NULL]

MoveNext ==
    /\ iter.valid
    /\ iter' = NextOf(iter)
    /\ call' = <<"next">>
    /\ UNCHANGED <<runs, sequence>>

PrevOf(d) ==
    LET u == Entry(d.m).u
        m == BackOver(MergePrev(d.m), u)
    IN  IF d.dir = "reverse" THEN FindPrevUserEntry(d)
        ELSE IF Valid(m) THEN FindPrevUserEntry([d EXCEPT !.m = m, !.sk = u, !.dir = "reverse"])
        ELSE [d EXCEPT !.m = m, !.valid = FALSE, !.sk = NULL, !.sv = NULL]

MovePrev ==
    /\ iter.valid
    /\ iter' = PrevOf(iter)
    /\ call' = <<"prev">>
    /\ UNCHANGED <<runs, sequence>>

\* A writer adds to the memtable while the iterator is in use.
MemTableAdd(u, t) ==
    /\ LET s == Cardinality(UNION {runs[i] : i \in Number}) + 1
       IN  /\ s <= MaxSequence
           /\ runs' = [runs EXCEPT ![1] = @ \cup {[u |-> u, s |-> s, t |-> t]}]
    /\ UNCHANGED <<sequence, iter, call>>

Next ==
    \/ SeekToFirst
    \/ SeekToLast
    \/ \E u \in Keys : Seek(u)
    \/ MoveNext
    \/ MovePrev
    \/ \E u \in Keys, t \in Types \ {"damaged"} : MemTableAdd(u, t)

Spec == Init /\ [][Next]_vars

-----------------------------------------------------------------------------
\* What a reader with this snapshot sees: of each key the newest entry that is
\* not newer than the snapshot and not damaged, unless it is a deletion.
Versions(u) == {e \in UNION {runs[i] : i \in Number} : e.u = u /\ Readable(e)}
View ==
    LET Seen == {u \in Keys : \E e \in Versions(u) :
                    e.t = "value" /\ \A f \in Versions(u) : f.s <= e.s}
    IN  [u \in Seen |-> (CHOOSE e \in Versions(u) : \A f \in Versions(u) : f.s <= e.s).s]

C == INSTANCE Cursor WITH
        Targets <- Keys, Before <- LAMBDA a, b : a < b, view <- View, at <- At(iter)

\* DBIter implements the cursor over the snapshot: Seek, Next and Prev in any
\* order, over hidden versions and deletions, with turns of direction in every
\* place and with writers adding to the memtable between any two calls.
CursorSpec == C!Spec

\* The same for one step.
CursorStep == [C!Next]_(C!cvars)
=============================================================================
