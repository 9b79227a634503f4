----------------------------- MODULE VersionSet -----------------------------
(***************************************************************************)
(* The levels of tables behind a database: what VersionSet, Version,       *)
(* Compaction and VersionEdit do with them, and the part of DBImpl that    *)
(* turns memtables into tables and merges tables (WriteLevel0Table,        *)
(* BackgroundCompaction, DoCompactionWork).  Threads, locks and errors are *)
(* the subject of DBImpl.tla, files and crashes that of DBStore.tla.       *)
(*                                                                         *)
(* An entry is <<key, seq, kind>>.  A table is a set of entries and has    *)
(* their number as its size; its metadata names the smallest and the       *)
(* largest one.  The background thread is the only one that changes the    *)
(* levels; it may flush a memtable while a merge is under way.             *)
(*                                                                         *)
(* Every table has the number FILENUMBER_LDB, so all tables share one      *)
(* file: a new table overwrites the one before, whose metadata may stay in *)
(* the version.  Up to the second table the file is what the version says. *)
(* After that the model reads the last table wherever the version names    *)
(* one: what a process finds that still has the old table open, or that    *)
(* opens the new one with the size of the old, is left out (it may be an   *)
(* error; see DBImpl.tla for those).  So what is said of contents below    *)
(* stops at the second table; levels and ranges are exact all along.       *)
(***************************************************************************)
EXTENDS Integers, Sequences, SequencesExt, FiniteSets, FiniteSetsExt, Functions

CONSTANTS
    NumKeys,     \* user keys are 1..NumKeys
    NumLevels,   \* kNumLevels
    L0Trigger,   \* kL0_CompactionTrigger
    MaxMemLevel, \* kMaxMemCompactLevel
    LevelBytes,  \* MaxBytesForLevel, by level
    GrandBytes,  \* kMaxGrandParentOverlapBytes
    ExpandBytes, \* kExpandedCompactionByteSizeLimit
    FileBytes,   \* kTargetFileSize
    Ranges,      \* <<level, begin, end>> of manual compactions
    MaxSeq,      \* bound: writes
    MaxSnaps,    \* bound: snapshots at the same time
    MaxOpen      \* bound: times the database is opened again

VARIABLES
    lastSeq,  \* last_sequence_
    mem, imm, \* memtables
    snaps,    \* numbers of the snapshots
    ldb,      \* the entries of the table file
    built,    \* tables begun in it so far: 0, 1 or 2 for more
    files,    \* files_ of the current version, by level
    pointer,  \* compact_pointer_, by level
    victim,   \* file_to_compact_ and its level, as a set with at most one
    manifest, \* the records of the descriptor
    job,      \* the merge that is under way, as a set with at most one
    opened    \* times the database was opened again

vvars == <<lastSeq, mem, imm, snaps, ldb, built, files, pointer, victim, manifest, job,
           opened>>

Key == 1..NumKeys
None == 0
Level == 0..(NumLevels - 1)
NoKey == <<0, 0>>      \* an empty internal key

\* The number of every table.
FILENUMBER_LDB == 0

-----------------------------------------------------------------------------
(* Internal keys and tables *)

\* InternalKeyComparator: the user key, then the newest entry first.
Less(a, b) == a[1] < b[1] \/ (a[1] = b[1] /\ a[2] > b[2])
Leq(a, b) == a[1] < b[1] \/ (a[1] = b[1] /\ a[2] >= b[2])

IKey(e) == <<e[1], e[2]>>

\* A set as a sequence in the order of lt.
Sorted(S, lt(_, _)) ==
    [i \in 1..Cardinality(S) |->
        CHOOSE x \in S : Cardinality({y \in S : lt(y, x)}) = i - 1]

\* BuildTable: smallest and largest key of a table.
FileMetaData(E) ==
    [no |-> FILENUMBER_LDB,
     small |-> IKey(CHOOSE e \in E : \A x \in E : Leq(e, x)),
     large |-> IKey(CHOOSE e \in E : \A x \in E : Leq(x, e)),
     size |-> Cardinality(E)]

TotalFileSize(fs) == MapThenSumSet(LAMBDA i : fs[i].size, DOMAIN fs)

\* FindFile: the first file whose largest key is not before the key, by
\* binary search.
RECURSIVE Bisect(_, _, _, _)
Bisect(fs, key, left, right) ==
    LET mid == (left + right) \div 2
    IN  IF left >= right THEN right
        ELSE IF Less(fs[mid + 1].large, key) THEN Bisect(fs, key, mid + 1, right)
        ELSE Bisect(fs, key, left, mid)

FindFile(fs, key) == Bisect(fs, key, 0, Len(fs)) + 1

-----------------------------------------------------------------------------
(* Reading a version *)

\* The newest entry of a set for a key at a snapshot, as a set with at most
\* one.
Newest(E, k, s) ==
    {e \in E : /\ e[1] = k /\ e[2] <= s
               /\ ~\E x \in E : x[1] = k /\ x[2] <= s /\ x[2] > e[2]}

\* The same in a table: SaveValue takes the entry that the search ends at only
\* if its user key is the right one.
InTable(k, s) == Newest(ldb, k, s)

\* The files of a level that may have the key, in the order they are read.
\* (NewestFirst compares numbers: equal numbers stay as they are.)
FilesFor(level, k, s) ==
    IF level = 0
    THEN SelectSeq(files[0], LAMBDA f : f.small[1] <= k /\ k <= f.large[1])
    ELSE LET i == FindFile(files[level], <<k, s>>)
         IN  IF i > Len(files[level]) \/ k < files[level][i].small[1] THEN <<>>
             ELSE <<files[level][i]>>

\* All of them: what ForEachOverlapping goes through.
Search(k, s) ==
    FlattenSeq([l \in 1..NumLevels |->
        LET fs == FilesFor(l - 1, k, s)
        IN  [i \in DOMAIN fs |-> [level |-> l - 1, file |-> fs[i]]]])

\* Version::Get: the first of these files with an entry ends the search; they
\* are all the same file.
Get(k, s) == IF Search(k, s) = <<>> THEN {} ELSE InTable(k, s)

\* The file that a Get is charged to, with its level: the first one, if it read
\* another.
Charged(k, s) ==
    {path[1] : path \in {p \in {Search(k, s)} : Len(p) >= 2 /\ InTable(k, s) = {}}}

\* Fault: the tables are read before the memtable that is being flushed.
FaultLookup(k, s) ==
    LET m == Newest(mem, k, s)
        i == Newest(imm, k, s)
        E == IF m # {} THEN m ELSE IF Get(k, s) # {} THEN Get(k, s) ELSE i
    IN  IF \E e \in E : e[3] = "value" THEN (CHOOSE e \in E : TRUE)[2] ELSE None

\* DBImpl::Get: the memtables, then the version.
Lookup(k, s) ==
    LET m == Newest(mem, k, s)
        i == Newest(imm, k, s)
        E == IF m # {} THEN m ELSE IF i # {} THEN i ELSE Get(k, s)
    IN  IF \E e \in E : e[3] = "value" THEN (CHOOSE e \in E : TRUE)[2] ELSE None

-----------------------------------------------------------------------------
(* Ranges and overlaps; lo and hi are user keys *)

\* AfterFile and BeforeFile
AfterFile(k, f) == k > f.large[1]
BeforeFile(k, f) == k < f.small[1]

\* SomeFileOverlapsRange
OverlapInLevel(level, lo, hi) ==
    IF level = 0
    THEN \E i \in DOMAIN files[0] : ~AfterFile(lo, files[0][i]) /\ ~BeforeFile(hi, files[0][i])
    ELSE LET i == FindFile(files[level], <<lo, MaxSeq + 1>>)
         IN  i <= Len(files[level]) /\ ~BeforeFile(hi, files[level][i])

RECURSIVE GetOverlappingInputs(_, _, _)
\* Level 0 starts again with a larger range while a file reaches beyond it.
GetOverlappingInputs(level, lo, hi) ==
    LET in == SelectSeq(files[level], LAMBDA f : ~AfterFile(lo, f) /\ ~BeforeFile(hi, f))
        l2 == Min({lo} \cup {in[i].small[1] : i \in DOMAIN in})
        h2 == Max({hi} \cup {in[i].large[1] : i \in DOMAIN in})
    IN  IF level > 0 \/ (l2 = lo /\ h2 = hi) THEN in
        ELSE GetOverlappingInputs(0, l2, h2)

\* GetRange: the smallest and the largest internal key.
GetRange(fs) ==
    [small |-> CHOOSE k \in {fs[i].small : i \in DOMAIN fs} :
                  \A i \in DOMAIN fs : Leq(k, fs[i].small),
     large |-> CHOOSE k \in {fs[i].large : i \in DOMAIN fs} :
                  \A i \in DOMAIN fs : Leq(fs[i].large, k)]

InRange(level, r) == GetOverlappingInputs(level, r.small[1], r.large[1])

\* PickLevelForMemTableOutput: down to where something overlaps.
PickLevelForMemTableOutput(lo, hi) ==
    LET Free(l) == \A j \in 1..l :
            /\ ~OverlapInLevel(j, lo, hi)
            /\ j + 1 < NumLevels =>
                 TotalFileSize(GetOverlappingInputs(j + 1, lo, hi)) <= GrandBytes
    IN  IF OverlapInLevel(0, lo, hi) THEN 0
        ELSE Max({l \in 0..MaxMemLevel : Free(l)})

-----------------------------------------------------------------------------
(* VersionEdit and Builder *)

Edit(ptrs, del, add) == [ptrs |-> ptrs, del |-> del, add |-> add]

\* EncodeTo: a record is a sequence of tagged fields.
EncodeTo(e) ==
    [i \in DOMAIN e.ptrs |-> <<"kCompactPointer", e.ptrs[i]>>]
      \o Sorted({<<"kDeletedFile", d>> : d \in e.del}, LAMBDA x, y : Less(x[2], y[2]))
      \o [i \in DOMAIN e.add |-> <<"kNewFile", e.add[i]>>]

\* Fault: deletions are not read back.
FaultDecodeFrom(rec) ==
    LET Tagged(t) == SelectSeq(rec, LAMBDA x : x[1] = t)
        Fields(t) == [i \in DOMAIN Tagged(t) |-> Tagged(t)[i][2]]
    IN  Edit(Fields("kCompactPointer"), {},  Fields("kNewFile"))

DecodeFrom(rec) ==
    LET Tagged(t) == SelectSeq(rec, LAMBDA x : x[1] = t)
        Fields(t) == [i \in DOMAIN Tagged(t) |-> Tagged(t)[i][2]]
    IN  Edit(Fields("kCompactPointer"), ToSet(Fields("kDeletedFile")), Fields("kNewFile"))

\* BySmallestKey
BySmallestKey(f, g) == Less(f.small, g.small) \/ (f.small = g.small /\ f.no < g.no)

NoChange == [l \in Level |-> [del |-> {}, add |-> {}]]

\* added_files is a set ordered by BySmallestKey: of two files that compare
\* equal the first one stays.
WithFile(S, f) ==
    IF \E g \in S : ~BySmallestKey(f, g) /\ ~BySmallestKey(g, f) THEN S ELSE S \cup {f}

\* Builder::Apply.  A number that is added again is no longer deleted.
Apply(b, e) ==
    [l \in Level |->
        LET new == SelectSeq(e.add, LAMBDA x : x.level = l)
        IN  [del |-> (b[l].del \cup {d[2] : d \in {x \in e.del : x[1] = l}})
                       \ {new[i].file.no : i \in DOMAIN new},
             add |-> FoldLeft(LAMBDA S, x : WithFile(S, x.file), b[l].add, new)]]

\* upper_bound: behind the files that are not after it.
Place(fs, f) ==
    InsertAt(fs, 1 + Cardinality({i \in DOMAIN fs : ~BySmallestKey(f, fs[i])}), f)

\* Builder::SaveTo
SaveTo(base, b) ==
    [l \in Level |->
        SelectSeq(FoldLeft(Place, base[l], Sorted(b[l].add, BySmallestKey)),
                  LAMBDA f : f.no \notin b[l].del)]

Pointers(p, e) ==
    FoldLeft(LAMBDA q, x : [q EXCEPT ![x.level] = x.key], p, e.ptrs)

\* WriteSnapshot: pointers and files of a version as one record.
Snapshot(p, fs) ==
    LET used == Sorted({l \in Level : p[l] # NoKey}, <)
    IN  Edit([i \in DOMAIN used |-> [level |-> used[i], key |-> p[used[i]]]], {},
             FlattenSeq([l \in 1..NumLevels |->
                [i \in DOMAIN fs[l - 1] |-> [level |-> l - 1, file |-> fs[l - 1][i]]]]))

EmptyVersion == [l \in Level |-> <<>>]

\* Recover: all records into one Builder on an empty version.
Recovered(records) ==
    SaveTo(EmptyVersion, FoldLeft(LAMBDA b, r : Apply(b, DecodeFrom(r)), NoChange, records))

\* LogAndApply: the version that results, and the record.
LogAndApply(e) ==
    /\ files' = SaveTo(files, Apply(NoChange, e))
    /\ manifest' = Append(manifest, EncodeTo(e))
    /\ victim' = {}

-----------------------------------------------------------------------------
(* Choosing a compaction *)

\* Finalize, in exact fractions: the best score of a level, as a pair
\* <<numerator, denominator>>.
Score(level) ==
    IF level = 0 THEN <<Len(files[0]), L0Trigger>>
    ELSE <<TotalFileSize(files[level]), LevelBytes[level]>>

Better(x, y) == x[1] * y[2] > y[1] * x[2]

\* The first of the levels with the best score; the last level has none.
BestLevel ==
    CHOOSE l \in 0..(NumLevels - 2) :
        \A m \in 0..(NumLevels - 2) :
            ~Better(Score(m), Score(l)) /\ (m < l => Better(Score(l), Score(m)))

Full(level) == Score(level)[1] >= Score(level)[2]

\* The first file behind the compaction pointer, or the first one.
AfterPointer(level) ==
    LET C == {i \in DOMAIN files[level] :
                pointer[level] = NoKey \/ Less(pointer[level], files[level][i].large)}
    IN  IF C = {} THEN files[level][1] ELSE files[level][Min(C)]

\* SetupOtherInputs, from the list of inputs that was chosen: the inputs of
\* the next level; more inputs, if that adds none to the next level; the
\* grandparents and the next pointer.
NextLevelInputs(level, in0) == <<in0, InRange(level + 1, GetRange(in0))>>

MoreInputs(level, in) == NextLevelInputs(level, InRange(level, GetRange(in[1] \o in[2])))

Expand(in, more) ==
    IF /\ in[2] # <<>> /\ Len(more[1]) > Len(in[1])
       /\ TotalFileSize(in[2]) + TotalFileSize(more[1]) < ExpandBytes
       /\ Len(more[2]) = Len(in[2])
    THEN more ELSE in

WithInputs(level, in) ==
    [level |-> level, in |-> in, at |-> GetRange(in[1]).large,
     grand |-> IF level + 2 < NumLevels THEN InRange(level + 2, GetRange(in[1] \o in[2]))
               ELSE <<>>]

SetupOtherInputs(level, in0) ==
    UNION {{WithInputs(level, Expand(in, MoreInputs(level, in)))} :
             in \in {NextLevelInputs(level, in0)}}

\* PickCompaction, as a set with at most one compaction.
PickCompaction ==
    LET best == BestLevel
        l    == IF Full(best) THEN best ELSE (CHOOSE x \in victim : TRUE).level
        f    == IF Full(best) THEN AfterPointer(l) ELSE (CHOOSE x \in victim : TRUE).file
    IN  IF ~Full(best) /\ victim = {} THEN {}
        ELSE SetupOtherInputs(l, IF l = 0 THEN InRange(0, GetRange(<<f>>)) ELSE <<f>>)

\* CompactRange: at most FileBytes at once, except in level 0.
CompactRange(level, lo, hi) ==
    LET in == GetOverlappingInputs(level, lo, hi)
        n  == Min({i \in DOMAIN in : TotalFileSize(SubSeq(in, 1, i)) >= FileBytes}
                    \cup {Len(in)})
    IN  IF in = <<>> THEN {}
        ELSE SetupOtherInputs(level, IF level > 0 THEN SubSeq(in, 1, n) ELSE in)

IsTrivialMove(c) ==
    Len(c.in[1]) = 1 /\ Len(c.in[2]) = 0 /\ TotalFileSize(c.grand) <= GrandBytes

\* AddInputDeletions
InputDeletions(c) ==
    {<<c.level, c.in[1][i].no>> : i \in DOMAIN c.in[1]}
      \cup {<<c.level + 1, c.in[2][i].no>> : i \in DOMAIN c.in[2]}

-----------------------------------------------------------------------------
(* DoCompactionWork *)

\* IsBaseLevelForKey, in the version the compaction started with: of every
\* deeper level it asks the first table that does not end before the key.
IsBaseLevelForKey(c, k) ==
    \A l \in (c.level + 2)..(NumLevels - 1) :
        LET I == {i \in DOMAIN c.version[l] : k <= c.version[l][i].large[1]}
        IN  I = {} \/ k < c.version[l][Min(I)].small[1]

\* Fault: a snapshot does not keep what is hidden behind a newer entry.
FaultDrop(c, E, e) ==
    \/ \E x \in E : x[1] = e[1] /\ x[2] > e[2]
    \/ e[3] = "deletion" /\ e[2] <= c.smallest /\ IsBaseLevelForKey(c, e[1])

\* An entry is dropped if a newer one hides it from every snapshot, or if it
\* is a deletion with nothing left to hide.
Drop(c, E, e) ==
    \/ \E x \in E : x[1] = e[1] /\ x[2] > e[2] /\ x[2] <= c.smallest
    \/ e[3] = "deletion" /\ e[2] <= c.smallest /\ IsBaseLevelForKey(c, e[1])

\* ShouldStopBefore: grandparents that the key has passed are charged to the
\* output that is open.
Passed(c, st, key) ==
    LET stay == {i \in DOMAIN c.grand : i > st.at /\ ~Less(c.grand[i].large, key)}
        n == Min(stay \cup {Len(c.grand) + 1}) - 1 - st.at
        new == TotalFileSize(SubSeq(c.grand, st.at + 1, st.at + n))
        sum == IF st.seen THEN st.sum + new ELSE st.sum
    IN  [st EXCEPT !.at = @ + n, !.seen = TRUE,
                   !.sum = IF sum > GrandBytes THEN 0 ELSE sum,
                   !.stop = sum > GrandBytes]

\* One entry of the merged input: perhaps a new output, perhaps added to the
\* open one, which is closed when it is full.
Merge(c, E, st, e) ==
    LET Close(q, when) == IF when THEN [q EXCEPT !.outs = Append(@, q.cur), !.cur = {}] ELSE q
        Cut(q) == Close(q, q.stop /\ q.cur # {})
        Append1(q) == Close([q EXCEPT !.cur = @ \cup {e}], Cardinality(q.cur) + 1 >= FileBytes)
        Kept(q) == IF Drop(c, E, e) THEN q ELSE Append1(q)
    IN  Kept(Cut(Passed(c, st, IKey(e))))

\* The outputs of a compaction, each a set of entries.  (An entry that two
\* inputs of one number both yield is in the set once.)
Merged(c, E) ==
    FoldLeft(LAMBDA s, e : Merge(c, E, s, e),
             [outs |-> <<>>, cur |-> {}, at |-> 0, seen |-> FALSE, sum |-> 0,
              stop |-> FALSE], Sorted(E, Less))

Closed(st) == IF st.cur = {} THEN st.outs ELSE Append(st.outs, st.cur)

Outputs(c) == Closed(Merged(c, c.entries))

-----------------------------------------------------------------------------
(* Actions *)

Init ==
    /\ lastSeq = 0 /\ mem = {} /\ imm = {} /\ snaps = {}
    /\ ldb = {} /\ built = 0
    /\ files = EmptyVersion /\ pointer = [l \in Level |-> NoKey]
    /\ victim = {} /\ manifest = <<>> /\ job = {} /\ opened = 0

\* Put or Delete.
Write(k, kind) ==
    /\ lastSeq < MaxSeq
    /\ lastSeq' = lastSeq + 1
    /\ mem' = mem \cup {<<k, lastSeq', kind>>}
    /\ UNCHANGED <<imm, snaps, ldb, built, files, pointer, victim, manifest,
                   job, opened>>

\* MakeRoomForWrite: the memtable is full, or a flush is forced.
Switch ==
    /\ imm = {} /\ mem # {}
    /\ imm' = mem /\ mem' = {}
    /\ UNCHANGED <<lastSeq, snaps, ldb, built, files, pointer, victim, manifest,
                   job, opened>>

GetSnapshot ==
    /\ Cardinality(snaps) < MaxSnaps
    /\ snaps' = snaps \cup {lastSeq}
    /\ UNCHANGED <<lastSeq, mem, imm, ldb, built, files, pointer, victim,
                   manifest, job, opened>>

ReleaseSnapshot(s) ==
    /\ snaps' = snaps \ {s}
    /\ UNCHANGED <<lastSeq, mem, imm, ldb, built, files, pointer, victim,
                   manifest, job, opened>>

\* Tables are written one after the other under the one name.
BuildTables(outs) ==
    /\ ldb' = IF outs = <<>> THEN ldb ELSE Last(outs)
    /\ built' = Min({built + Len(outs), 2})

\* CompactMemTable, by itself or from the loop of a merge.
CompactMemTable ==
    LET f == FileMetaData(imm)
        l == PickLevelForMemTableOutput(f.small[1], f.large[1])
    IN  /\ imm # {}
        /\ BuildTables(<<imm>>)
        /\ LogAndApply(Edit(<<>>, {}, <<[level |-> l, file |-> f]>>))
        /\ imm' = {}
        /\ UNCHANGED <<lastSeq, mem, snaps, pointer, job, opened>>

\* UpdateStats by a read that had to look at more than one table, when it finds
\* allowed_seeks used up; before that it only counts.
Charge(x) ==
    /\ victim = {} /\ victim' = {x}
    /\ UNCHANGED <<lastSeq, mem, imm, snaps, ldb, built, files, pointer, manifest, job,
                   opened>>

\* A Get that reaches the tables.
GetCharges(k) ==
    /\ Newest(mem \cup imm, k, lastSeq) = {}
    /\ \E x \in Charged(k, lastSeq) : Charge(x)

\* RecordReadSample, for a key that an iterator passes.
RecordReadSample(k) ==
    Len(Search(k, lastSeq)) >= 2 /\ Charge(Search(k, lastSeq)[1])

\* The merge starts with the snapshots of this moment; its iterator reads the
\* inputs, tables of one block, before the first output is opened.
Start(c) ==
    /\ job' = {[level |-> c.level, in |-> c.in, grand |-> c.grand, at |-> c.at,
                version |-> files, entries |-> ldb, open |-> FALSE,
                smallest |-> IF snaps = {} THEN lastSeq ELSE Min(snaps)]}
    /\ pointer' = [pointer EXCEPT ![c.level] = c.at]
    /\ UNCHANGED <<lastSeq, mem, imm, snaps, ldb, built, files, victim, manifest, opened>>

\* A table that nothing overlaps is moved to the next level.
Move(c) ==
    LET f == c.in[1][1]
    IN  /\ LogAndApply(Edit(<<[level |-> c.level, key |-> c.at]>>, {<<c.level, f.no>>},
                            <<[level |-> c.level + 1, file |-> f]>>))
        /\ pointer' = [pointer EXCEPT ![c.level] = c.at]
        /\ UNCHANGED <<lastSeq, mem, imm, snaps, ldb, built, job, opened>>

\* BackgroundCompaction: memtables first.
BackgroundCompaction ==
    /\ job = {} /\ imm = {}
    /\ \E c \in PickCompaction : IF IsTrivialMove(c) THEN Move(c) ELSE Start(c)

ManualCompaction(r) ==
    /\ job = {} /\ imm = {}
    /\ \E c \in CompactRange(r[1], r[2], r[3]) : Start(c)

\* OpenCompactionOutputFile: the table file is cut to nothing for the output.
OpenOutput ==
    \E c \in job :
        /\ ~c.open /\ Outputs(c) # <<>>
        /\ ldb' = {} /\ built' = Min({built + 1, 2})
        /\ job' = {[c EXCEPT !.open = TRUE]}
        /\ UNCHANGED <<lastSeq, mem, imm, snaps, files, pointer, victim, manifest, opened>>

\* InstallCompactionResults: the inputs go, the outputs come.
ResultEdit(c, outs) ==
    Edit(<<[level |-> c.level, key |-> c.at]>>, InputDeletions(c),
         [i \in DOMAIN outs |-> [level |-> c.level + 1, file |-> FileMetaData(outs[i])]])

Install ==
    \E c \in job : \E outs \in {Outputs(c)} :
        /\ c.open \/ outs = <<>>
        /\ BuildTables(outs)
        /\ LogAndApply(ResultEdit(c, outs))
        /\ job' = {}
        /\ UNCHANGED <<lastSeq, mem, imm, snaps, pointer, opened>>

\* The database is closed or its process ends, and it is opened again: the
\* logs of the memtables become tables of level 0, the manifest is written
\* anew.
Reopen ==
    LET from == SelectSeq(<<imm, mem>>, LAMBDA m : m # {})
        add  == [i \in DOMAIN from |-> [level |-> 0, file |-> FileMetaData(from[i])]]
        e    == Edit(<<>>, {}, add)
        base == Recovered(manifest)
        ptr  == FoldLeft(LAMBDA p, r : Pointers(p, DecodeFrom(r)),
                         [l \in Level |-> NoKey], manifest)
    IN  /\ opened < MaxOpen /\ opened' = opened + 1
        /\ files' = SaveTo(base, Apply(NoChange, e))
        /\ manifest' = <<EncodeTo(Snapshot(ptr, base)), EncodeTo(e)>>
        /\ pointer' = ptr
        /\ BuildTables(from)
        /\ mem' = {} /\ imm' = {} /\ snaps' = {} /\ victim' = {} /\ job' = {}
        /\ UNCHANGED lastSeq

Next ==
    \/ \E k \in Key : \/ \E kind \in {"value", "deletion"} : Write(k, kind)
                      \/ GetCharges(k)
                      \/ RecordReadSample(k)
    \/ Switch \/ CompactMemTable
    \/ GetSnapshot
    \/ \E s \in snaps : ReleaseSnapshot(s)
    \/ BackgroundCompaction
    \/ \E r \in Ranges : ManualCompaction(r)
    \/ OpenOutput \/ Install
    \/ Reopen

-----------------------------------------------------------------------------
(* Properties *)

\* Until a second table is begun, flushes, moves, merges that leave nothing and
\* restarts change nothing that a reader or a snapshot sees: the levels implement
\* KVStore (include/leveldb/db.h).  The second table overwrites the first
\* (TableFileName with FILENUMBER_LDB): no promise is left from there on.
Store == INSTANCE KVStore WITH
    now   <- [k \in Key |-> Lookup(k, lastSeq)],
    seq   <- lastSeq,
    taken <- [s \in snaps |-> [k \in Key |-> Lookup(k, s)]]

StoreUntilSecond == Store!Init /\ [][built' > 1 \/ Store!Next]_(Store!kvvars)

\* "Must not overlap" (Builder::MaybeAddFile): tables of a level other than 0
\* are sorted and disjoint.
Disjoint(fs) ==
    \A l \in Level \ {0} : \A i \in 1..(Len(fs[l]) - 1) :
        Less(fs[l][i].large, fs[l][i + 1].small)

LevelsDisjoint == Disjoint(files)

\* What the manifest says is the version in memory: a database that is opened
\* now has the same tables at the same levels (LogAndApply, Recover).
ManifestExact == Recovered(manifest) = files

\* It is, whatever moves and empty merges there were, until the number of a table
\* is used again (Builder::Apply then takes an older deletion back).
ManifestUntilSecond == built <= 1 => ManifestExact

Covers(f, k) == f.small[1] <= k /\ k <= f.large[1]

\* A merge takes along every table that may hold something older for its keys:
\* all of level 0 that overlap its inputs there, all of the next level that
\* overlap any of those (SetupOtherInputs).
InputsClosed(c) ==
    LET Overlap(f, g) == \E k \in Key : Covers(f, k) /\ Covers(g, k)
    IN  /\ c.level = 0 => \A f \in Range(c.version[0]), g \in Range(c.in[1]) :
                            Overlap(f, g) => f \in Range(c.in[1])
        /\ \A f \in Range(c.version[c.level + 1]), g \in Range(c.in[1]) :
                Overlap(f, g) => f \in Range(c.in[2])

\* Of the keys of its inputs it drops nothing that a reader or a snapshot of now
\* needs: the newest entry it read is in an output, or it was a deletion and no
\* table below the outputs can have the key, tables flushed since the merge began
\* included (DoCompactionWork).
Keeps(c) ==
    \A s \in snaps \cup {lastSeq} :
    \A k \in {x \in Key : \E f \in Range(c.in[1] \o c.in[2]) : Covers(f, x)} :
        LET new == Newest(UNION Range(Outputs(c)), k, s)
        IN  \/ new = Newest(c.entries, k, s)
            \/ /\ new = {} /\ \A e \in Newest(c.entries, k, s) : e[3] = "deletion"
               /\ \A l \in (c.level + 2)..(NumLevels - 1) :
                    \A f \in Range(files[l]) : ~Covers(f, k)

\* Both, for a merge that began with sound levels.
MergeSafe == \A c \in job : Disjoint(c.version) => InputsClosed(c) /\ Keeps(c)
=============================================================================
