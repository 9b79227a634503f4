----------------------------- MODULE SortedTable -----------------------------
\* A table file: TableBuilder and BlockBuilder write it (table_builder.cpp,
\* block_builder.cpp, filter_block.cpp, bloom.cpp), Table, Block::Iter and
\* TwoLevelIterator read it (table.cpp, format.cpp, block.cpp,
\* two_level_iterator.cpp). An internal key is the bytes of the user key and a
\* tag: sequence number and type, one element instead of eight bytes. A block
\* is its entries and restart points; an entry's offset in its block is its
\* number, from 0. Blocks are not compressed: no build defines SNAPPY.
EXTENDS Naturals, SequencesExt

CONSTANTS
    NULL,
    InternalKeys,       \* the keys a table may hold, and lookups and seeks use
    MaxEntries,         \* bound: entries of a table
    Top,                \* the largest byte
    MaxTag,             \* kMaxSequenceNumber and kValueTypeForSeek
    Intervals,          \* values of block_restart_interval
    BlockSizes,         \* values of block_size
    FilterBase,         \* kFilterBase: bytes of the file one filter is for
    BitsPerKey, MinBits,\* of the Bloom filter
    HashOf,             \* the hash of a user key, in words of 16 bits
    Spaces              \* blocks the file takes before an Append fails

VARIABLES
    opt,                \* the options
    added,              \* the entries Add was called with
    builder,            \* the TableBuilder
    damaged,            \* offset of the block whose checksum is wrong, or NULL
    table,              \* the Table: NULL, or what Open has read
    titer,              \* the TwoLevelIterator
    tcall               \* its last call

tvars == <<opt, added, builder, damaged, table, titer, tcall>>

-----------------------------------------------------------------------------
\* Order of keys, and the keys of the index block.

Common(a, b) == Cardinality({n \in DOMAIN a : n <= Len(b) /\ SubSeq(a, 1, n) = SubSeq(b, 1, n)})
Bytewise(a, b) ==
    LET n == Common(a, b) IN n < Len(b) /\ (n < Len(a) => a[n + 1] < b[n + 1])

User(k) == Front(k)
Tag(k) == Last(k)
Precedes(a, b) ==
    \/ Bytewise(User(a), User(b))
    \/ User(a) = User(b) /\ Tag(a) > Tag(b)

Separator(start, limit) ==
    LET n == Common(start, limit)
    IN  IF /\ n < Len(start) /\ n < Len(limit)
           /\ start[n + 1] < Top /\ start[n + 1] + 1 < limit[n + 1]
        THEN Append(SubSeq(start, 1, n), start[n + 1] + 1)
        ELSE start

Successor(u) ==
    LET Low == {i \in DOMAIN u : u[i] # Top}
        i == CHOOSE i \in Low : \A j \in Low : i <= j
    IN  IF Low = {} THEN u ELSE Append(SubSeq(u, 1, i - 1), u[i] + 1)

\* The shorter user key is taken, with the tag that comes first.
Shortened(k, u) ==
    IF Len(u) < Len(User(k)) /\ Bytewise(User(k), u) THEN Append(u, MaxTag) ELSE k
FindShortestSeparator(start, limit) == Shortened(start, Separator(User(start), User(limit)))
FindShortSuccessor(k) == Shortened(k, Successor(User(k)))

-----------------------------------------------------------------------------
\* BlockBuilder.

EmptyBlock == [entries |-> <<>>, restarts |-> <<0>>, counter |-> 0, last |-> <<>>]

BlockAdd(b, interval, key, value) ==
    LET restart == b.counter >= interval
        shared == IF restart THEN 0 ELSE Common(b.last, key)
        delta == SubSeq(key, shared + 1, Len(key))
    IN  [entries |-> Append(b.entries, [shared |-> shared, delta |-> delta, value |-> value]),
         restarts |-> IF restart THEN Append(b.restarts, Len(b.entries)) ELSE b.restarts,
         counter |-> IF restart THEN 1 ELSE b.counter + 1,
         last |-> SubSeq(b.last, 1, shared) \o delta]

CurrentSizeEstimate(b) ==
    FoldSeq(LAMBDA e, n : n + 4 + Len(e.delta), 4 * (Len(b.restarts) + 1), b.entries)

-----------------------------------------------------------------------------
\* The Bloom filter, over words of 16 bits and for any hash, and
\* FilterBlockBuilder.

Word == 65536
BloomHash(u) == HashOf[u]
Delta(h) == (h \div 512) + (h % 512) * 128
Probes(u, bits) ==
    LET k == (BitsPerKey * 69) \div 100
    IN  {(((BloomHash(u) + j * Delta(BloomHash(u))) % Word) % bits) :
            j \in 0..((IF k < 1 THEN 1 ELSE IF k > 30 THEN 30 ELSE k) - 1)}

NoFilter == [bits |-> 0, on |-> {}]
CreateFilter(users) ==
    LET wanted == Len(users) * BitsPerKey
        bits == (((IF wanted < MinBits THEN MinBits ELSE wanted) + 7) \div 8) * 8
    IN  IF users = <<>> THEN NoFilter
        ELSE [bits |-> bits, on |-> UNION {Probes(u, bits) : u \in ToSet(users)}]

GenerateFilter(f, n) ==
    IF n <= Len(f.filters) THEN f
    ELSE [keys |-> <<>>,
          filters |-> f.filters \o [i \in 1..(n - Len(f.filters)) |->
                          IF i = 1 THEN CreateFilter(f.keys) ELSE NoFilter]]

FaultStartBlock(f, offset) == GenerateFilter(f, (offset + FilterBase - 1) \div FilterBase)

\* StartBlock: filters up to the one of this offset.
StartBlock(f, offset) == GenerateFilter(f, offset \div FilterBase)
FilterAddKey(f, k) == [f EXCEPT !.keys = Append(@, User(k))]
FilterFinish(f) == IF f.keys = <<>> THEN f.filters ELSE GenerateFilter(f, Len(f.filters) + 1).filters

\* FilterBlockReader::KeyMayMatch.
KeyMayMatch(filters, offset, u) ==
    LET i == offset \div FilterBase + 1
    IN  i <= Len(filters) =>
            filters[i] # NoFilter /\ Probes(u, filters[i].bits) \subseteq filters[i].on

-----------------------------------------------------------------------------
\* TableBuilder. The file is the sequence of what was appended, each piece with
\* its handle; the handle is the offset, which is unique.

Trailer == 5
Ok(b) == b.status = "ok"

WriteRawBlock(b, body, size) ==
    IF Len(b.file) < opt.space
    THEN [b EXCEPT !.file = Append(@, [offset |-> b.offset, body |-> body]),
                   !.handle = b.offset,
                   !.offset = @ + size + Trailer]
    ELSE [b EXCEPT !.handle = b.offset, !.status = "error"]

IndexAdd(b, key) ==
    IF b.pending
    THEN [b EXCEPT !.index = BlockAdd(@, 1, key, b.handle), !.pending = FALSE]
    ELSE b

Flush(b) ==
    IF ~Ok(b) \/ b.data.entries = <<>> THEN b
    ELSE LET w == WriteRawBlock(b, b.data, CurrentSizeEstimate(b.data))
         IN  [w EXCEPT !.data = EmptyBlock,
                       !.pending = Ok(w),
                       !.filter = IF opt.filtered THEN StartBlock(@, w.offset) ELSE @]

BuilderAdd(b, key, value) ==
    IF ~Ok(b) THEN b
    ELSE LET i == IndexAdd(b, FindShortestSeparator(b.last, key))
             a == [i EXCEPT !.filter = IF opt.filtered THEN FilterAddKey(@, key) ELSE @,
                            !.last = key,
                            !.data = BlockAdd(@, opt.interval, key, value)]
         IN  IF CurrentSizeEstimate(a.data) >= opt.blockSize THEN Flush(a) ELSE a

\* Filter block, metaindex block, index block and footer: each is written when
\* the ones before were.
BuilderFinish(b) ==
    LET Write(x, body, size) == IF Ok(x) THEN WriteRawBlock(x, body, size) ELSE x
        f == Flush(b)
        flt == IF opt.filtered THEN Write(f, FilterFinish(f.filter), 5) ELSE f
        meta == Write([flt EXCEPT !.handle = f.handle],
                      IF opt.filtered THEN flt.handle ELSE NULL, 8)
        ix == IndexAdd([meta EXCEPT !.handle = f.handle], FindShortSuccessor(f.last))
        iw == Write(ix, ix.index, CurrentSizeEstimate(ix.index))
    IN  [Write(iw, [metaindex |-> meta.handle, index |-> iw.handle], 48) EXCEPT !.closed = TRUE]

-----------------------------------------------------------------------------
\* Table::Open, ReadMeta and ReadFilter, with paranoid_checks.

Piece(offset) == CHOOSE p \in ToSet(builder.file) : p.offset = offset
\* ReadBlock: NULL stands for Corruption.
ReadBlock(offset) == IF offset = damaged THEN NULL ELSE Piece(offset).body

ReadMeta(footer) ==
    IF ~opt.filtered \/ ReadBlock(footer.metaindex) = NULL THEN NULL
    ELSE ReadBlock(ReadBlock(footer.metaindex))

OpenTable ==
    LET footer == Last(builder.file).body
        index == ReadBlock(footer.index)
    IN  IF index = NULL THEN NULL ELSE [index |-> index, filter |-> ReadMeta(footer)]

-----------------------------------------------------------------------------
\* Block::Iter over block B: cur is current_, ri restart_index_, key key_, end
\* NextEntryOffset().

Limit(B) == Len(B.entries)
Restarts(B) == Len(B.restarts)
RestartPoint(B, i) == B.restarts[i + 1]
NewIter(B) == [cur |-> Limit(B), ri |-> Restarts(B), key |-> <<>>, end |-> 0]
BlockValid(B, b) == b.cur < Limit(B)
BlockValue(B, b) == B.entries[b.cur + 1].value

SeekToRestartPoint(B, i) == [cur |-> Limit(B), ri |-> i, key |-> <<>>, end |-> RestartPoint(B, i)]

ParseNextKey(B, b) ==
    IF b.end >= Limit(B) THEN [b EXCEPT !.cur = Limit(B), !.ri = Restarts(B)]
    ELSE LET e == B.entries[b.end + 1]
             Passed == {i \in (b.ri + 1)..(Restarts(B) - 1) : RestartPoint(B, i) < b.end}
         IN  [cur |-> b.end,
              ri |-> b.ri + Cardinality(Passed),
              key |-> SubSeq(b.key, 1, e.shared) \o e.delta,
              end |-> b.end + 1]

RECURSIVE ParseUpTo(_, _, _), ParseToKey(_, _, _)
ParseUpTo(B, b, limit) ==
    LET n == ParseNextKey(B, b)
    IN  IF BlockValid(B, n) /\ n.end < limit THEN ParseUpTo(B, n, limit) ELSE n
ParseToKey(B, b, target) ==
    LET n == ParseNextKey(B, b)
    IN  IF BlockValid(B, n) /\ Precedes(n.key, target) THEN ParseToKey(B, n, target) ELSE n

BlockPrev(B, b) ==
    LET Ahead == {i \in 0..(Restarts(B) - 1) : i <= b.ri /\ RestartPoint(B, i) < b.cur}
    IN  IF Ahead = {} THEN [b EXCEPT !.cur = Limit(B), !.ri = Restarts(B)]
        ELSE LET i == CHOOSE i \in Ahead : \A j \in Ahead : j <= i
             IN  ParseUpTo(B, SeekToRestartPoint(B, i), b.cur)

\* The binary search of Seek: the last restart point with a key before target.
RECURSIVE RestartBefore(_, _, _, _)
RestartBefore(B, target, left, right) ==
    IF left >= right THEN left
    ELSE LET mid == (left + right + 1) \div 2
         IN  IF Precedes(B.entries[RestartPoint(B, mid) + 1].delta, target)
             THEN RestartBefore(B, target, mid, right)
             ELSE RestartBefore(B, target, left, mid - 1)

BlockSeek(B, target) ==
    ParseToKey(B, SeekToRestartPoint(B, RestartBefore(B, target, 0, Restarts(B) - 1)), target)
BlockSeekToFirst(B) == ParseNextKey(B, SeekToRestartPoint(B, 0))
FaultBlockSeekToLast(B) == ParseNextKey(B, SeekToRestartPoint(B, Restarts(B) - 1))
BlockSeekToLast(B) == ParseUpTo(B, SeekToRestartPoint(B, Restarts(B) - 1), Limit(B))

-----------------------------------------------------------------------------
\* Table::InternalGet, with the saver of Version::Get, which wants the user key.

InternalGet(k) ==
    LET I == table.index
        ii == BlockSeek(I, k)
        offset == BlockValue(I, ii)
        B == ReadBlock(offset)
        b == BlockSeek(B, k)
    IN  IF ~BlockValid(I, ii) THEN [status |-> "ok", found |-> NULL]
        ELSE IF table.filter # NULL /\ ~KeyMayMatch(table.filter, offset, User(k))
        THEN [status |-> "ok", found |-> NULL]
        ELSE IF B = NULL THEN [status |-> "corrupt", found |-> NULL]
        ELSE [status |-> "ok",
              found |-> IF BlockValid(B, b) /\ User(b.key) = User(k)
                        THEN [key |-> b.key, value |-> BlockValue(B, b)] ELSE NULL]

-----------------------------------------------------------------------------
\* TwoLevelIterator: ix is index_iter_; data is data_iter_ with the handle of
\* its block (NULL when there is none); a block that cannot be read has an
\* iterator that is never valid and has the error.

DataValid(d) == d # NULL /\ d.block # NULL /\ BlockValid(d.block, d.it)
DataStatus(d) == IF d # NULL /\ d.block = NULL THEN "corrupt" ELSE "ok"
IndexValid(t) == BlockValid(table.index, t.ix)
IterStatus(t) == IF DataStatus(t.data) # "ok" THEN DataStatus(t.data) ELSE t.status

BlockReader(offset) ==
    LET B == ReadBlock(offset)
    IN  [handle |-> offset, block |-> B, it |-> IF B = NULL THEN NULL ELSE NewIter(B)]

FaultSetDataIterator(t, d) == [t EXCEPT !.data = d]

\* The error of the block that is left is kept, the first one.
SetDataIterator(t, d) ==
    [t EXCEPT !.data = d, !.status = IF @ = "ok" THEN DataStatus(t.data) ELSE @]

InitDataBlock(t) ==
    IF ~IndexValid(t) THEN SetDataIterator(t, NULL)
    ELSE LET offset == BlockValue(table.index, t.ix)
         IN  IF t.data # NULL /\ t.data.handle = offset THEN t
             ELSE SetDataIterator(t, BlockReader(offset))

\* A call on data_iter_: it does nothing when there is no block.
Positioned(t, Op(_, _)) ==
    IF t.data = NULL \/ t.data.block = NULL THEN t
    ELSE [t EXCEPT !.data.it = Op(t.data.block, @)]

RECURSIVE SkipEmptyDataBlocksForward(_), SkipEmptyDataBlocksBackward(_)
SkipEmptyDataBlocksForward(t) ==
    IF DataValid(t.data) THEN t
    ELSE IF ~IndexValid(t) THEN SetDataIterator(t, NULL)
    ELSE SkipEmptyDataBlocksForward(
             Positioned(InitDataBlock([t EXCEPT !.ix = ParseNextKey(table.index, @)]),
                        LAMBDA B, b : BlockSeekToFirst(B)))
SkipEmptyDataBlocksBackward(t) ==
    IF DataValid(t.data) THEN t
    ELSE IF ~IndexValid(t) THEN SetDataIterator(t, NULL)
    ELSE SkipEmptyDataBlocksBackward(
             Positioned(InitDataBlock([t EXCEPT !.ix = BlockPrev(table.index, @)]),
                        LAMBDA B, b : BlockSeekToLast(B)))

Shown(t) ==
    IF t # NULL /\ DataValid(t.data)
    THEN [key |-> t.data.it.key, value |-> BlockValue(t.data.block, t.data.it)] ELSE NULL

-----------------------------------------------------------------------------
TInit ==
    /\ opt \in [interval : Intervals, blockSize : BlockSizes, filtered : BOOLEAN, space : Spaces]
    /\ added = <<>>
    /\ builder = [data |-> EmptyBlock, index |-> EmptyBlock, last |-> <<>>, pending |-> FALSE,
                  handle |-> 0, offset |-> 0, file |-> <<>>,
                  filter |-> [filters |-> <<>>, keys |-> <<>>],
                  closed |-> FALSE, status |-> "ok"]
    /\ damaged = NULL
    /\ table = NULL /\ titer = NULL
    /\ tcall = <<"new">>

Add(k) ==
    /\ ~builder.closed
    /\ Len(added) < MaxEntries
    /\ added # <<>> => Precedes(Last(added), k)
    /\ added' = Append(added, k)
    /\ builder' = BuilderAdd(builder, k, Len(added) + 1)
    /\ UNCHANGED <<opt, damaged, table, titer, tcall>>

\* A builder with no entries is abandoned by its callers.
Finish ==
    /\ ~builder.closed
    /\ added # <<>>
    /\ builder' = BuilderFinish(builder)
    /\ UNCHANGED <<opt, added, damaged, table, titer, tcall>>

\* The file of a builder that failed is deleted. One block may have been
\* damaged before the table is opened.
Open ==
    /\ builder.closed /\ Ok(builder) /\ table = NULL /\ damaged = NULL
    /\ damaged' \in {NULL} \cup {p.offset : p \in ToSet(Front(builder.file))}
    /\ UNCHANGED <<opt, added, builder, tcall>>
    /\ table' = OpenTable'
    /\ titer' = IF table' = NULL THEN NULL
                ELSE [ix |-> NewIter(table'.index), data |-> NULL, status |-> "ok"]

Called(t, c) ==
    /\ titer' = t
    /\ tcall' = c
    /\ UNCHANGED <<opt, added, builder, damaged, table>>

IterSeek(k) ==
    /\ titer # NULL
    /\ Called(SkipEmptyDataBlocksForward(
                  Positioned(InitDataBlock([titer EXCEPT !.ix = BlockSeek(table.index, k)]),
                             LAMBDA B, b : BlockSeek(B, k))), <<"seek", k>>)

IterSeekToFirst ==
    /\ titer # NULL
    /\ Called(SkipEmptyDataBlocksForward(
                  Positioned(InitDataBlock([titer EXCEPT !.ix = BlockSeekToFirst(table.index)]),
                             LAMBDA B, b : BlockSeekToFirst(B))), <<"first">>)

IterSeekToLast ==
    /\ titer # NULL
    /\ Called(SkipEmptyDataBlocksBackward(
                  Positioned(InitDataBlock([titer EXCEPT !.ix = BlockSeekToLast(table.index)]),
                             LAMBDA B, b : BlockSeekToLast(B))), <<"last">>)

IterNext ==
    /\ Shown(titer) # NULL
    /\ Called(SkipEmptyDataBlocksForward(Positioned(titer, ParseNextKey)), <<"next">>)

IterPrev ==
    /\ Shown(titer) # NULL
    /\ Called(SkipEmptyDataBlocksBackward(Positioned(titer, BlockPrev)), <<"prev">>)

TNext ==
    \/ \E k \in InternalKeys : Add(k)
    \/ Finish
    \/ Open
    \/ \E k \in InternalKeys : IterSeek(k)
    \/ IterSeekToFirst
    \/ IterSeekToLast
    \/ IterNext
    \/ IterPrev

TSpec == TInit /\ [][TNext]_tvars

-----------------------------------------------------------------------------
\* The entries a reader can reach: those of the blocks that are not damaged.
BlockEntries(offset) ==
    LET RECURSIVE Decoded(_, _)
        Decoded(es, last) ==
            IF es = <<>> THEN {}
            ELSE LET k == SubSeq(last, 1, Head(es).shared) \o Head(es).delta
                 IN  {k} \cup Decoded(Tail(es), k)
    IN  Decoded(Piece(offset).body.entries, <<>>)
LostKeys ==
    IF damaged # NULL /\ \E i \in DOMAIN table.index.entries : table.index.entries[i].value = damaged
    THEN BlockEntries(damaged) ELSE {}
Reached ==
    [k \in ToSet(added) \ LostKeys |-> CHOOSE i \in DOMAIN added : added[i] = k]

Cur == INSTANCE Cursor WITH
          Targets <- InternalKeys, Before <- Precedes,
          view <- IF table = NULL THEN <<>> ELSE Reached,
          call <- tcall, at <- Shown(titer)

CursorStep == table # NULL => [Cur!Next]_(Cur!cvars)

\* The iterator of a table is a cursor over the entries of its blocks that can
\* be read, whatever the block size, the restart interval and the order of
\* calls, at the borders of blocks and of restart intervals too.
TableCursor == [][CursorStep]_tvars

SkipTold ==
       LET Between(a, b) == {k \in ToSet(added) :
                (a = NULL \/ Precedes(a.key, k)) /\ (b = NULL \/ Precedes(k, b.key))}
           Passed ==
               CASE tcall' = <<"first">> -> Between(NULL, Shown(titer'))
                 [] tcall' = <<"last">>  -> Between(Shown(titer'), NULL)
                 [] tcall' = <<"next">>  -> Between(Shown(titer), Shown(titer'))
                 [] tcall' = <<"prev">>  -> Between(Shown(titer'), Shown(titer))
                 [] OTHER                -> {}
       IN  titer # NULL /\ titer' # titer /\ Passed # {} => IterStatus(titer') # "ok"

\* A call that passes over an entry of the table, because its block cannot be
\* read, leaves the iterator with a status that says so.
SkipsAreTold == [][SkipTold]_tvars

\* A lookup in a table that Finish said was written finds the newest entry of
\* the user key that the tag allows, and no other: neither the index keys,
\* which are shorter than the keys of the blocks, nor the filters, which cover
\* ranges of file offsets and not blocks, hide an entry. It fails only when the
\* block it needs is damaged.
GetExact ==
    table # NULL => \A k \in InternalKeys :
        LET Newer == {i \in DOMAIN added : User(added[i]) = User(k) /\ Tag(added[i]) <= Tag(k)}
            Wanted == IF Newer = {} THEN NULL
                      ELSE LET i == CHOOSE i \in Newer : \A j \in Newer : i <= j
                           IN  [key |-> added[i], value |-> i]
            got == InternalGet(k)
        IN  IF got.status = "ok" THEN got.found = Wanted ELSE damaged # NULL
=============================================================================
