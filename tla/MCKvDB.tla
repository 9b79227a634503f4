------------------------------- MODULE MCKvDB -------------------------------
\* Three parts of KvDB that do not share state, in one run: `part` says which
\* of them moves, the variables of the others are 0.
EXTENDS Integers

CONSTANTS
    MaxKey, PageSpace, MinUnit,
    Table, Size, PageSize, HeadSize, FlagSize, Word, PageEntry, DefSize, Meta, MetaSize,
    KeySize, IndexEntry, Buffers, MaxRecords, MaxReads,
    Garbage, ByteBits, ShortBytes, IntBytes, LongBytes, MaxGroup

VARIABLES
    part,
    bp, tree, truth, entry, disk, saved, result, cached,
    pages, cache, info, pageCnt, page, stream, defs, metas, roots, wanted, stored, mode,
    reads, got,
    def, given, recs, bytes, back, phase

ivars == <<bp, tree, truth, entry, disk, saved, result, cached>>
pvars == <<pages, cache, info, pageCnt, page, stream, defs, metas, roots, wanted, stored,
           mode, reads, got>>
rvars == <<def, given, recs, bytes, back, phase>>

\* Seven points, and pairs that do not overlap in a way operator< cannot order.
Points == {<<i, i>> : i \in 1..7}
Pairs == {<<1, 2>>, <<2, 3>>, <<1, 3>>, <<4, 5>>, <<3, 5>>, <<5, 6>>}
Index == INSTANCE KvIndex

Pages == INSTANCE KvPages WITH disk <- pages

\* Table definitions that have every type of field.
Field(type, size, head) ==
    [type |-> type, size |-> size, head |-> head, name |-> type, alias |-> type]
Plain(type) == Field(type, 0, 0)

Defs ==
    {<<Plain("SHORT"), Plain("VAR_TEXT")>>,
     <<Plain("VAR_INT"), Field("TEXT", 2, 0)>>,
     <<Field("VAR_INT", 0, 12), Plain("VAR_BINARY"), Plain("VAR_TEXT")>>,
     <<Field("FLDOUBLE", 1, 0), Field("BINARY", 2, 0)>>,
     <<Plain("LONG"), Plain("INT")>>,
     <<Plain("FLOAT")>>,
     <<Plain("DOUBLE"), Plain("VAR_TEXT")>>}
Numbers == {0, 7, 123, 255, -1, -256, -15}
Texts == {<<>>, <<1>>, <<2, 0>>, <<1, 2, 3>>}
Records == INSTANCE KvRecord

NoIndex ==
    /\ bp = 0 /\ tree = 0 /\ truth = 0 /\ entry = 0 /\ disk = 0 /\ saved = 0
    /\ result = 0 /\ cached = 0
NoPages ==
    /\ pages = 0 /\ cache = 0 /\ info = 0 /\ pageCnt = 0 /\ page = 0
    /\ stream = 0 /\ defs = 0 /\ metas = 0 /\ roots = 0 /\ wanted = 0 /\ stored = 0
    /\ mode = 0 /\ reads = 0 /\ got = 0
NoRecords ==
    /\ def = 0 /\ given = 0 /\ recs = 0 /\ bytes = 0 /\ back = 0
    /\ phase = 0

Init ==
    \/ part = "index" /\ Index!Init /\ NoPages /\ NoRecords
    \/ part = "pages" /\ Pages!Init /\ NoIndex /\ NoRecords
    \/ part = "records" /\ Records!Init /\ NoIndex /\ NoPages

Next ==
    \/ part = "index" /\ Index!Next /\ UNCHANGED <<part, pvars, rvars>>
    \/ part = "pages" /\ Pages!Next /\ UNCHANGED <<part, ivars, rvars>>
    \/ part = "records" /\ Records!Next /\ UNCHANGED <<part, ivars, pvars>>

Spec == Init /\ [][Next]_<<part, ivars, pvars, rvars>>

\* A saved index finds what was inserted, and nothing else (SMDIndexSegment).
SearchExact == part = "index" => Index!SearchExact

\* Every split leaves a search tree whose parent pointers are right.
TreeSound == part = "index" => Index!TreeSound

\* A saved table has its records when it is opened again, each at its offset.
RecordsReadBack == part = "pages" => Pages!RecordsReadBack /\ Pages!CacheAgrees

\* getRecordAll() returns the records in order.
AllInOrder == part = "pages" => Pages!AllInOrder

\* "Read all records" (DataFeature.h), whatever their lengths.
ReadAllReturnsAll == part = "pages" => Pages!ReadAllReturnsAll

\* Fields come back from a stream as they were set, alone or in a group.
FieldsReadBack == part = "records" => Records!FieldsReadBack

\* No call on a record waits for ever.
CallsReturn == part = "records" => Records!CallsReturn

\* A FLDOUBLE is rounded to its last digit.
Rounds == part = "records" => Records!Rounds

\* A FLDOUBLE of a group comes back.
GroupKeepsDoubles == part = "records" => Records!GroupKeepsDoubles
=============================================================================
