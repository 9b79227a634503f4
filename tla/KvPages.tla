------------------------------ MODULE KvPages ------------------------------
(***************************************************************************)
(* The storage of a KvDB table (SMDTable): one file of pages, the chains   *)
(* of pages that make up its page files, the table of page files in page   *)
(* 0, and the read cache CDevCache in front of the file.  Every index has  *)
(* few enough keys for one node; KvIndex is about the trees of several.    *)
(*                                                                         *)
(* A table is written in one session, on a file that open() creates, and   *)
(* read in later ones, on a file opened "rb".  Bytes are cells: a cell     *)
(* holds <<id, i>>, the i-th byte of the stream with number id, or Zero.   *)
(* The length word that put() writes before a stream takes Word cells, the *)
(* first of which holds <<id, 0>>; its value is the length of the stream.  *)
(*                                                                         *)
(* The code is sequential; every method of SMDTable is one action.         *)
(***************************************************************************)
EXTENDS Integers, Sequences, SequencesExt, FiniteSets, FiniteSetsExt, Functions, TLC

CONSTANTS
    Table,      \* names of tables
    Size,       \* lengths of records
    PageSize,   \* m_nPageSize
    HeadSize,   \* sizeof(SMDPageHead)
    FlagSize,   \* STROAGE_FLAG_LENGTH, in page 0 only
    Word,       \* bytes of a length word, and the least minUnit of createPageFile()
    PageEntry,  \* bytes of a page file in the table of page files
    DefSize,    \* bytes of a table definition
    Meta,       \* values of the meta information
    MetaSize,   \* bytes of an entry of it
    KeySize,    \* bytes of a key in a node of an index
    IndexEntry, \* bytes of a table in the index segment
    Buffers,    \* _nMaxBufferNum
    MaxRecords, \* bound: records of the whole file
    MaxReads    \* bound: reads of a session

VARIABLES
    disk,    \* pages of the file
    cache,   \* CDevCache
    info,    \* m_PageInfo: first and last page and nMinUnit of every page file
    pageCnt, \* m_nPageCnt
    page,    \* the page each data page file has in memory
    stream,  \* contents of the streams that were put
    defs,    \* tableSet of SMDTableSegment
    metas,   \* what addMetaInfo() set, as a set with at most one value
    roots,   \* m_mapIndexTableInfo as read: offsets of the roots, by table
    wanted,  \* metas of the session that wrote the file
    stored,  \* by table: stream and offset of every record added
    mode,    \* "create", "saved" or "read"
    reads,   \* reads of this session
    got      \* the last read: what it should and what it did return

pvars == <<disk, cache, info, pageCnt, page, stream, defs, metas, roots, wanted, stored,
           mode, reads, got>>

None == -1                    \* 0xFFFFFFFF: no page, no offset
Zero == <<0, 0>>

\* PageKey_t: the type of a segment and a name.
PageMgr == <<"SEG_TYPE_PAGEMGR", "smd_pagemgr">>
TableSeg == <<"SEG_TYPE_TABLE", "table_seg">>
MetaSeg == <<"SEG_TYPE_METAINFO", "smd_meta">>
IndexSeg == <<"SEG_TYPE_INDEX", "smd_index">>
Data(t) == <<"SEG_TYPE_DATA", t>>
Index(t) == <<"SEG_TYPE_INDEX", t>>

-----------------------------------------------------------------------------
(* SMDPage *)

HeadLen(no) == IF no = 0 THEN HeadSize + FlagSize ELSE HeadSize

\* SMDPage(), reset() and checkFirstPage()
Blank(no) ==
    [no |-> no, next |-> None, space |-> PageSize - HeadLen(no),
     data |-> [i \in 1..PageSize |-> Zero]]

\* freeSpace(): the link to the next page stays.
FreeSpace(p) == [Blank(p.no) EXCEPT !.next = p.next]

SpaceOffset(p) == PageSize - p.space
FileOffset(p) == p.no * PageSize
ContentOffset(p) == FileOffset(p) + HeadLen(p.no)

Overwrite(data, at, cells) ==
    SubSeq(data, 1, at) \o cells \o SubSeq(data, at + Len(cells) + 1, PageSize)

\* write(): at the end of what is used, as much as there is room for.
Write(p, cells) ==
    LET n == Min({p.space, Len(cells)})
    IN  [p EXCEPT !.data = Overwrite(@, SpaceOffset(p), SubSeq(cells, 1, n)),
                  !.space = @ - n]

\* read(): not beyond what is used.
Read(p, at, n) == SubSeq(p.data, at + 1, Min({at + n, SpaceOffset(p)}))

-----------------------------------------------------------------------------
(* CDevCache: CPageMap, CPriorityQue and the buffers *)

\* init(): only pages that the file has now will ever be given out.
CacheInit(pages) ==
    [map   |-> [n \in 0..Max(pages) |-> None],
     owner |-> [b \in 1..Buffers |-> None],
     que   |-> [i \in 1..Buffers |-> (Buffers + 1) - i],
     data  |-> [b \in 1..Buffers |-> Blank(0)]]

\* updatePriority(): the buffer goes to the head of the queue.
UpdatePriority(c, b) == [c EXCEPT !.que = <<b>> \o SelectSeq(@, LAMBDA x : x # b)]

\* Fault: the page that had the buffer stays in the map.
FaultSwapPage(c, no) ==
    LET b == Last(c.que)
    IN  [c EXCEPT !.map = [n \in DOMAIN @ |-> IF n = no THEN b ELSE @[n]],
                  !.owner[b] = no,
                  !.que = <<b>> \o Front(@)]

\* getLazyBufNoAndSwapPage(), addPageMap() and delPageMap()
SwapPage(c, no) ==
    LET b == Last(c.que)
    IN  [c EXCEPT !.map = [n \in DOMAIN @ |->
                              IF n = no THEN b
                              ELSE IF n = c.owner[b] THEN None ELSE @[n]],
                  !.owner[b] = no,
                  !.que = <<b>> \o Front(@)]

\* A page that was never written reads as zeros.
PageAt(no) ==
    IF no \in DOMAIN disk THEN disk[no] ELSE [Blank(no) EXCEPT !.next = 0, !.space = 0]

\* getPageByNo() of a page it knows: the cache afterwards, with the page in
\* the buffer at the head of its queue.
CachePage(c, no) ==
    IF c.map[no] # None THEN UpdatePriority(c, c.map[no])
    ELSE LET s == SwapPage(c, no)
         IN  [s EXCEPT !.data[s.que[1]] = PageAt(no)]

-----------------------------------------------------------------------------
(* SMDPageManagement.  A state of the file and of what is in memory of it   *)
(* is a record f; every operator returns the next one.                      *)

Files == [disk |-> disk, cache |-> cache, info |-> info, cnt |-> pageCnt,
          page |-> Blank(0), has |-> FALSE, ok |-> TRUE, off |-> None, new |-> <<>>]

\* getPageByPageNo(): a page that cannot be read leaves a blank one behind.
GetPage(f, no) ==
    IF f.has /\ f.page.no = no THEN [f EXCEPT !.ok = TRUE]
    ELSE IF no \notin DOMAIN f.cache.map
    THEN [f EXCEPT !.page = Blank(no), !.has = TRUE, !.ok = FALSE]
    ELSE LET c == CachePage(f.cache, no)
         IN  [f EXCEPT !.cache = c, !.has = TRUE, !.ok = TRUE,
                       !.page = [c.data[c.que[1]] EXCEPT !.no = no]]

\* savePageToFile(): fwrite fails on a file that is only read.
SavePage(f) ==
    IF mode = "read" THEN [f EXCEPT !.ok = FALSE]
    ELSE [f EXCEPT !.disk = (f.page.no :> f.page) @@ @, !.ok = TRUE]

\* incLastPageNo()
IncLast(i, last, new) ==
    LET at == {k \in DOMAIN i : i[k].last = last}
    IN  IF at = {} THEN i ELSE [i EXCEPT ![CHOOSE k \in at : TRUE].last = new]

\* getNextPage(): the next page of the chain, which is made longer if needed.
NewPage(tied, last) ==
    IF ~tied.ok THEN tied
    ELSE SavePage([tied EXCEPT !.info = IncLast(@, last, tied.cnt), !.page = Blank(tied.cnt)])

NextPage(f) ==
    IF f.page.next # None THEN GetPage(f, f.page.next)
    ELSE NewPage(SavePage([f EXCEPT !.cnt = @ + 1, !.page.next = f.cnt + 1]), f.page.no)

-----------------------------------------------------------------------------
(* SMDPageFile *)

\* The length word and the bytes of the stream with number id.
LengthWord(id) == [i \in 1..Word |-> <<id, 1 - i>>]
Body(id, n) == [i \in 1..n |-> <<id, i>>]

RECURSIVE PutRest(_, _)
\* The loop of put() behind the length word.
PutRest(f, rest) ==
    IF rest = <<>> THEN SavePage(f)
    ELSE IF f.page.space = 0 THEN PutRest(NextPage(SavePage(f)), rest)
    ELSE PutRest([f EXCEPT !.page = Write(@, rest)],
                 SubSeq(rest, Min({f.page.space, Len(rest)}) + 1, Len(rest)))

\* Fault: a rest of the page too short for a length word is used.
FaultTight(g, unit) == g

\* A rest of the page shorter than nMinUnit is left alone.
WithRoom(g, unit) == IF g.page.space < unit THEN NextPage(SavePage(g)) ELSE g

PutHere(h, id, n) ==
    [PutRest([h EXCEPT !.page = Write(@, LengthWord(id))], Body(id, n))
        EXCEPT !.off = FileOffset(h.page) + SpaceOffset(h.page)]

PutOn(g, unit, id, n) ==
    IF n = 0 \/ ~g.ok THEN [g EXCEPT !.off = None] ELSE PutHere(WithRoom(g, unit), id, n)

\* put(stream): append to the last page, go on in new pages.
Put(f, name, id, n) == PutOn(GetPage(f, f.info[name].last), f.info[name].unit, id, n)

\* The first byte of the page that f has in memory.
AtHead(f) == [file |-> f, at |-> HeadLen(f.page.no)]

RECURSIVE GetRest(_, _, _)
\* The loop of get(): n bytes from a place.
GetRest(b, n, acc) ==
    LET room == PageSize - b.at
    IN  IF n <= room THEN [file |-> b.file, cells |-> acc \o Read(b.file.page, b.at, n)]
        ELSE GetRest(AtHead(NextPage(b.file)), n - room, acc \o Read(b.file.page, b.at, room))

\* The length is whatever the length word says.
GetStream(b) ==
    LET id == b.file.page.data[b.at + 1][1]
    IN  IF id = 0 THEN [file |-> b.file, cells |-> <<>>]
        ELSE GetRest([b EXCEPT !.at = @ + Word], stream[id].size, <<>>)

GetOn(g, unit, off) ==
    CASE ~g.ok -> [file |-> g, cells |-> <<>>]
      [] off = None -> GetStream(AtHead(g))
      [] off # None /\ PageSize - (off % PageSize) < unit -> GetStream(AtHead(NextPage(g)))
      [] OTHER -> GetStream([file |-> g, at |-> off % PageSize])

\* get(stream, off)
Get(f, name, off) ==
    GetOn(GetPage(f, IF off = None THEN f.info[name].root ELSE off \div PageSize),
          f.info[name].unit, off)

RECURSIVE ClearRest(_)
\* clearPage(): every page of the chain, each keeps its link, up to one that
\* cannot be read.
ClearRest(f) ==
    LET s == SavePage([f EXCEPT !.page = FreeSpace(@)])
        n == NextPage(s)
    IN  IF s.page.next = None THEN s ELSE IF n.ok THEN ClearRest(n) ELSE n

ClearPage(f, name) == ClearRest(GetPage([f EXCEPT !.has = FALSE], f.info[name].root))

-----------------------------------------------------------------------------
(* The table of page files *)

InfoSize(i) == Word + (PageEntry * Cardinality(DOMAIN i))

\* A stream of n bytes; those of the segments and of the indexes have one more
\* part that is read again.
Stream(n) ==
    [size |-> n, info |-> <<>>, cnt |-> 0, defs |-> <<>>, metas |-> {}, node |-> <<>>,
     roots |-> <<>>]

\* What saveInnerInfoToFile() serialises.
InfoStream(f) == [Stream(InfoSize(f.info)) EXCEPT !.info = f.info, !.cnt = f.cnt]

\* The next number of a stream, with streams added in the same step.
NextId(f) == Len(stream) + Len(f.new) + 1

\* The stream is made, the pages of the page file are cleared, and the stream
\* is put.  The result of put() is ignored.
Replace(f, name, content) ==
    [Put(ClearPage(f, name), name, NextId(f), content.size) EXCEPT !.new = Append(@, content)]

\* saveInnerInfoToFile()
SaveInnerInfo(f) == Replace(f, PageMgr, InfoStream(f))

\* createPageFile().  The page that a new page file gets at the end is the one
\* that m_nPageCnt names then.
FirstPage(s) == SavePage([s EXCEPT !.page = Blank(s.cnt), !.has = TRUE])

CreatePageFile(f, name) ==
    IF name \in DOMAIN f.info THEN f
    ELSE FirstPage(SaveInnerInfo([f EXCEPT !.cnt = @ + 1,
            !.info = @ @@ (name :> [root |-> f.cnt + 1, last |-> f.cnt + 1, unit |-> Word])]))

\* The cells are those of one stream, from its first to its last byte.
Whole(cells) == cells # <<>> /\ cells = Body(cells[1][1], Len(cells))

\* m_PageInfo of a file that has no page files: PageNo_t() of the table itself.
NoInfo == PageMgr :> [root |-> 0, last |-> 0, unit |-> 0]

\* getInnerInfoFromFile(): what page 0 holds; nothing when it starts with 0.
InfoRead(cells) ==
    IF Whole(cells) THEN stream[cells[1][1]]
    ELSE [info |-> NoInfo, cnt |-> 0]

\* read() of SMDMetaSegment, SMDTableSegment and SMDIndexSegment
GetSegment(f, name) ==
    IF name \in DOMAIN f.info THEN Get([f EXCEPT !.has = FALSE], name, None)
    ELSE [file |-> f, cells |-> <<>>]

-----------------------------------------------------------------------------
(* SMDTable *)

\* A new file: saveFlag() wrote page 0 before the cache looked at the file.
Init ==
    /\ disk = 0 :> Blank(0)
    /\ cache = CacheInit({0})
    /\ info = NoInfo
    /\ pageCnt = 0
    /\ page = [t \in Table |-> [has |-> FALSE, page |-> Blank(0)]]
    /\ stream = <<>> /\ defs = <<>> /\ metas = {} /\ roots = <<>> /\ wanted = {}
    /\ stored = [t \in Table |-> <<>>]
    /\ mode = "create" /\ reads = 0
    /\ got = [kind |-> "none", table |-> "none", want |-> <<>>, have |-> <<>>]

\* What an operation leaves of the file and of the page table.
Becomes(f) ==
    /\ disk' = f.disk /\ cache' = f.cache /\ info' = f.info /\ pageCnt' = f.cnt
    /\ stream' = stream \o f.new

\* The page file of table t has its page from the last call.
DataFile(t) == [Files EXCEPT !.has = page[t].has, !.page = page[t].page]

\* addTableStruct(): the definition, and a DataFeature with its page file.
AddTableStruct(t) ==
    /\ mode = "create" /\ t \notin Range(defs)
    /\ defs' = Append(defs, t)
    /\ Becomes(CreatePageFile(Files, Data(t)))
    /\ UNCHANGED <<page, metas, roots, wanted, stored, mode, reads, got>>

\* DataFeature::addRecord(), called by add(): setToLastPageFile() has a page
\* even when it could not be read.  The offset goes to the index.
AddRecord(t, n) ==
    Put([GetPage(DataFile(t), info[Data(t)].last) EXCEPT !.new = <<Stream(n)>>],
        Data(t), Len(stream) + 1, n)

Add(t, n) ==
    /\ mode = "create" /\ t \in Range(defs)
    /\ MapThenSumSet(LAMBDA u : Len(stored[u]), Table) < MaxRecords
    /\ \E f \in {AddRecord(t, n)} :
        /\ Becomes(f)
        /\ page' = [page EXCEPT ![t] = [has |-> f.has, page |-> f.page]]
        /\ stored' = IF f.off = None THEN stored
                     ELSE [stored EXCEPT ![t] = Append(@, [id |-> Len(stream) + 1, off |-> f.off])]
    /\ UNCHANGED <<defs, metas, roots, wanted, mode, reads, got>>

\* SMDTableSegment::save()
SaveTableSegment(f) ==
    IF defs = <<>> THEN f
    ELSE Replace([CreatePageFile(f, TableSeg) EXCEPT !.has = FALSE], TableSeg,
                 [Stream(Word + (DefSize * Len(defs))) EXCEPT !.defs = defs])

\* SMDMetaSegment::save()
SaveMetaSegment(f) ==
    IF metas = {} THEN f
    ELSE Replace([CreatePageFile(f, MetaSeg) EXCEPT !.has = FALSE], MetaSeg,
                 [Stream(Word + MetaSize) EXCEPT !.metas = metas])

\* saveOneNode() of the root: the offset of every record, in the order of the
\* keys.
Node(t) ==
    [Stream(Word + (KeySize * Len(stored[t]))) EXCEPT
        !.node = [i \in DOMAIN stored[t] |-> stored[t][i].off]]

\* The second pass of saveIndex() puts the node where the first put it: the
\* same bytes, if the page can be had.
PutAgain(f) == IF f.off = None THEN f ELSE GetPage(f, f.off \div PageSize)

\* saveIndex() in a page file that has its first page in memory.
SaveNode(f, t) ==
    PutAgain(Put([f EXCEPT !.new = Append(@, Node(t))], Index(t), NextId(f), Node(t).size))

SaveIndex(f, t) ==
    LET c == [CreatePageFile(f, Index(t)) EXCEPT !.has = FALSE]
    IN  SaveNode(GetPage(c, c.info[Index(t)].root), t)

\* The tables that add() made an index for
Indexed == {t \in Table : stored[t] # <<>>}

\* saveAllIndex(): one index after the other, and whether all could be saved.
SaveAllIndex(f) ==
    FoldLeft(LAMBDA acc, t : LET s == SaveIndex(acc.file, t)
                             IN  [file |-> s, ok |-> acc.ok /\ s.ok /\ s.off # None],
             [file |-> f, ok |-> TRUE], SetToSeq(Indexed))

\* SMDIndexSegment::save(): nothing about any index when one of them failed.
\* An index begins with the first page of its page file.
SaveIndexSegment(f) ==
    LET all == SaveAllIndex(f)
    IN  IF ~all.ok \/ Indexed = {} THEN all.file
        ELSE Replace([CreatePageFile(all.file, IndexSeg) EXCEPT !.has = FALSE], IndexSeg,
                     [Stream(Word + (IndexEntry * Cardinality(Indexed))) EXCEPT
                        !.roots = [t \in Indexed |->
                            ContentOffset(Blank(all.file.info[Index(t)].root))]])

\* addMetaInfo(): the value of a key that is there is replaced.
AddMetaInfo(v) ==
    /\ mode = "create" /\ v \notin metas
    /\ metas' = {v} /\ wanted' = {v}
    /\ UNCHANGED <<disk, cache, info, pageCnt, page, stream, defs, roots, stored, mode, reads,
                   got>>

\* save(): it returns true, whatever its parts return.
Save ==
    /\ mode = "create"
    /\ Becomes(SaveInnerInfo(SaveIndexSegment(SaveTableSegment(SaveMetaSegment(Files)))))
    /\ mode' = "saved"
    /\ UNCHANGED <<page, defs, metas, roots, wanted, stored, reads, got>>

\* The page table that getInnerInfoFromFile() finds.
WithInfo(g) ==
    [g.file EXCEPT !.has = FALSE, !.info = InfoRead(g.cells).info,
                   !.cnt = InfoRead(g.cells).cnt]

Opened ==
    WithInfo(Get([Files EXCEPT !.cache = CacheInit(DOMAIN disk),
                               !.info = NoInfo], PageMgr, None))

\* close() and open() of the file that exists now.
Reopen ==
    /\ mode = "saved"
    /\ mode' = "read"
    /\ \E m \in {GetSegment(Opened, MetaSeg)} : \E d \in {GetSegment(m.file, TableSeg)} :
       \E x \in {GetSegment(d.file, IndexSeg)} :
        /\ Becomes(x.file)
        /\ metas' = IF Whole(m.cells) THEN stream[m.cells[1][1]].metas ELSE {}
        /\ defs' = IF Whole(d.cells) THEN stream[d.cells[1][1]].defs ELSE <<>>
        /\ roots' = IF Whole(x.cells) THEN stream[x.cells[1][1]].roots ELSE <<>>
    /\ page' = [t \in Table |-> [has |-> FALSE, page |-> Blank(0)]]
    /\ UNCHANGED <<wanted, stored, reads, got>>

Reads(t, f) ==
    /\ reads < MaxReads /\ reads' = reads + 1
    /\ Becomes(f)
    /\ page' = [page EXCEPT ![t] = [has |-> f.has, page |-> f.page]]
    /\ UNCHANGED <<defs, metas, roots, wanted, stored, mode>>

\* searchFromFile() of the i-th key of t: the file then, and the offset.
SearchFromFile(t, i) ==
    IF t \notin DOMAIN roots \/ Index(t) \notin DOMAIN info THEN [file |-> Files, off |-> None]
    ELSE LET x == Get(Files, Index(t), roots[t])
         IN  [file |-> x.file,
              off  |-> IF Whole(x.cells) /\ i \in DOMAIN stream[x.cells[1][1]].node
                       THEN stream[x.cells[1][1]].node[i] ELSE None]

\* The data page file of t goes on with the cache that f has.
DataAfter(t, f) == [f EXCEPT !.has = page[t].has, !.page = page[t].page]

\* search(): the index has the offset that getRecord() gets the record from.
FoundBy(t, x) ==
    IF x.off = None THEN [file |-> DataAfter(t, x.file), cells |-> <<>>]
    ELSE Get(DataAfter(t, x.file), Data(t), x.off)

Search(t, i) ==
    /\ mode = "read" /\ t \in Range(defs) /\ Data(t) \in DOMAIN info
    /\ \E g \in {FoundBy(t, SearchFromFile(t, i))} :
        /\ Reads(t, g.file)
        /\ got' = [kind |-> "one", table |-> t, have |-> <<g.cells>>,
                   want |-> <<Body(stored[t][i].id, stream[stored[t][i].id].size)>>]

\* getNextOffset() behind a record.  A page that was not the last one after
\* all is looked for and the result of that is ignored.
AtContent(f) == [file |-> f, off |-> ContentOffset(f.page)]

NextOffset(f, off) ==
    IF f.page.next = None /\ off % PageSize = SpaceOffset(f.page)
    THEN [file |-> f, off |-> None]
    ELSE IF ((f.page.no + 1) * PageSize) - off \in 0..(Word - 1) THEN AtContent(NextPage(f))
    ELSE [file |-> f, off |-> off]

\* Fault: the head of the next page is not skipped.
FaultAfterHead(f, off, b, n) == off + n + Word

\* Where readALLOneByOne() looks for the record behind one of n bytes that
\* began in page b at offset off and ended in page f.page.
After(f, off, b, n) ==
    CASE f.page.no = b -> off + n + Word
      [] f.page.no - b = 1 -> off + n + Word + HeadLen(f.page.no)
      [] OTHER -> ContentOffset(f.page)
                    + (((n + Word) - (PageSize - (off % PageSize))) % (PageSize - HeadLen(f.page.no)))

\* One round of readALLOneByOne(): what get() returned from p.off.
OneRead(p, g) ==
    [p EXCEPT !.at = NextOffset(g.file, After(g.file, @.off, @.file.page.no, Len(g.cells))),
              !.cells = Append(@, g.cells)]

RECURSIVE ReadFrom(_, _, _)
\* The loop of readALLOneByOne(), for at most `fuel` records.
ReadFrom(p, t, fuel) ==
    IF p.at.off = None \/ fuel = 0 THEN p
    ELSE ReadFrom(OneRead(p, Get(p.at.file, Data(t), p.at.off)), t, fuel - 1)

ReadAll(t) ==
    ReadFrom([at |-> AtContent(GetPage(DataFile(t), info[Data(t)].root)), cells |-> <<>>],
             t, Len(stored[t]) + 1)

\* getRecordAll() of a table with records.
GetRecordAll(t) ==
    /\ mode = "read" /\ t \in Range(defs) /\ Data(t) \in DOMAIN info /\ stored[t] # <<>>
    /\ \E r \in {ReadAll(t)} :
        /\ Reads(t, r.at.file)
        /\ got' = [kind |-> "all", table |-> t, have |-> r.cells,
                   want |-> [i \in DOMAIN stored[t] |->
                                Body(stored[t][i].id, stream[stored[t][i].id].size)]]

Next ==
    \/ \E t \in Table : AddTableStruct(t) \/ GetRecordAll(t)
    \/ \E t \in Table, n \in Size : Add(t, n)
    \/ \E t \in Table : \E i \in DOMAIN stored[t] : Search(t, i)
    \/ \E v \in Meta : AddMetaInfo(v)
    \/ Save
    \/ Reopen

-----------------------------------------------------------------------------
(* Properties *)

\* The tables and records of the session that wrote the file are there when
\* it is opened again: save() returned true.
Saved ==
    mode = "read" =>
        /\ metas = wanted
        /\ \A t \in Table : stored[t] # <<>> => t \in Range(defs) /\ Data(t) \in DOMAIN info

\* Every record is found by the index that save() wrote and read back from the
\* offset that put() returned, however the page files share the file, and
\* whatever the cache had to give up for it.
RecordsReadBack == Saved /\ (got.kind = "one" => got.have = got.want)

\* Some record ends where its page ends.
EndsWithPage(t) ==
    \E i \in DOMAIN stored[t] :
        \E no \in DOMAIN disk :
            disk[no].space = 0 /\ disk[no].data[PageSize]
                = <<stored[t][i].id, stream[stored[t][i].id].size>>

\* getRecordAll() returns the records in the order they were added, each
\* once, unless one of them ends exactly with a page.
AllInOrder ==
    (got.kind = "all" /\ ~EndsWithPage(got.table)) => got.have = got.want

\* "Read all records" (DataFeature.h): without the exception.
ReadAllReturnsAll == got.kind = "all" => got.have = got.want

\* The cache gives out what the file holds, never a page of another number:
\* map, owners and queue agree.
CacheAgrees ==
    /\ \A n \in DOMAIN cache.map : cache.map[n] # None => cache.owner[cache.map[n]] = n
    /\ \A b \in 1..Buffers : cache.owner[b] # None => cache.map[cache.owner[b]] = b
    /\ Range(cache.que) = 1..Buffers
=============================================================================
