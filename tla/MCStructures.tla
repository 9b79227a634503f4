---------------------------- MODULE MCStructures ----------------------------
\* Parts of the library that share no state, in one run: the LRU cache, the skip
\* list of a memtable, the shared LevelDB objects, the lock of a database that
\* each process opens once, and KvDB. `part` says which of them moves.
EXTENDS MCLRUCache, SkipList

CONSTANTS
    Paths, Sharers, Objects, Values, MaxHolds, SharersMake,
    Process, Database, MaxOpens, MaxInodes, MaxDeaths,
    MaxKey, PageSpace, MinUnit,
    Table, Size, PageSize, HeadSize, FlagSize, Word, PageEntry, DefSize, Meta, MetaSize,
    KeySize, IndexEntry, Buffers, MaxRecords, MaxReads,
    Garbage, ByteBits, ShortBytes, IntBytes, LongBytes, MaxGroup

VARIABLES
    part,
    objs, leveldbs, holds, store, answer,
    lockfile, inodes, fcntl, table, pc, mode, fd, opens, deaths,
    kvpart,
    bp, tree, truth, entry, disk, saved, result, cached,
    pages, cache, info, pageCnt, page, stream, defs, metas, roots, wanted, stored, kvmode,
    reads, got,
    def, given, recs, bytes, back, phase

factoryvars == <<objs, leveldbs, holds, store, answer>>
lockvars == <<lockfile, inodes, fcntl, table, pc, mode, fd, opens, deaths>>
kvvars == <<kvpart,
    bp, tree, truth, entry, disk, saved, result, cached,
    pages, cache, info, pageCnt, page, stream, defs, metas, roots, wanted, stored, kvmode,
    reads, got,
    def, given, recs, bytes, back, phase>>

Factory == INSTANCE LevelDBFactory
\* An instance of DBLock is the one LevelDB object of a process, for reading and
\* writing.
Lock == INSTANCE DBLock WITH
    Instance <- Process, Proc <- [p \in Process |-> p],
    DB <- [p \in Process |-> CHOOSE d \in Database : TRUE],
    Children <- [d \in Database |-> {d}],
    Modes <- [p \in Process |-> {"rw"}], Destroys <- FALSE
Kv == INSTANCE MCKvDB WITH part <- kvpart, mode <- kvmode

ASSUME FactoryConstants == Factory!NullIsNoWrapper

NoFactory == objs = 0 /\ leveldbs = 0 /\ holds = 0 /\ store = 0 /\ answer = 0
NoKv == kvpart = 0 /\ Kv!NoIndex /\ Kv!NoPages /\ Kv!NoRecords

MCInit ==
    /\ part \in {"cache", "skiplist", "factory", "lock", "kv"}
    /\ Init /\ SInit /\ Lock!Init
    /\ IF part = "factory" THEN Factory!FInit ELSE NoFactory
    /\ IF part = "kv" THEN Kv!Init ELSE NoKv

\* A program that uses KvDB may stop at any time.
KvNext == Kv!Next \/ UNCHANGED kvvars

MCNext ==
    \/ /\ part = "cache" /\ Next
       /\ UNCHANGED <<part, svars, factoryvars, lockvars, kvvars>>
    \/ /\ part = "skiplist" /\ SNext
       /\ UNCHANGED <<part, vars, factoryvars, lockvars, kvvars>>
    \/ /\ part = "factory" /\ Factory!FNext
       /\ UNCHANGED <<part, vars, svars, lockvars, kvvars>>
    \/ /\ part = "lock" /\ Lock!Next
       /\ UNCHANGED <<part, vars, svars, factoryvars, kvvars>>
    \/ /\ part = "kv" /\ KvNext
       /\ UNCHANGED <<part, vars, svars, factoryvars, lockvars>>

MCSpec == MCInit /\ [][MCNext]_<<part, vars, svars, factoryvars, lockvars, kvvars>>

\* Entries of the LRU cache are freed exactly when the last reference goes, their
\* charges add up, and only held entries exceed the capacity (LRUCache).
CacheAccounts == RefsExact /\ UsageExact /\ OverOnlyByHandles

\* List and hash table agree, and Lookup finds the last value inserted (LRUCache).
CacheFinds == TableAgrees /\ NewestFound

\* What LevelDBFactory::create returned stays open and alive until it is given
\* back, and its count is right (LevelDBFactory).
HandlesShared == part = "factory" => Factory!HandlesShared

\* "Used to prevent concurrent access to the same db by multiple processes"
\* (env.h): at most one process has the database (DBLock).
Exclusive == Lock!Exclusive

\* A saved index of KvDB finds what was inserted and nothing else, and every
\* split leaves a search tree with right parent pointers (KvIndex).
IndexExact == part = "kv" => Kv!SearchExact /\ Kv!TreeSound

\* A saved table of KvDB has its records when it is opened again, each at its
\* offset and all of them in order (KvPages).
RecordsExact == part = "kv" => Kv!RecordsReadBack /\ Kv!AllInOrder

\* Fields of the types that can be read come back from a stream as they were set,
\* alone or in a group (KvRecord).
FieldsExact == part = "kv" => Kv!FieldsReadBack
=============================================================================
