# A TLA+ verification of leveldblib

leveldblib is a key-value store for Android and desktop: a fork of LevelDB
(`src/LevelDBLib/jni/leveldb`, with a wrapper `LevelDB` and `LevelDBFactory`),
and KvDB (`src/LevelDBLib/jni/KvDB`), a page file with a B-tree index. This
directory holds TLA+ modules that model the code, the TLC configurations that
check them and proofs that TLAPS checks.
Paths below are relative to `src/LevelDBLib/jni/`.

What is special about this fork decides what is worth checking:

* a database has ONE table file `<name>.ldb` and ONE manifest
  `<name>.manifest`, whatever number the code computes for them
  (`FILENUMBER_LDB`, `DescriptorFileName`), only logs are numbered; there is no
  CURRENT file (`SetCurrentFile` returns OK at once);
* `TableCache::FindTable` has one entry that is never evicted;
* the intended use is a bulk load by one process, `LevelDB::make` (close, open
  for reading, which turns the log into the table, close), and reading later.

## 1. Inventory

| Part | State | Operations | Talks to |
|---|---|---|---|
| `DBImpl` (`leveldb/db/db_impl.cpp`) | `mutex_`, `writers_`, `mem_`, `imm_`, `log_`, `logfile_number_`, `bg_error_`, `shutting_down_`, `bg_compaction_scheduled_`, `manual_compaction_`, `pending_outputs_`, snapshots | `Write`, `Get`, iterators, `TEST_CompactMemTable`, `TEST_CompactRange`, `BackgroundCall`, `~DBImpl` | everything below, by calls under and outside `mutex_` |
| Opening and recovery (`DB::Open`, `Recover`, `RecoverLogFile`, `NewDB`, `DeleteObsoleteFiles`) | files of the database, counters | open, replay logs, create, save the manifest, delete | `VersionSet`, `BuildTable`, `Env` |
| `VersionSet` (`version_set.cpp`, `version_edit.cpp`) | current version, `next_file_number_`, `log_number_`, `last_sequence_`, compaction pointers | `LogAndApply`, `Recover`, `PickCompaction`, `CompactRange`, `Builder` | manifest log, table cache |
| Log format (`log_writer.cpp`, `log_reader.cpp`) | block offset, resync flag | `AddRecord`, `ReadRecord` | `Env` files |
| Table format (`leveldb/table`) | block being built, restarts | add, finish, seek | `Env` files, block cache |
| Table cache, LRU cache (`table_cache.cpp`, `util/cache.cpp`) | handles with reference counts, LRU list | lookup, insert, release, erase | tables |
| Memtable, skip list (`memtable.cpp`, `skiplist.h`) | nodes, heights | insert (one writer), lock-free reads | `DBImpl` |
| Iterators (`db_iter.cpp`, `merger.cpp`, `two_level_iterator.cpp`) | position, direction | seek, next, prev | memtables, tables |
| Repair, `DestroyDB`, C binding, dump tool | none that lasts | one pass over files | all |
| Environment (`util/env_posix.cpp`) | background queue, lock table, mmap limit | `Schedule`, `LockFile`, file operations | operating system |
| Wrapper (`LevelDB.cpp`, `LevelDBFactory.cpp`, `include/Reference.cpp`) | handle, atomic batch, map of open databases with counts | open, put, get, `atomCommit`, `make`, `close`, `destory`, factory create and remove | `DB` |
| KvDB pages (`dev_buffer`, `SMDPageManagement`, `SMDPageFile`) | cached pages, page chains, table of page files | put, get, save, reopen, allocate a page | file stream |
| KvDB index and table (`SMDIndexSegment`, `SMDSStorage`, `Record`, field types) | B-tree or B+ tree nodes, records, definitions | add, save, search, read all | pages |

Interaction. A client thread calls `Write`; the front of `writers_` commits for
a group of waiting threads, releasing `mutex_` while it writes the log and
fills `mem_`. `MakeRoomForWrite` turns a full `mem_` into `imm_`, opens a new
log and schedules the one background thread, which builds the table, appends an
edit to the manifest and then deletes the logs below the new log number.
Readers take references under `mutex_` and read without it. The destructor
sets `shutting_down_` and waits for the background call. On opening, the
manifest is read, the logs from its log number on are replayed into tables, a
new log is made, the manifest is rewritten in place.

What is hard, and what makes each part correct:

* group commit: one leader at a time, no lost wake-up, statuses that tell the
  truth, sync honoured for every member, numbers never reused;
* background scheduling: whoever sleeps on `bg_cv_` sleeps while work is
  scheduled, errors wake everybody, nothing runs after the destructor;
* the log number: a log is given up only when all it holds is in a table that
  the manifest names, under any interleaving with `Write` and at any crash;
* readers: memtable, immutable memtable and version are taken together;
* crash and failure: the steps of opening and flushing happen in an order in
  which every prefix leaves files the next opening can use. With files that are
  rewritten in place this holds for one bulk load and not beyond it (section 5);
* counters across sessions: log numbers and sequence numbers never repeat;
* level metadata, iterators, caches, pages and trees: sequential algorithms
  whose boundary cases (direction switches, splits, evictions) tests miss.

`PROJECT.json` lists all components, also those that stay out, and the hazards
at their lines.

## 2. Plan

The parts were modelled in the order in which they matter to whoever stores
data here: `DBImpl` (threads), `DBStore` (files, sessions, crashes), `LogFormat`
and `DBLock`; then what lies on top of files, `VersionSet` against the abstract
store `KVStore`, `SortedTable` and `DBIter` against the abstract `Cursor`,
`SkipList` and `LRUCache`; the wrapper in `LevelDBFactory`; and KvDB in
`KvIndex`, `KvPages` and `KvRecord`.

The runs are kept to a dozen, each long enough to reach every action of its
modules. Parts that share no state share a run (`formats`, `structures`): a
variable `part`, chosen at the start, says which of them moves.

Proved: every safety property of `DBImpl`, `DBLock` and `SkipList` that a passing
run checks; type correctness, the counters and `OneLoadKept` of `DBStore`; sharing
of handles in `LevelDBFactory`; every safety property of `LogFormat` that a passing
run checks, and that its reader advances. Left, in this order:

1. reference counts of the LRU cache;
2. `MergeSafe` and `ManifestUntilSecond` of `VersionSet`, whose operators would first
   have to be written without recursion.

## 3. Modules and how they follow the code

### DBImpl

One state for one open database. A thread is a call: `Writer` are calls of
`Write` (a NULL batch is the first half of `TEST_CompactMemTable`), `Reader`
calls of `Get` or iterators, `Manual` calls of `TEST_CompactRange`, `BG` the
background thread, `Closer` the destructor. `mutex` is the owner of `mutex_`;
`cvwait` and `bgwait` are the threads asleep on their `Writer::cv` and on
`bg_cv_`. `pc` says where a thread is; a thread at a pc in `Locked` that does not
own the mutex is blocked in `Lock`, and the steps of code that runs without the
mutex have no guard on it. An action is a piece of code between two points where
other threads can interfere.

| Code | Actions |
|---|---|
| `Write`, queue | `Write`, `AwaitTurn`, `TakeTurn`, `ReturnDone` |
| `MakeRoomForWrite`, a branch each | `RoomError`, `RoomDelay`, `RoomWait`, `RoomSwitch`, `RoomSwitchFail`, `RoomFound` |
| `BuildBatchGroup` | `GroupJoin` per turn of the loop, `GroupClose` |
| log, sync, insert without `mutex_` | `AddRecord(Fail)`, `SyncLog(Fail)`, `InsertEntry`, `InsertDone` |
| end of `Write` | `Commit`, `Finish` |
| `TEST_CompactMemTable` | `AwaitImm`, `ReturnImm` |
| `Get` | `Get`, `GetDone` |
| `TEST_CompactRange` | `CompactRange`, `ManualSubmit`, `ManualWait`, `ManualReturn` |
| `BackgroundCall`, `BackgroundCompaction` | `BgSkip`, `BgFlush`, `BgManualEmpty`, `BgManualWork`, `BgPick`, `BgManualEnd`, `BgEnd` |
| `CompactMemTable`, `LogAndApply` | `BgBuild`, `BgBuilt`, `BgApply`, `BgFlushed`, `BgFlushFails` |
| `DoCompactionWork`, `InstallCompactionResults` | `BgWorkImm`, `BgWorkEnd`, `BgInstallStart`, `BgInstall`, `BgCompacted`, `BgCompactFails` |
| `~DBImpl` | `Close`, `CloseWait`, `CloseDone` |

Data is sequence numbers: a batch is its number of entries, a memtable the
numbers inserted in it, named by the log opened with it; `version` is what
installed tables hold. Level 0 is a count, the other levels a number of pending
compactions that a reader or a flush may raise; which tables a compaction picks
is nondeterministic. Any file operation may fail, `MaxFail` times.
`InsertInto` inserts entry by entry so that readers can come in between.

### DBStore

The files of one database through several processes. A step is one file
operation or one piece of code between two of them, and `Crash` may come
between any two: memory is lost and what was written to files stays (a process
crash, not a power failure; what sync adds is the subject of `SyncHonoured`).
`wal` maps log numbers to entries, `ldb` is the one table file, `manifest` and
`mlog`, `mnext`, `mseq`, `mfiles` are what the edits of the manifest add up to.
An entry is its sequence number and has a key of its own. One client writes, the
background flush runs beside it. `Open` to `Opened` are `DB::Open` with
`Recover`, `NewDB`, `RecoverLogFile`, `LogAndApply` and `DeleteObsoleteFiles`;
`PutLog`, `PutAck`, `Switch`, `ForceSwitch` the write path; the `Flush` actions
`CompactMemTable`; `Close`, `CloseDone` the destructor. A read-only session
creates no log. `home`, `acked`, `used`, `dropped` are history variables.

### LogFormat

The bytes of one log (or manifest) file. A byte is named by the physical record it
belongs to and its place in it, so that a header, a payload or a mixture of
both can be told apart without encoding anything; the checksum accepts the bytes
of one physical record, whole and in order, and nothing else. What the length and
type of a header made of bytes of several physical records say is arbitrary.

| Code | Actions |
|---|---|
| `Writer::AddRecord`, one turn of its loop with `EmitPhysicalRecord` | `AddRecord`, `Emit`, `EmitFails`, `TrailerLost` |
| death of the process, any prefix stays | `Tear` |
| `Writer(dest, dest_length)` (`reuse_logs`) | `Reuse` |
| `Reader::ReadRecord`, `SkipToInitialBlock` | `StartReader`, `ReadRecord`, `SkipFails` |
| `ReadPhysicalRecord`, a result each | `ReadBlock`, `ReadBlockFails`, `ReadEof`, `ReadBad`, `ReadEarly`, `Resync` |
| the switch of `ReadRecord` | `ReadFull`, `ReadFirst`, `ReadMiddle`, `ReadLast` |

### DBLock

Instances are `LevelDB` objects, each of one process and for one database;
processes and databases of one directory are parameters, as is which names begin
with which (`Children`: `GetChildren` matches a prefix). `table` is
`locked_files_` of a process, `lockfile` the inode behind the name of the lock
file, `fcntl` the process that locks an inode. `LockFile` is four steps
(`LockOpen`, `LockInsert` or `LockHeld`, `LockFcntl` or `LockRefused`),
`UnlockFile` three (`UnlockFcntl`, `UnlockRemove`, `UnlockClose`). `DtorDelete`
is the loop of `~DBImpl` that deletes lock files in read-only mode, which comes
before the unlock; `Destroy` is `LevelDB::destory` up to its failing `LockFile`.
`Die` kills a process: its descriptors and fcntl locks go, its files stay.

### LRUCache

One shard. Every operation runs under the mutex of the shard and is one action:
`Insert` with its eviction loop (`Evicted`) and the growth of the table
(`TableInsert`, `Resize`), `LookupHit`, `Release`, `Erase`, `Prune`, `Destroy`.
`handles` counts what callers have not released and is the only variable that is
not in the code.

### VersionSet and KVStore

`VersionSet` has the levels of tables and everything that rearranges them. An
entry is key, number and kind, a table the set of its entries with the metadata
the code keeps (number, smallest, largest, size). `Write`, `Switch` and
`CompactMemTable` with `PickLevelForMemTableOutput`; `GetCharges` and
`RecordReadSample` are the seeks that charge a table; `BackgroundCompaction` and
`ManualCompaction` choose the inputs (`PickCompaction`, `CompactRange`,
`SetupOtherInputs`, `IsTrivialMove`), `OpenOutput` begins the output, `Install` drops,
cuts and installs (`DoCompactionWork`, `ShouldStopBefore`, `IsBaseLevelForKey`,
`Builder`), so that a flush can come between choosing, beginning and installing as in
the code; `GetSnapshot`, `ReleaseSnapshot`; `Reopen` reads the manifest back, turns the
memtables into tables and encodes a snapshot of the version. How many seeks a
table has left is not counted: a read may find `allowed_seeks` used up at any time.

Every table has the number 0 (`FILENUMBER_LDB`), as its callers give it, so all tables
share one file: `ldb` is what that file holds and `built` how many tables were begun in
it (0, 1, or 2 for more). `Builder::Apply`, `BySmallestKey` and the set `added_files`
compare numbers as the code does. The algorithms are LevelDB's and assume that a number
is not used again, which decides what can be said:

* of contents and of the manifest, up to the second table. After that the file is not
  what the metadata says, and what a process finds that has the old table open, or
  opens the new one with the size of the old, is left out of the model;
* of the merge itself (which tables it takes along, which entries it drops), for every
  merge that began with disjoint levels, however many tables there were;
* that levels stay disjoint and that the manifest stays exact is false beyond that, and
  section 5 has the counterexamples.

`KVStore` is what `db.h` promises: a map, writes, and snapshots that keep what the
map was. `StoreUntilSecond` is the refinement: under the mapping that looks every key up
through memtables and levels as `Version::Get` does, each step of `VersionSet` that does
not begin a second table is a write, a step of a snapshot, or nothing.

### Cursor, DBIter and SortedTable

`Cursor` is what `iterator.h` promises of five calls over a map that does not change.

`DBIter` is `db_iter.cpp` over `merger.cpp` over a memtable that grows and runs
that do not; entries may be deletions or damaged. The iterator's position, its
direction, `saved_key_` and `saved_value_` and the state of every merged child are
variables. `IterImplementsCursor`: each call does what `Cursor` says of the map of
the snapshot, whatever is inserted meanwhile.

`SortedTable` has the writer (`Add`, `Flush`, filters, index with shortened
separators, `Finish`) and the reader (`Open`, `InternalGet`, `Block::Iter` with restart
points and prefix compression, `TwoLevelIterator`). A block may be damaged and an
append may fail. `TableGets` compares lookups with a reference definition,
`TableIterates` says that the iterator is a cursor over the blocks that can be read
and that it reports the ones it passed.

### SkipList

A store or load of a link is a step. `InsertStart` is the search of `Insert` with
the choice of a height, `SetOwn` and `Publish` are the two stores per level, `InsertDone`
the number that the writer publishes. Readers (`Search`, `CallNext`, `CallPrev`,
`Load`, `Return`) take no lock and may read any earlier `max_height_`. Memory from the
arena holds `Wild` until it is written. What the writer's own search finds is stated
(`IsPrev`) and not walked: it is the only one that writes.

### LevelDBFactory

`create` and `remove` under the lock of the factory, and every call of a `LevelDB`
object: `open`, `insert`, `atomReady`, `atomCommit`, `make`, `close`, `destory`. Two
clients share objects, a third owns one. A database is the set of values it holds;
that a database is open at most once in a process is `DBLock`.

### KvIndex, KvPages, KvRecord

Sequential code: a method is an action and the properties compare with reference
definitions.

* `KvIndex`: the B and B+ trees as heaps of nodes with the pointers of the code,
  insertion with splits, `save` to page files, and the search in the file.
* `KvPages`: page 0 with the table of page files, chains of pages, put and get with a
  length before every stream, the queue of buffers of `CDevCache`. `Save` writes meta,
  table and index segments and the table of page files, in this order; a record is
  searched through the index that was saved. Indexes have one node here, the trees
  are in `KvIndex`.
* `KvRecord`: every field type through `SMDStream`, with the widths and signs of
  integers, and records stored as differences in a group. A VAR_INT field is set and
  written; no call that reads one returns (`Relocks`), so what would come after is not
  modelled.

### Modules for TLC and proofs

`MCDBImpl`, `MCDBImplLive`, `MCDBStore`, `MCLogFormat`, `MCDBLock`, `MCLRUCache`,
`MCVersionSet` and `MCKvDB` are instances of one part, `MCFormats` and `MCStructures`
of several. Definitions whose comment begins
with "Fault", or whose name does, are faulty variants of the definition after them, used to see that
a property can fail, and are no part of the specifications. `DBImplProofs` holds
the proofs of type correctness, of the queue and of the condition variables;
`DBImplDataProofs`, which EXTENDS it, those of what is written, acknowledged and read.
`LogFormatProofs` is about every log file, also one that failing writes have left;
`LogReadProofs`, which EXTENDS it, about one that at most a crash has cut.
`DBStoreProofs`, `DBLockProofs`, `SkipListProofs` and `LevelDBFactoryProofs` hold the
proofs about the module of their name.

## 4. Runs

| Run | Bounds | Shows |
|---|---|---|
| `write` | 3 writers (batches of 0 or 1 entry, NULL batches, sync or not), memtable of one entry, level-0 limit 1, 1 failure, destructor | the writer queue, group commit, logging, error handling and shutdown invariants |
| `read` | 2 writers with batches of 2, 1 reader, 1 failure | reads: acknowledged writes, whole batches, stable snapshot |
| `live` | two clients at a time: 2 writers and 1 failure, a writer and a manual compaction, or 2 manual compactions; fairness | every `Write`, every `TEST_CompactRange` and the destructor return, `imm_` is flushed |
| `files` | 4 entries, 4 openings, 2 failures, 1 forced flush, memtable of 2 | recovery and files, see below |
| `lock_process` | 2 instances of one process and 1 of another, 2 openings each, read-only or not, `destory`, 1 death | one process: no two instances have the database, no name is left in the lock table |
| `versions` | 2 keys, 3 levels, 3 writes with 2 snapshots or 2 restarts, or 4 writes with 2 restarts; seek, size and manual compactions; every table has the number 0 | until a second table is begun, the levels implement `KVStore` and the manifest describes the version; a merge that began with disjoint levels takes every overlapping table along and drops nothing that is needed |
| `formats` | log: 3 records of up to 3 bytes, blocks of 5 with headers of 3, one tear anywhere, one failing operation, `reuse_logs`, three initial offsets; table: up to 4 of 6 keys, 2 restart intervals, 2 block sizes, filters or none, one damaged block; iterator: 2 keys, 3 entries loaded in 2 runs, one insertion | records come back, lookups and cursors are exact, `DBIter` implements `Cursor`, the log reader ends |
| `structures` | LRU cache: 3 keys, capacity 3, 4 insertions; skip list: 3 insertions, height 2, 1 reader; factory: 2 paths, 3 objects, 3 clients; lock: 3 processes, 3 openings each, 2 deaths; KvDB: 7 keys; 2 tables, their indexes and 3 records over pages of 16 bytes; 7 definitions | counts and lists agree, lock-free reads are exact, handles stay open, no two processes have the database, what KvDB saved comes back |
| `crash`, `renumber`, `lock_readonly`, `varint` | small | expected counterexamples, section 5 |

Three writers are needed for a leader, a member of its group and a writer behind
the group. A memtable of one entry makes every second write switch memtables, so
that a leader meets a memtable being flushed, a full level 0 and a merge that
flushes from inside. `SmallBatch` and `BigGroup` are small enough for a group to
be cut by its size. One failure is enough to reach every error path once; with
none left the rest of the run shows how the state that it leaves goes on. Writers and
readers are interchangeable, so the runs that check invariants use symmetry; the
runs with liveness properties do not. Four openings allow: load, crash while
recovering, crash while recovering again, read. Bounds on the number of calls
are the sizes of the sets; `MaxSeq`, `MaxOpens`, `MaxFail`, `MaxForce`,
`MaxBacklog` and `MaxRounds` bound the rest.

`AckedDurable` joins two promises of `Write`: what was acknowledged is in a log that the
manifest names or in a table of the version (`AckedRecoverable`), and was synced if sync was
asked for (`SyncHonoured`). That the table itself may be overwritten is `crash`. `StatusHonest` joins `StatusTellsTruth` (the status a
writer gets is that of its own entries) and `FutureWritesFail` (after a failed write of
the log nobody is told OK).

What the properties of `files` say: a load that fits one log survives any crash
and is found by the session that wrote it and by the ones that open it later
(`OneLoadKept`); no log that has entries is truncated by the creation of another, which
rests on the number that `VersionSet::Recover` sets aside for a manifest that is
never numbered, and log numbers grow (`LogNumbersSound`); a sequence number is given
out once (`NumbersFresh`).

In `versions`, three levels are the fewest with a grandparent; two keys and three
writes give a table that overlaps on both sides, a tombstone above an older value
and a flush during a merge. An output is full with two entries, so the entries of one
key can end up in two outputs. Snapshots and restarts are explored apart because a
restart ends every snapshot. A third part, with a fourth write, has chains of three
tables in level 0, the shortest on which `GetOverlappingInputs` has to start again.

A block of 5 with a header of 3 leaves two bytes of payload, so a record of 3 bytes
has up to three fragments (a first one that is empty when exactly a header fits),
and an end of a block is met with every number of bytes left. `ReaderAdvances` is
the termination of the Reader, stated as a measure that every step lessens. Blocks of
tables take one, two or all keys, so that an index has one to four entries; restart
intervals of 1 and 2 give entries with and without a shared prefix.

The table of the LRU cache starts with 1 bucket in place of 4, so that it grows
twice with three keys; a charge of 2 in a capacity of 3 makes one insertion evict
two entries, and entries held above capacity empty the list. With `MaxKey` 2, seven
keys give trees of three levels. Pages of KvDB have 16 bytes, of which page 0 can use 12
for the table of page files: just enough for the eight page files of two tables. A record
spans none, one or several ends of pages, and a chain is interleaved with that of another
table.

Fairness (`live`): weak fairness of the steps of a thread that is
inside a call: the scheduler runs every runnable thread. Strong fairness of
`Lock`, and of the last step of `Get`, which takes the mutex for one step: a
thread that asks for a pthread mutex again and again released is not passed
over for ever. POSIX does not promise it, the code cannot work without it. No
fairness of calls: a client need not call. Failures come beside writers only: a
failed merge that a manual compaction has left is the subject of
`ManualStillThere` (section 5).

Deadlock is checked in every run except `versions`, `renumber` and `varint`, where
bounds end the behaviours; `Terminated` and `Finished` are the intended ends of
the others, and a program that uses KvDB may stop at any time.

## 5. Disagreements found

Four are runs, with the line they contradict in `PROJECT.json`:

* `crash`: a second table overwrites the first, whose log is gone
  (`options.h:185-187`).
* `renumber`: every table has the number 0, `Builder::Apply` takes a number that is
  added again out of `deleted_files`, and a compaction keeps its input in the level of
  its output (`version_set.cpp:752`).
* `varint`: reading a VAR_INT field takes the lock of the record twice
  (`Record.h:85`).
* `lock_readonly`: a read-only session unlinks the lock file before it unlocks it,
  or although it never had the lock, and another process locks a new file
  (`env.h:116-117`).

The others were met on the way. Their properties are defined in the modules and the
configurations named here show the counterexamples (where the text says "with", after
the invariant or constant in the file is replaced), but they are not runs:

* `MCDBStoreForce.cfg`, `ForcedFlushKeeps`: a flush of an empty memtable deletes the
  one table file (`db.h:140-141`).
* `MCDBImplForce.cfg`, `ForcedFlush`: a NULL batch absorbed by `BuildBatchGroup` is
  reported done, and `TEST_CompactMemTable` returns OK with the memtable unflushed
  (`db_impl.h:50`).
* `MCDBImplManualErr.cfg`, `ManualStillThere`: an error during a manual compaction
  lets its caller leave and clear `manual_compaction_`; the tail of
  `BackgroundCompaction` then uses a null pointer.
* `MCDBStoreCrash.cfg` with `CreationIsAtomic` as its invariant: the manifest is created or truncated
  before it has a record, and a crash in between leaves a database that cannot be
  opened (`db_impl.cpp:321-323`).
* `MCDBStoreCrash.cfg` with `CounterPastLogs` and `MaxFail = 1`:
  `MarkFileNumberUsed(1)` marks a constant
  and not the log's number (`db_impl.cpp:401-404`); it matters when the manifest
  was deleted.
* `MCLogOffset.cfg`, `ReportsOnlyCorruption`: a first fragment before
  `initial_offset` ends resynchronisation, and the rest of the skipped record is
  reported as corrupt (`log_reader.h:34-41`).
* `MCLogBlock.cfg`, `HeaderInOneBlock`: after a failed append `block_offset_` is
  ahead of the file, later headers cross the ends of blocks and the Reader cannot
  find them (`log_writer.cpp:58`); `DBImpl::Write` goes on using the log.
* `MCLockSecond.cfg`, `Exclusive`: a second opening in a process fails, and closing
  its descriptor releases the fcntl lock of the first.
* `MCLockPrefix.cfg`, `Exclusive`: closing a read-only session of `a` deletes the
  lock file of `ab`, which two processes then open.
* `MCVersionsManifest.cfg`, `ManifestExact`: a table is moved from level 0 to level 1,
  and the next flush puts a table with the same number into level 0. `Recover` applies
  all records to one `Builder`, which takes the deletion of the move back
  (`version_set.cpp:689`): the moved table is in both levels after a restart. `renumber`
  has the same cause inside one session.
* `MCFactoryMake.cfg`, `HandlesShared`: `make()` closes the database of every holder
  of a shared object (`LevelDB.cpp:125`).
* `MCFactoryDestory.cfg`, `DestoryDeletes`: `destory()` of an open database fails on
  the lock that the object itself has (`LevelDB.cpp:154`).
* `MCKvRounds.cfg` with `ReadAllReturnsAll` as its invariant: reading all records goes wrong after one that
  ends exactly with its page (`SMDPageFile.cpp:252`).
* `MCKvPageTable.cfg`, `RecordsReadBack`: the table of page files outgrows page 0 and
  its new chain cannot be found (`SMDPageManagement.cpp:284`).
* `MCKvRounds.cfg`, `Rounds`: a negative FLDOUBLE value is cut towards zero and not
  rounded (`Record.cpp:351`). The same with `GroupKeepsDoubles`: in every record of a group
  but the first a FLDOUBLE comes back as whatever memory held (`Record.cpp:943`).
  `FieldsReadBack` excepts both.
* An index of more than one node cannot be saved when its nodes do not share a page:
  the second pass of `saveIndex` asks the cache for a page it was never told of
  (`dev_buffer.cpp:70`). With the default page size a root and the two halves of a
  full node are more than a page, so this is every index that was ever split.
  `SMDIndexSegment::save` then returns false without writing the segment, and
  `SMDTable::save`, which does not look at that, true (`SMDSStorage.cpp:117`). No search
  finds anything after that. The third part of `SearchExact` in `KvIndex` accepts
  that case: an index that could not be saved is not there, rather than wrong. In
  `KvPages` a node longer than a page shows the same, as a violation of `RecordsReadBack`
  with `KeySize = 15` in `MCKvPageTable.cfg` (and `PageEntry = 1`).

Exceptions that properties of passing runs make: `HandlesShared` is for clients that do
not call `make()` (`SharersMake` is FALSE); the part of `RecordsExact` about reading all
records is for tables none of whose records ends exactly with a page; `FieldsExact` is for
types other than VAR_INT, for FLDOUBLE values that are not negative and in the first record
of a group, and for text without NUL, which is copied only up to a NUL. What happens in the
other cases is in the list above and in `varint`.

`reuse_logs`, which no code of the repository sets, appends behind a torn record,
which is then reported as corrupt and hides what follows it in its block; hence the
condition `~reused` in `ReadsBack` and `TornTailIgnored`, the parts of `LogReadsBack`.

## 6. Proofs

The theorems about `DBImpl` hold for any sets of threads and any sizes that satisfy
`ThreadAssumption` (the kinds of threads are disjoint, NULL is none of them) and
`SizeAssumption` (sizes are natural numbers, and
`kL0_CompactionTrigger <= kL0_StopWritesTrigger`, as in `dbformat.h`).

`DBImplProofs.TypeCorrect` is `Spec => []TypeOK`. `TypeOK` is inductive as it
stands. There is a lemma per group of actions (writers, file operations of the
background thread, the other background steps), and small lemmas for what the
actions build: updates of functions, sequence numbers of a batch, sets of pairs.

It also proves four safety properties that the run `write` checks:

* `OneLeader` (`LeaderIsHead`) and `WakeupsKept` (`NoLostWakeup`). Neither is
  inductive: a second leader is excluded only if a writer is queued once, and if
  the group the leader pops is a prefix of the queue that it heads. `QueueInv`
  adds that `writers_` holds exactly the calls that wait or lead
  (`QueueIsWaiting`), each once (`QueuedOnce`), that the group of a leader is in
  the queue (`LeaderGroup`), that only other writers' leaders set `done`
  (`DoneCalls`) and that who sleeps is in the loop (`CvSleepers`). Most actions
  fall under three lemmas (`QueueFrame`, `LeaderFrame`, `LeaveFrame`); `Write`,
  `AwaitTurn`, `TakeTurn` and `Finish` have their own.
* `BgSleepersHaveWork` (`SleepersHaveWork`) and `ClosedIsQuiet`
  (`NothingAfterClose`). `SleepInv` adds `WorkScheduled` (unless an error or
  the destructor stops background work, something is scheduled whenever there is
  something to do), `ShutdownQuiet` (no client is in a call once the destructor
  has begun) and `BgSleepers`; with `OwnerRuns` (the owner of the mutex is not
  asleep and is at code that holds it) it is inductive. This is the argument why
  every place where work appears has to call `MaybeScheduleCompaction`, and why
  the level-0 limit must not be below the compaction trigger.

`DBImplDataProofs` goes on to the data, with the same
assumptions. It proves every other invariant that the runs `write` and `read`
check, and the action property of `read`:

* `Level0Kept` (`Level0Bounded`). The limit is tested when a memtable is switched,
  and the table appears only at the end of the flush. `FlushInv` therefore says that
  a memtable is switched only below the limit and that there is one `imm_` at a
  time; with it come the log numbers that the durability proof needs (`imm_` has an
  older log than `mem_`, both logs exist and are not below the log number of the
  manifest, the edit of a flush names the log of `mem_`).
* `SequencesUnique` (`SequenceUnique`). A group gets its numbers in `BuildBatchGroup`
  and `last_sequence` follows only when the leader is back with the mutex. `SeqInv`
  adds that the numbers of the group under way lie between `last_sequence` and its
  last number (`GroupNumbers`), all others at or below `last_sequence`
  (`OldNumbers`), and that a batch has none before a leader takes it
  (`FreshUnnumbered`). It rests on `QueueInv`: there is one leader, and its group is a
  prefix of the queue.
* `HonestStatus` (`StatusHonest`) and `AcksDurable` (`AckedDurable`), from three
  invariants. `LateInv`: a call that began after a failed sync meets the recorded error,
  because `BuildBatchGroup` runs with the mutex and only without an error
  (`GroupInTime`), so no such call joins a group; the error of a leader that has not
  recorded it yet is covered by `LateKnown`. `EntryInv`: how far the leader is with log,
  sync and memtable (`LeaderProgress`); every entry is in the log of its memtable, and
  its memtable is `mem_`, `imm_` or in a table (`EntriesKept`); entries above
  `last_sequence` are those the leader has inserted so far (`EntriesBelow`).
  `OutcomeInv`: a settled call, and a member of a group about to be popped, has all of
  its batch inserted (and synced, if it asked for that) or nothing of it, according to
  its status or its leader's. `AcksDurable` combines it with `FlushInv`: the logs of
  `mem_` and `imm_` are at or above the log number.
* `ConsistentReads` (`ReadsConsistent`) and `StableSnapshots` (`SnapshotStable`). No
  step lowers `last_sequence`, and entries and numbers appear only above it
  (`Monotone`), so the view at a snapshot does not change (`ViewKept`). At `Get` every
  numbered batch at or below `last_sequence` is inserted whole or not at all
  (`WholeBatch`, from `OutcomeInv`); `ReadInv` keeps that for the rest of the read.

`DBStoreProofs` covers any number of openings, entries, failures, crashes and forced
flushes, under `StoreAssumption` (NULL is no number and no set of entries, the bounds are
natural numbers). `StoreInvariant` is `Spec => []StoreInv`; the run `files` was also
made with `StoreInv` as its invariant before the proof. From it follow:

* `StoreTypes` (`TypeOK`);
* `LogNumbers` (`LogNumbersSound`). `CountersOK` relates the counters of the session to
  those of the manifest: a session starts one past the manifest, and is ahead of it by
  one number only while a memtable waits to be written. `LogsOK` says what a crash
  leaves: at most one log past the manifest's next number, and that one empty, so the
  next session, which takes the same number, truncates nothing;
* `FreshNumbers` (`NumbersFresh`). `SequenceOK` says that every number given out is at
  most the manifest's last sequence or in a log that recovery will read, and, while it
  reads, in what it has read or still has to read;
* `LoadKept` (`OneLoadKept`). `SingleOK` follows a single load through its places: the
  log while the manifest still names it, or the complete table (`LoadOK`); recovery,
  which drops a log from its list only when the table is in the edit (`ReplayOK`); and
  the session that loads, flushes or has the data (`SessionOK`).

The properties have their conditions in their statements: no failed `LogAndApply` has
deleted the manifest (`dropped`), and for `OneLoadKept` one log with entries and
no forced flush. Section 5 shows what happens without them. One guard of the model came
from the proof: `SwitchMemTable` needs the mutex, which `DeleteObsoleteFiles` holds, so
it does not run while a flush is deleting files.

`LevelDBFactoryProofs.HandlesStayShared` is `SharingRules => (FSpec => []HandlesShared)`
for any clients, paths, objects and values. `SharingRules` says that NULL is no wrapper, that
clients are finite in number, and that no client of the factory calls `make()`
(`SharersMake` is FALSE; `MCFactoryMake.cfg` shows that this is needed). `FactoryInv`
adds that every wrapper in the list is open (`SharedOpen`), that only those are held,
under the path they were asked for (`HeldShared`), and that a client tells its returns
apart (`NumbersApart`), without which the count (`Counted`) is not kept.

`DBLockProofs` covers any number of processes, instances and databases, under
`LockAssumption` (an instance has a process and a database, a name begins with
itself):

* `TypeCorrect`; `TypeOK` is inductive, and its last conjuncts (who has a
  descriptor) are what the other proofs use.
* `TableKept` (`TableExact`) and `ProcessApart` (`ExclusiveInProcess`).
  `TableExact` does not say that only one instance accounts for a name, which
  `TableInv` adds (`OneInTable`); the conjunction is inductive. It does not
  mention inodes or fcntl: the lock table protects a process by itself, also in
  the cases where the lock between processes is lost.
* `ProcessesApart` (`Exclusive`), under `OwnProcesses`: a process has one instance
  per database, sessions are read-write and `destory` is not called. These are the
  conditions that `lock_readonly`, `MCLockSecond.cfg` and `MCLockPrefix.cfg` show to
  be needed. `LockInv` says that no session is read-only (`ReadWriteOnly`), so lock
  files stay and every descriptor is of the one inode (`OneFile`), and that who
  has the database has the fcntl lock of its descriptor (`Locked`).

`SkipListProofs` covers any keys, heights, number of insertions and number of
readers, under `HeightAssumption`, `KeysAssumption` (keys are ordered like numbers) and
`PointerAssumption` (NULL and unwritten memory are no nodes):

* `LinksWritten` (`NeverWild`) and `SearchesAreExact` (`SearchesExact`), from one
  inductive invariant `SInv`. Neither property says anything about links, so it has to
  be added that a link of level l leads forward to a node whose links up to l are
  written (`LinkOK`), that a finished entry is written on all its levels, and that no
  finished entry lies between a node and its successor on level 0 (`Gapless`).
  `WriterOK` says between which nodes the writer is linking and which levels it has
  done; `ReaderOK` that a reader stands before its key at a node it may enter on its
  level. `Gapless` makes the end of a search exact (`LoadExact`); `InsertDone` is the
  step that needs the maximality of `IsPrev`. No induction along the list is needed.
  Steps of the writer disturb no reader because links are never unwritten
  (`ReaderStays`), which is the argument for the order of the two stores.

`LogFormatProofs` and `LogReadProofs` cover every block size above the header size,
every number and length of records, every `initial_offset`, and every number of failed
file operations and crashes, under `LogAssumption` (a header has at least one byte and is
smaller than a block; NULL is no number). The code has one block size and one header size; that the
argument needs neither shows that the arithmetic of trailers and of empty fragments is
right at every boundary, of which the runs reach those of a block of a few bytes.

* `LogInvariant` is `Spec => []LogInv`, for every log file, also one in which failing
  writes have put the Writer out of step with the blocks and to which `reuse_logs` has
  appended. `PhysOK` says which physical records follow each other and that the fragments
  of a record add up to it; `BytesOK` that a byte of the file is padding or has
  all bytes of its physical record that come before it in front of it; `OrderOK` and
  `ContinuedOK` that the file keeps the order of emission and that no fragment
  is there without the ones before it; `WriterOK` and `RecsOK` tie the Writer and the places
  of records to that. `BufferOK` says that the buffer is a part of the file. `ReaderOK` is
  the bookkeeping of the Reader: which records it has returned, that all of them come
  before what is still unread, and, inside a fragmented record, that `scratch` holds its
  fragments so far and that the next record begins less than a header behind them.
* `LogNothingInvented` (`NothingInvented`) follows. The step that needs all of this is
  `NextFragment`: the continuing fragment that the Reader joins to `scratch` is the
  fragment after the last one read. A continuing fragment of a later record is excluded
  because the one before it would have to lie in the gap, which is shorter than a header.
* `LogReaderAdvances` (`ReaderAdvances`): every turn of the loop of `ReadRecord` consumes
  bytes, sees the end of the file or is the last, so that the loop ends. This is the
  safety half of termination.
* `CleanInvariant` is `Spec => []CleanInv`: as long as no file operation has failed and no log
  was reused (`Clean`), the file has the layout that the format prescribes. Blocks
  begin with a physical record (`BlocksBegin`), none crosses a block and less than a
  header of padding lies between two (`RecordsFit`), where a header has room there is one
  (`NoGap`), and every record but the last is complete (`ChainOK`). A prefix of such a file
  has the same layout, so a crash keeps it; `WriterAt` keeps the Writer in step with the
  file. `BlockOK` says that the Reader stands at the start of a block or
  behind the last byte of a physical record, so that the front of its buffer is always
  the start of a physical record, of padding or of a torn tail. `Complete` says that it
  owes nothing for the part of the file behind it: each survivor that ends there
  was returned, and one it has read in part is in `scratch`.
* `LogIsReadBack` (`LogReadsBack`) follows: the Reader returns exactly the records
  written completely before the crash that start at or after `initial_offset`, and reports
  nothing for the torn tail. For an `initial_offset` other than 0 it also rests on
  the fact that the part of the file that `SkipToInitialBlock` jumps over, together with
  what resynchronisation drops, holds the start of no record it has to return.

`LogInv` and `CleanInv` were checked with TLC on blocks of five bytes before they were proved.

## 7. Only model-checked, and not modelled

Only model-checked: the liveness properties (fairness and ENABLED are out of the
prover's reach); what recursive definitions compute (KvDB, blocks of tables, iterators,
the levels of `VersionSet`: induction over data is out of reach), and with them the
refinements `StoreUntilSecond` and `IterImplementsCursor`; and `LRUCache`, whose lists
are filtered and counted by folds.

Not modelled, and why:

* `options.reuse_logs` outside `LogFormat`: no code of the repository sets it;
* power failures: `DBStore` keeps what was written; `SyncHonoured` covers the
  promise of sync;
* merges of tables in `DBStore`: every table has number 0 and a merge truncates
  its own input; `FinishCompactionOutputFile` asserts a number other than 0. What a
  merge does to levels and entries is `VersionSet`, which reads the inputs before
  the output is begun (tables of one block);
* `Repair` and `DestroyDB`: one pass over directory entries by one thread. Tables have
  one name here, so the pass that archives and renumbers them has nothing to work on;
* the posix environment: system calls. The lock table is in `DBLock`, the background
  thread in `DBImpl`; `MmapLimiter` chooses between two ways to read a file;
* bytes: checksums, varints of LevelDB, encodings of batches and of internal keys, the
  arena, printing;
* the port layer: mutex, condition variable and atomic pointer are primitives whose
  effect is in `DBImpl` and `SkipList`;
* the geometry query of KvDB: arithmetic without state;
* deletion from KvDB indexes: there is none in the code;
* file system emulation (only under `BUILD_HADOOP`), the C binding, the dump
  tool, the JNI demonstration.
