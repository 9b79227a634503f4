------------------------------- MODULE DBImpl -------------------------------
(***************************************************************************)
(* The threads of one open database (leveldb/db/db_impl.cpp): callers of   *)
(* Write, Get, TEST_CompactMemTable and TEST_CompactRange, the background  *)
(* thread of Env::Schedule and the destructor, all sharing mutex_, the     *)
(* condition variable of each Writer and bg_cv_.                           *)
(*                                                                         *)
(* A step that needs mutex_ has the guard mutex = p; a thread whose pc is  *)
(* in Locked and that does not own the mutex is blocked in Lock.  The      *)
(* steps taken while the code has released mutex_ (writing the log,        *)
(* syncing it, filling mem_, building a table, writing the manifest,       *)
(* reading) have no such guard.                                            *)
(*                                                                         *)
(* Data is abstracted to sequence numbers: a batch is its number of        *)
(* entries, a memtable is the set of sequence numbers inserted in it, and  *)
(* is named by the number of the log file that was opened with it.         *)
(* `version' is the set of sequence numbers whose memtable was built into  *)
(* a table that LogAndApply installed; what becomes of the bytes of that   *)
(* table file afterwards is the subject of module DBStore.                 *)
(***************************************************************************)
EXTENDS Naturals, Sequences, FiniteSets

CONSTANTS
    Writer,        \* calls of Write, one struct Writer each
    Reader,        \* calls of Get (or iterators)
    Manual,        \* calls of TEST_CompactRange
    BG,            \* the background thread
    Closer,        \* the thread that runs ~DBImpl
    NULL,          \* the null pointer, and the batch of a forced compaction
    Counts,        \* numbers of entries a batch may have
    HeaderSize,    \* bytes of a batch header (an entry is one byte)
    SmallBatch,    \* 128 << 10 in BuildBatchGroup
    BigGroup,      \* 1 << 20 in BuildBatchGroup
    WriteBuffer,   \* options_.write_buffer_size, in entries
    L0Trigger,     \* config::kL0_CompactionTrigger
    L0Slowdown,    \* config::kL0_SlowdownWritesTrigger
    L0Stop,        \* config::kL0_StopWritesTrigger
    MaxBacklog,    \* bound: pending compactions of levels above 0
    MaxRounds,     \* bound: rounds a manual compaction needs
    MaxFail        \* bound: file operations that fail

Thread == Writer \cup Reader \cup Manual \cup {BG, Closer}

ASSUME ThreadAssumption ==
    /\ NULL \notin Thread /\ NULL \notin Nat
    /\ BG \notin Writer \cup Reader \cup Manual
    /\ Closer \notin Writer \cup Reader \cup Manual
    /\ BG # Closer
    /\ Writer \cap Reader = {} /\ Writer \cap Manual = {} /\ Reader \cap Manual = {}

ASSUME SizeAssumption ==
    /\ Counts \subseteq Nat
    /\ HeaderSize \in Nat /\ SmallBatch \in Nat /\ BigGroup \in Nat
    /\ WriteBuffer \in Nat
    /\ L0Trigger \in Nat \ {0} /\ L0Slowdown \in Nat /\ L0Stop \in Nat
    /\ L0Trigger <= L0Stop
    /\ MaxBacklog \in Nat /\ MaxRounds \in Nat /\ MaxFail \in Nat

VARIABLES
    mutex,      \* owner of mutex_, or NULL
    pc,         \* where each thread is
    cvwait,     \* writers asleep on their own Writer::cv
    bgwait,     \* threads asleep on bg_cv_
    writers,    \* the deque writers_
    call,       \* parameters of each Write call, and what held when it was made
    done,       \* Writer::done
    status,     \* Writer::status and the local `status': TRUE is OK
    force, delay,       \* locals of MakeRoomForWrite
    last, size, hi,     \* BuildBatchGroup: position of last_writer, bytes, last sequence
    next,               \* the next sequence number InsertInto will insert
    syncerr,            \* local sync_error of Write
    seqs,       \* the sequence numbers BuildBatchGroup gave to each batch
    lastseq,    \* versions_->LastSequence()
    logno,      \* logfile_number_, and the name of mem_
    nextfile,   \* versions_->next_file_number_
    minlog,     \* versions_->LogNumber()
    logs,       \* log files that exist
    logged,     \* <<log, seq>>: entries AddRecord appended to a log
    synced,     \* sequence numbers covered by a successful Sync of their log
    memt,       \* <<memtable, seq>>: entries inserted in a memtable
    imm,        \* imm_: the name of the memtable being flushed, or NULL
    version,    \* entries in tables of the current version
    l0,         \* versions_->NumLevelFiles(0)
    backlog,    \* compactions NeedsCompaction() wants at other levels
    bgerr,      \* ~bg_error_.ok()
    shutdown,   \* shutting_down_
    manual,     \* manual_compaction_
    mleft,      \* rounds the range of each manual compaction still needs
    mdone,      \* ManualCompaction::done
    bgok,       \* status of the last file operation of the background thread
    nested,     \* CompactMemTable was called from DoCompactionWork
    ismanual,   \* is_manual of BackgroundCompaction
    editlog,    \* log number in the edit of CompactMemTable
    pin,        \* what each reader referenced under mutex_
    fails       \* failures so far

threads == <<mutex, pc, cvwait, bgwait>>
room    == <<force, delay>>
group   == <<last, size, hi, next, syncerr>>
queue   == <<writers, call, done, status, room, group, seqs>>
bg      == <<bgok, nested, ismanual, editlog>>
store   == <<lastseq, logno, nextfile, minlog, logs, logged, synced, memt, imm, version>>
levels  == <<l0, backlog>>
control == <<bgerr, shutdown, manual, mleft, mdone, bg>>
vars    == <<threads, queue, store, levels, control, pin, fails>>

-----------------------------------------------------------------------------
(* pcs at which a thread owns mutex_ or is blocked acquiring it.           *)
Locked ==
    {"check", "room", "group", "commit", "finish", "immwait",
     "manual", "closing",
     "start", "built", "applied", "worked", "installed", "manualend", "end"}

(* pcs of the writer that logs, syncs and inserts with mutex_ released.    *)
Unlocked == {"append", "sync", "insert"}

(* pcs of a writer that has been told, or found, that it heads the queue.  *)
Leading == {"room", "group", "commit", "finish"} \cup Unlocked

PCs == Locked \cup Unlocked
         \cup {"idle", "done", "reading", "closed",
               "off", "build", "apply", "work", "install"}

Scheduled == pc[BG] # "off"

Usage == Cardinality({e \in memt : e[1] = logno})

ByteSize(w) == HeaderSize + call[w].batch

(* max_size of BuildBatchGroup for a group headed by w. *)
MaxSize(w) == IF ByteSize(w) <= SmallBatch THEN ByteSize(w) + SmallBatch ELSE BigGroup

NeedsCompaction(files, pending) == files >= L0Trigger \/ pending > 0

(* Fault: a full memtable is not counted as work. *)
ScheduleIgnoresImm(pcs, err, im, man, files, pending) ==
    IF pcs[BG] = "off" /\ ~shutdown /\ ~err /\ (man # NULL \/ NeedsCompaction(files, pending))
    THEN [pcs EXCEPT ![BG] = "start"]
    ELSE pcs

(* MaybeScheduleCompaction: the new pc of all threads, given the pcs and   *)
(* the fields it reads.                                                    *)
MaybeScheduleCompaction(pcs, err, im, man, files, pending) ==
    IF /\ pcs[BG] = "off"
       /\ ~shutdown
       /\ ~err
       /\ im # NULL \/ man # NULL \/ NeedsCompaction(files, pending)
    THEN [pcs EXCEPT ![BG] = "start"]
    ELSE pcs

(* Fault: the error is dropped. *)
DropBackgroundError(err) == UNCHANGED <<bgerr, bgwait>>

(* RecordBackgroundError: the first error is kept and wakes bg_cv_.        *)
RecordBackgroundError(err) ==
    /\ bgerr' = (bgerr \/ err)
    /\ bgwait' = IF err /\ ~bgerr THEN {} ELSE bgwait

(* A file operation may fail, MaxFail times in a behaviour. *)
Succeeds == UNCHANGED fails
Fails    == fails < MaxFail /\ fails' = fails + 1

InitLog == 3   \* NewDB leaves NextFile 2; Recover takes 2, Open's NewFileNumber 3

(* The database after DB::Open. *)
AfterOpen ==
    /\ mutex = NULL
    /\ cvwait = {} /\ bgwait = {}
    /\ writers = <<>>
    /\ call = [w \in Writer |-> [sync |-> FALSE, batch |-> NULL, late |-> FALSE, asof |-> 0]]
    /\ done = [w \in Writer |-> FALSE]
    /\ status = [w \in Writer |-> TRUE]
    /\ force = [w \in Writer |-> FALSE] /\ delay = [w \in Writer |-> FALSE]
    /\ last = [w \in Writer |-> 1] /\ size = [w \in Writer |-> 0]
    /\ hi = [w \in Writer |-> 0] /\ next = [w \in Writer |-> 0]
    /\ syncerr = [w \in Writer |-> FALSE]
    /\ seqs = [w \in Writer |-> {}]
    /\ lastseq = 0
    /\ logno = InitLog /\ nextfile = InitLog + 1 /\ minlog = InitLog
    /\ logs = {InitLog}
    /\ logged = {} /\ synced = {} /\ memt = {} /\ imm = NULL /\ version = {}
    /\ l0 \in 0..L0Stop /\ backlog \in 0..MaxBacklog
    /\ bgerr = FALSE /\ shutdown = FALSE
    /\ manual = NULL
    /\ mleft \in [Manual -> 0..MaxRounds]
    /\ mdone = [m \in Manual |-> FALSE]
    /\ bgok = TRUE /\ nested = FALSE /\ ismanual = FALSE /\ editlog = 0
    /\ pin = [r \in Reader |-> [snap |-> 0, mem |-> InitLog, imm |-> NULL, ver |-> {},
                                acked |-> {}]]
    /\ pc = MaybeScheduleCompaction(
               [p \in Thread |-> IF p = BG THEN "off" ELSE "idle"],
               FALSE, NULL, NULL, l0, backlog)

Init == AfterOpen /\ fails = 0

(* A Write whose outcome is fixed, and one whose outcome is OK. *)
Settled(w) == done[w] \/ pc[w] \in {"done", "immwait"}
Acked(w)   == Settled(w) /\ status[w]

-----------------------------------------------------------------------------
(* mutex_.Lock(), and the return from a Wait that was signalled. *)
Lock(p) ==
    /\ mutex = NULL
    /\ pc[p] \in Locked
    /\ p \notin cvwait \cup bgwait
    /\ mutex' = p
    /\ UNCHANGED <<pc, cvwait, bgwait, queue, store, levels, control, pin, fails>>

Holds(p, at) == mutex = p /\ pc[p] = at

(* Fault: the waiter is registered after the mutex is released. *)
WaitAfterUnlock(p) ==
    /\ mutex' = NULL
    /\ bgwait' = bgwait \cup {mutex'}
    /\ UNCHANGED <<pc, cvwait>>

(* bg_cv_.Wait() at a pc that stays the same: the loop around it re-tests. *)
WaitOnBg(p) ==
    /\ bgwait' = bgwait \cup {p}
    /\ mutex' = NULL
    /\ UNCHANGED <<pc, cvwait>>

(* Write: take mutex_ and push_back(&w).  A NULL batch is the first half   *)
(* of TEST_CompactMemTable.  No call is made once ~DBImpl has begun.       *)
Write(w, sy, b) ==
    /\ pc[w] = "idle" /\ pc[Closer] = "idle"
    /\ mutex = NULL
    /\ b = NULL => ~sy
    /\ mutex' = w
    /\ pc' = [pc EXCEPT ![w] = "check"]
    /\ writers' = Append(writers, w)
    /\ call' = [call EXCEPT ![w] =
                  [sync |-> sy, batch |-> b, asof |-> lastseq,
                   late |-> bgerr \/ \E v \in Writer : syncerr[v]]]
    /\ UNCHANGED <<cvwait, bgwait, done, status, room, group, seqs, store, levels, control, pin, fails>>

AwaitTurn(w) ==
    /\ Holds(w, "check")
    /\ ~done[w] /\ w # Head(writers)
    /\ cvwait' = cvwait \cup {w}
    /\ mutex' = NULL
    /\ UNCHANGED <<pc, bgwait, queue, store, levels, control, pin, fails>>

(* Fault: a writer that wakes up does not test the front of the queue. *)
TakeAnyTurn(w) ==
    /\ Holds(w, "check")
    /\ ~done[w]
    /\ pc' = [pc EXCEPT ![w] = "room"]
    /\ force' = [force EXCEPT ![w] = (call[w].batch = NULL)]
    /\ delay' = [delay EXCEPT ![w] = (call[w].batch # NULL)]
    /\ UNCHANGED <<mutex, cvwait, bgwait, writers, call, done, status, group, seqs,
                   store, levels, control, pin, fails>>

TakeTurn(w) ==
    /\ Holds(w, "check")
    /\ ~done[w] /\ w = Head(writers)
    /\ pc' = [pc EXCEPT ![w] = "room"]
    /\ force' = [force EXCEPT ![w] = (call[w].batch = NULL)]
    /\ delay' = [delay EXCEPT ![w] = (call[w].batch # NULL)]
    /\ UNCHANGED <<mutex, cvwait, bgwait, writers, call, done, status, group, seqs,
                   store, levels, control, pin, fails>>

(* Where a thread goes when its Write returns: TEST_CompactMemTable goes   *)
(* on to wait for imm_ when the status is OK.                              *)
AfterWrite(w, ok) == IF call[w].batch = NULL /\ ok THEN "immwait" ELSE "done"

(* The writer was committed by another one: return w.status. *)
ReturnDone(w) ==
    /\ Holds(w, "check")
    /\ done[w]
    /\ pc' = [pc EXCEPT ![w] = AfterWrite(w, status[w])]
    /\ mutex' = NULL
    /\ UNCHANGED <<cvwait, bgwait, queue, store, levels, control, pin, fails>>

-----------------------------------------------------------------------------
(* MakeRoomForWrite: one action per branch of its loop. *)
MustDelay(w) == delay[w] /\ l0 >= L0Slowdown
HasRoom(w)   == ~force[w] /\ Usage <= WriteBuffer
(* Fault: level 0 is not limited. *)
WaitForImmOnly == imm # NULL
MustWait     == imm # NULL \/ l0 >= L0Stop

RoomError(w) ==
    /\ Holds(w, "room")
    /\ bgerr
    /\ status' = [status EXCEPT ![w] = FALSE]
    /\ pc' = [pc EXCEPT ![w] = "finish"]
    /\ UNCHANGED <<mutex, cvwait, bgwait, writers, call, done, room, group, seqs,
                   store, levels, control, pin, fails>>

(* Sleeps one millisecond without the mutex. *)
RoomDelay(w) ==
    /\ Holds(w, "room")
    /\ ~bgerr /\ MustDelay(w)
    /\ delay' = [delay EXCEPT ![w] = FALSE]
    /\ mutex' = NULL
    /\ UNCHANGED <<pc, cvwait, bgwait, writers, call, done, status, force, group, seqs,
                   store, levels, control, pin, fails>>

RoomWait(w) ==
    /\ Holds(w, "room")
    /\ ~bgerr /\ ~MustDelay(w) /\ ~HasRoom(w)
    /\ MustWait
    /\ WaitOnBg(w)
    /\ UNCHANGED <<queue, store, levels, control, pin, fails>>

(* A new log file and memtable; the full memtable becomes imm_. *)
RoomSwitch(w) ==
    /\ Holds(w, "room")
    /\ ~bgerr /\ ~MustDelay(w) /\ ~HasRoom(w) /\ ~MustWait
    /\ Succeeds
    /\ logno' = nextfile /\ nextfile' = nextfile + 1
    /\ logs' = logs \cup {nextfile}
    /\ imm' = logno
    /\ force' = [force EXCEPT ![w] = FALSE]
    /\ pc' = MaybeScheduleCompaction(pc, bgerr, imm', manual, l0, backlog)
    /\ UNCHANGED <<mutex, cvwait, bgwait, writers, call, done, status, delay, group, seqs,
                   lastseq, minlog, logged, synced, memt, version, levels, control, pin>>

(* NewWritableFile fails: ReuseFileNumber and give the error up. *)
RoomSwitchFail(w) ==
    /\ Holds(w, "room")
    /\ ~bgerr /\ ~MustDelay(w) /\ ~HasRoom(w) /\ ~MustWait
    /\ Fails
    /\ status' = [status EXCEPT ![w] = FALSE]
    /\ pc' = [pc EXCEPT ![w] = "finish"]
    /\ UNCHANGED <<mutex, cvwait, bgwait, writers, call, done, room, group, seqs,
                   store, levels, control, pin>>

(* Room found.  A NULL batch is finished; otherwise BuildBatchGroup starts *)
(* with the batch of the head, numbered from last_sequence + 1.            *)
RoomFound(w) ==
    /\ Holds(w, "room")
    /\ ~bgerr /\ ~MustDelay(w) /\ HasRoom(w)
    /\ IF call[w].batch = NULL
       THEN /\ pc' = [pc EXCEPT ![w] = "finish"]
            /\ UNCHANGED <<group, seqs>>
       ELSE /\ pc' = [pc EXCEPT ![w] = "group"]
            /\ last' = [last EXCEPT ![w] = 1]
            /\ size' = [size EXCEPT ![w] = ByteSize(w)]
            /\ hi' = [hi EXCEPT ![w] = lastseq + call[w].batch]
            /\ next' = [next EXCEPT ![w] = lastseq + 1]
            /\ seqs' = [seqs EXCEPT ![w] = (lastseq + 1)..(lastseq + call[w].batch)]
            /\ UNCHANGED syncerr
    /\ UNCHANGED <<mutex, cvwait, bgwait, writers, call, done, status, room,
                   store, levels, control, pin, fails>>

-----------------------------------------------------------------------------
(* Fault: a sync write joins the group of a non-sync one. *)
AnyMayJoin(w, v) ==
    call[v].batch # NULL => size[w] + ByteSize(v) <= MaxSize(w)

(* BuildBatchGroup: one turn of its loop, for the writer v behind the      *)
(* group.  A NULL batch joins the group and adds nothing to it.            *)
MayJoin(w, v) ==
    /\ call[v].sync => call[w].sync
    /\ call[v].batch # NULL => size[w] + ByteSize(v) <= MaxSize(w)

GroupJoin(w) ==
    /\ Holds(w, "group")
    /\ last[w] < Len(writers)
    /\ LET v == writers[last[w] + 1] IN
       /\ MayJoin(w, v)
       /\ last' = [last EXCEPT ![w] = @ + 1]
       /\ IF call[v].batch = NULL
          THEN UNCHANGED <<size, hi, seqs>>
          ELSE /\ size' = [size EXCEPT ![w] = @ + ByteSize(v)]
               /\ hi' = [hi EXCEPT ![w] = @ + call[v].batch]
               /\ seqs' = [seqs EXCEPT ![v] = (hi[w] + 1)..(hi[w] + call[v].batch)]
    /\ UNCHANGED <<threads, writers, call, done, status, room, next, syncerr, store, levels, control, pin, fails>>

(* Fault: last_sequence is published before the entries are inserted. *)
GroupPublish(w) ==
    /\ Holds(w, "group")
    /\ last[w] < Len(writers) => ~MayJoin(w, writers[last[w] + 1])
    /\ pc' = [pc EXCEPT ![w] = "append"]
    /\ mutex' = NULL
    /\ lastseq' = hi[w]
    /\ UNCHANGED <<cvwait, bgwait, queue, logno, nextfile, minlog, logs, logged, synced,
                   memt, imm, version, levels, control, pin, fails>>

(* The group is closed and mutex_ is released for the log write. *)
GroupClose(w) ==
    /\ Holds(w, "group")
    /\ last[w] < Len(writers) => ~MayJoin(w, writers[last[w] + 1])
    /\ pc' = [pc EXCEPT ![w] = "append"]
    /\ mutex' = NULL
    /\ UNCHANGED <<cvwait, bgwait, queue, store, levels, control, pin, fails>>

(* log_->AddRecord of the whole group; the handles log_ and logfile_ are   *)
(* read here, without the mutex.                                           *)
AddRecord(w) ==
    /\ pc[w] = "append"
    /\ Succeeds
    /\ logged' = logged \cup {<<logno, s>> : s \in next[w]..hi[w]}
    /\ pc' = [pc EXCEPT ![w] = IF call[w].sync THEN "sync" ELSE "insert"]
    /\ UNCHANGED <<mutex, cvwait, bgwait, queue, lastseq, logno, nextfile, minlog, logs,
                   synced, memt, imm, version, levels, control, pin>>

AddRecordFail(w) ==
    /\ pc[w] = "append"
    /\ Fails
    /\ status' = [status EXCEPT ![w] = FALSE]
    /\ pc' = [pc EXCEPT ![w] = "commit"]
    /\ UNCHANGED <<mutex, cvwait, bgwait, writers, call, done, room, group, seqs,
                   store, levels, control, pin>>

(* logfile_->Sync() makes every record of that file durable. *)
SyncLog(w) ==
    /\ pc[w] = "sync"
    /\ Succeeds
    /\ synced' = synced \cup {e[2] : e \in {x \in logged : x[1] = logno}}
    /\ pc' = [pc EXCEPT ![w] = "insert"]
    /\ UNCHANGED <<mutex, cvwait, bgwait, queue, lastseq, logno, nextfile, minlog, logs,
                   logged, memt, imm, version, levels, control, pin>>

SyncLogFail(w) ==
    /\ pc[w] = "sync"
    /\ Fails
    /\ status' = [status EXCEPT ![w] = FALSE]
    /\ syncerr' = [syncerr EXCEPT ![w] = TRUE]
    /\ pc' = [pc EXCEPT ![w] = "commit"]
    /\ UNCHANGED <<mutex, cvwait, bgwait, writers, call, done, room, last, size, hi, next,
                   seqs, store, levels, control, pin>>

(* WriteBatchInternal::InsertInto(updates, mem_), entry by entry: readers  *)
(* run between two entries.                                                *)
InsertEntry(w) ==
    /\ pc[w] = "insert"
    /\ next[w] <= hi[w]
    /\ memt' = memt \cup {<<logno, next[w]>>}
    /\ next' = [next EXCEPT ![w] = @ + 1]
    /\ UNCHANGED <<threads, writers, call, done, status, room, last, size, hi, syncerr, seqs,
                   lastseq, logno, nextfile, minlog, logs, logged, synced, imm, version, levels, control, pin, fails>>

InsertDone(w) ==
    /\ pc[w] = "insert"
    /\ next[w] > hi[w]
    /\ pc' = [pc EXCEPT ![w] = "commit"]
    /\ UNCHANGED <<mutex, cvwait, bgwait, queue, store, levels, control, pin, fails>>

(* Fault: a failed group gives its sequence numbers back. *)
SequenceIfWritten(w) == IF status[w] THEN hi[w] ELSE lastseq

NewLastSequence(w) == hi[w]

(* mutex_ is held again: a failed Sync poisons the database, and           *)
(* last_sequence moves past the group whether or not it was written.       *)
Commit(w) ==
    /\ Holds(w, "commit")
    /\ RecordBackgroundError(syncerr[w])
    /\ lastseq' = NewLastSequence(w)
    /\ pc' = [pc EXCEPT ![w] = "finish"]
    /\ UNCHANGED <<mutex, cvwait, queue, logno, nextfile, minlog, logs, logged, synced,
                   memt, imm, version, levels, shutdown, manual, mleft, mdone, bg, pin, fails>>

(* Pop the group, give its members the status, signal them and the new     *)
(* head, and return.                                                       *)
Popped(w) == {writers[i] : i \in 1..last[w]}

(* Fault: nobody tells the next writer that it heads the queue. *)
NoNewHead(w) == {}
NewHead(w) == IF last[w] < Len(writers) THEN {writers[last[w] + 1]} ELSE {}

(* Fault: the status of the group is not handed to its members. *)
KeepStatus(w, v) == status[v]
GroupStatus(w, v) == IF v \in Popped(w) THEN status[w] ELSE status[v]

Finish(w) ==
    /\ Holds(w, "finish")
    /\ writers' = SubSeq(writers, last[w] + 1, Len(writers))
    /\ done' = [v \in Writer |-> done[v] \/ v \in Popped(w) \ {w}]
    /\ status' = [v \in Writer |-> GroupStatus(w, v)]
    /\ cvwait' = cvwait \ (Popped(w) \cup NewHead(w))
    /\ pc' = [pc EXCEPT ![w] = AfterWrite(w, status[w])]
    /\ mutex' = NULL
    /\ UNCHANGED <<bgwait, call, room, group, seqs, store, levels, control, pin, fails>>

(* The second half of TEST_CompactMemTable. *)
AwaitImm(w) ==
    /\ Holds(w, "immwait")
    /\ imm # NULL /\ ~bgerr
    /\ WaitOnBg(w)
    /\ UNCHANGED <<queue, store, levels, control, pin, fails>>

ReturnImm(w) ==
    /\ Holds(w, "immwait")
    /\ imm = NULL \/ bgerr
    /\ status' = [status EXCEPT ![w] = (imm = NULL)]
    /\ pc' = [pc EXCEPT ![w] = "done"]
    /\ mutex' = NULL
    /\ UNCHANGED <<cvwait, bgwait, writers, call, done, room, group, seqs,
                   store, levels, control, pin, fails>>

-----------------------------------------------------------------------------
(* Faults: imm_ is forgotten; the snapshot is one too new. *)
ReferencesNoImm == [snap |-> lastseq, mem |-> logno, imm |-> NULL, ver |-> version,
                    acked |-> {w \in Writer : Acked(w)}]
ReferencesTooNew == [snap |-> lastseq + 1, mem |-> logno, imm |-> imm, ver |-> version,
                     acked |-> {w \in Writer : Acked(w)}]

(* The snapshot, mem_, imm_ and version a reader references; `acked' only  *)
(* records which writes had returned OK.                                   *)
References == [snap |-> lastseq, mem |-> logno, imm |-> imm, ver |-> version,
               acked |-> {w \in Writer : Acked(w)}]

(* Get, NewInternalIterator: the part under mutex_. *)
Get(r) ==
    /\ pc[r] = "idle" /\ pc[Closer] = "idle"
    /\ mutex = NULL
    /\ pin' = [pin EXCEPT ![r] = References]
    /\ pc' = [pc EXCEPT ![r] = "reading"]
    /\ UNCHANGED <<mutex, cvwait, bgwait, queue, store, levels, control, fails>>

(* The read is over: UpdateStats may ask for a seek compaction. *)
GetDone(r) ==
    /\ pc[r] = "reading"
    /\ mutex = NULL
    /\ \E b \in backlog..MaxBacklog :
          /\ backlog' = b
          /\ pc' = LET p == [pc EXCEPT ![r] = "done"] IN
                   IF b > backlog
                   THEN MaybeScheduleCompaction(p, bgerr, imm, manual, l0, b)
                   ELSE p
    /\ UNCHANGED <<mutex, cvwait, bgwait, queue, store, l0, control, pin, fails>>

-----------------------------------------------------------------------------
(* TEST_CompactRange: one action per branch of its loop. *)
CompactRange(m) ==
    /\ pc[m] = "idle" /\ pc[Closer] = "idle"
    /\ mutex = NULL
    /\ mutex' = m
    /\ pc' = [pc EXCEPT ![m] = "manual"]
    /\ UNCHANGED <<cvwait, bgwait, queue, store, levels, control, pin, fails>>

ManualGoesOn(m) == ~mdone[m] /\ ~shutdown /\ ~bgerr

ManualSubmit(m) ==
    /\ Holds(m, "manual")
    /\ ManualGoesOn(m) /\ manual = NULL
    /\ manual' = m
    /\ pc' = MaybeScheduleCompaction(pc, bgerr, imm, m, l0, backlog)
    /\ UNCHANGED <<mutex, cvwait, bgwait, queue, store, levels,
                   bgerr, shutdown, mleft, mdone, bg, pin, fails>>

ManualWait(m) ==
    /\ Holds(m, "manual")
    /\ ManualGoesOn(m) /\ manual # NULL
    /\ WaitOnBg(m)
    /\ UNCHANGED <<queue, store, levels, control, pin, fails>>

ManualReturn(m) ==
    /\ Holds(m, "manual")
    /\ ~ManualGoesOn(m)
    /\ manual' = IF manual = m THEN NULL ELSE manual
    /\ pc' = [pc EXCEPT ![m] = "done"]
    /\ mutex' = NULL
    /\ UNCHANGED <<cvwait, bgwait, queue, store, levels,
                   bgerr, shutdown, mleft, mdone, bg, pin, fails>>

-----------------------------------------------------------------------------
(* ~DBImpl: the caller has no other call in progress. *)
Close ==
    /\ pc[Closer] = "idle"
    /\ \A p \in Writer \cup Reader \cup Manual : pc[p] \in {"idle", "done"}
    /\ mutex = NULL
    /\ mutex' = Closer
    /\ shutdown' = TRUE
    /\ pc' = [pc EXCEPT ![Closer] = "closing"]
    /\ UNCHANGED <<cvwait, bgwait, queue, store, levels,
                   bgerr, manual, mleft, mdone, bg, pin, fails>>

CloseWait ==
    /\ Holds(Closer, "closing")
    /\ Scheduled
    /\ WaitOnBg(Closer)
    /\ UNCHANGED <<queue, store, levels, control, pin, fails>>

(* Fault: the destructor does not wait. *)
CloseAtOnce ==
    /\ Holds(Closer, "closing")
    /\ pc' = [pc EXCEPT ![Closer] = "closed"]
    /\ mutex' = NULL
    /\ UNCHANGED <<cvwait, bgwait, queue, store, levels, control, pin, fails>>

CloseDone ==
    /\ Holds(Closer, "closing")
    /\ ~Scheduled
    /\ pc' = [pc EXCEPT ![Closer] = "closed"]
    /\ mutex' = NULL
    /\ UNCHANGED <<cvwait, bgwait, queue, store, levels, control, pin, fails>>

-----------------------------------------------------------------------------
(* The background thread: BackgroundCall and BackgroundCompaction. *)
BgSkip ==
    /\ Holds(BG, "start")
    /\ shutdown \/ bgerr
    /\ pc' = [pc EXCEPT ![BG] = "end"]
    /\ UNCHANGED <<mutex, cvwait, bgwait, queue, store, levels, control, pin, fails>>

MayCompact == Holds(BG, "start") /\ ~shutdown /\ ~bgerr

(* CompactMemTable up to the release of mutex_ around BuildTable. *)
BgFlush ==
    /\ MayCompact /\ imm # NULL
    /\ pc' = [pc EXCEPT ![BG] = "build"]
    /\ nested' = FALSE
    /\ mutex' = NULL
    /\ UNCHANGED <<cvwait, bgwait, queue, store, levels,
                   bgerr, shutdown, manual, mleft, mdone, bgok, ismanual, editlog, pin, fails>>

(* A manual compaction whose range holds no file is done. *)
BgManualEmpty ==
    /\ MayCompact /\ imm = NULL /\ manual # NULL
    /\ mleft[manual] = 0
    /\ mdone' = [mdone EXCEPT ![manual] = TRUE]
    /\ bgok' = TRUE /\ ismanual' = TRUE
    /\ pc' = [pc EXCEPT ![BG] = "manualend"]
    /\ UNCHANGED <<mutex, cvwait, bgwait, queue, store, levels,
                   bgerr, shutdown, manual, mleft, nested, editlog, pin, fails>>

(* DoCompactionWork releases mutex_ and merges its inputs. *)
BgManualWork ==
    /\ MayCompact /\ imm = NULL /\ manual # NULL
    /\ mleft[manual] > 0
    /\ mleft' = [mleft EXCEPT ![manual] = @ - 1]
    /\ ismanual' = TRUE
    /\ pc' = [pc EXCEPT ![BG] = "work"]
    /\ mutex' = NULL
    /\ UNCHANGED <<cvwait, bgwait, queue, store, levels,
                   bgerr, shutdown, manual, mdone, bgok, nested, editlog, pin, fails>>

(* PickCompaction: nothing, a trivial move (only LogAndApply) or a merge. *)
BgPick ==
    /\ MayCompact /\ imm = NULL /\ manual = NULL
    /\ ismanual' = FALSE
    /\ \/ /\ ~NeedsCompaction(l0, backlog)
          /\ pc' = [pc EXCEPT ![BG] = "end"]
          /\ UNCHANGED mutex
       \/ /\ NeedsCompaction(l0, backlog)
          /\ \E to \in {"work", "install"} : pc' = [pc EXCEPT ![BG] = to]
          /\ mutex' = NULL
    /\ UNCHANGED <<cvwait, bgwait, queue, store, levels,
                   bgerr, shutdown, manual, mleft, mdone, bgok, nested, editlog, pin, fails>>

(* BuildTable and the manifest write of LogAndApply end, well or badly,    *)
(* and the thread asks for mutex_ again.                                   *)
BgIO(from, to) ==
    /\ pc[BG] = from
    /\ \/ Succeeds /\ bgok' = TRUE
       \/ Fails /\ bgok' = FALSE
    /\ pc' = [pc EXCEPT ![BG] = to]
    /\ UNCHANGED <<mutex, cvwait, bgwait, queue, store, levels,
                   bgerr, shutdown, manual, mleft, mdone, nested, ismanual, editlog, pin>>

BgBuild   == BgIO("build", "built")
BgApply   == BgIO("apply", "applied")
BgInstall == BgIO("install", "installed")

(* Fault: the log that is being written is declared obsolete too. *)
NextLogNumber == nextfile

(* edit.SetLogNumber(logfile_number_): "Earlier logs no longer needed". *)
EditLogNumber == logno

(* CompactMemTable with mutex_ held after BuildTable: log number of the    *)
(* edit, then LogAndApply releases mutex_ to write the manifest.           *)
BgBuilt ==
    /\ Holds(BG, "built")
    /\ bgok /\ ~shutdown
    /\ editlog' = EditLogNumber
    /\ pc' = [pc EXCEPT ![BG] = "apply"]
    /\ mutex' = NULL
    /\ UNCHANGED <<cvwait, bgwait, queue, store, levels,
                   bgerr, shutdown, manual, mleft, mdone, bgok, nested, ismanual, pin, fails>>

(* CompactMemTable returns: to BackgroundCall, or into the merge loop of   *)
(* DoCompactionWork, which wakes bg_cv_ and releases mutex_.               *)
FlushReturns(err) ==
    /\ bgerr' = (bgerr \/ err)
    /\ IF nested
       THEN /\ pc' = [pc EXCEPT ![BG] = "work"]
            /\ bgwait' = {}
            /\ mutex' = NULL
       ELSE /\ pc' = [pc EXCEPT ![BG] = "end"]
            /\ bgwait' = IF err /\ ~bgerr THEN {} ELSE bgwait
            /\ UNCHANGED mutex

BgFlushFails ==
    /\ \/ Holds(BG, "built") /\ (~bgok \/ shutdown)
       \/ Holds(BG, "applied") /\ ~bgok
    /\ FlushReturns(TRUE)
    /\ UNCHANGED <<cvwait, queue, store, levels,
                   shutdown, manual, mleft, mdone, bg, pin, fails>>

(* LogAndApply installed the version: imm_ goes, and DeleteObsoleteFiles   *)
(* removes the logs below the new log number unless an error is pending.   *)
KeepLogs(min) == IF bgerr THEN logs ELSE {n \in logs : n >= min}

BgFlushed ==
    /\ Holds(BG, "applied") /\ bgok
    /\ version' = version \cup {e[2] : e \in {x \in memt : x[1] = imm}}
    /\ imm' = NULL
    /\ minlog' = editlog
    /\ logs' = KeepLogs(editlog)
    /\ l0' \in {l0, l0 + 1}
    /\ backlog' \in backlog..MaxBacklog
    /\ FlushReturns(FALSE)
    /\ UNCHANGED <<cvwait, queue, lastseq, logno, nextfile, logged, synced, memt,
                   shutdown, manual, mleft, mdone, bg, pin, fails>>

(* The merge loop sees has_imm_: CompactMemTable comes first. *)
BgWorkImm ==
    /\ pc[BG] = "work"
    /\ mutex = NULL /\ imm # NULL /\ ~shutdown
    /\ pc' = [pc EXCEPT ![BG] = "build"]
    /\ nested' = TRUE
    /\ UNCHANGED <<mutex, cvwait, bgwait, queue, store, levels,
                   bgerr, shutdown, manual, mleft, mdone, bgok, ismanual, editlog, pin, fails>>

(* The merge ends; shutting_down_ turns it into an error. *)
BgWorkEnd ==
    /\ pc[BG] = "work"
    /\ \/ Succeeds /\ bgok' = ~shutdown
       \/ Fails /\ bgok' = FALSE
    /\ pc' = [pc EXCEPT ![BG] = "worked"]
    /\ UNCHANGED <<mutex, cvwait, bgwait, queue, store, levels,
                   bgerr, shutdown, manual, mleft, mdone, nested, ismanual, editlog, pin>>

BgInstallStart ==
    /\ Holds(BG, "worked") /\ bgok
    /\ pc' = [pc EXCEPT ![BG] = "install"]
    /\ mutex' = NULL
    /\ UNCHANGED <<cvwait, bgwait, queue, store, levels, control, pin, fails>>

AfterCompaction == [pc EXCEPT ![BG] = IF ismanual THEN "manualend" ELSE "end"]

BgCompactFails ==
    /\ Holds(BG, "worked") \/ Holds(BG, "installed")
    /\ ~bgok
    /\ RecordBackgroundError(TRUE)
    /\ pc' = AfterCompaction
    /\ UNCHANGED <<mutex, cvwait, queue, store, levels,
                   shutdown, manual, mleft, mdone, bg, pin, fails>>

(* All tables have number 0, so a compaction of level 0 empties it; one of *)
(* another level (chosen by its score, by a seek or by hand) leaves it.    *)
BgCompacted ==
    /\ Holds(BG, "installed") /\ bgok
    /\ l0' \in IF ismanual \/ backlog > 0 THEN {0, l0} ELSE {0}
    /\ backlog' \in {b \in 0..MaxBacklog : b + 1 >= backlog}
    /\ logs' = KeepLogs(minlog)
    /\ pc' = AfterCompaction
    /\ UNCHANGED <<mutex, cvwait, bgwait, queue, lastseq, logno, nextfile, minlog, logged,
                   synced, memt, imm, version, control, pin, fails>>

(* The tail of BackgroundCompaction re-reads manual_compaction_ and        *)
(* dereferences it; with a null pointer the process ends here.             *)
BgManualEnd ==
    /\ Holds(BG, "manualend") /\ manual # NULL
    /\ mdone' = [mdone EXCEPT ![manual] = @ \/ ~bgok]
    /\ manual' = NULL
    /\ pc' = [pc EXCEPT ![BG] = "end"]
    /\ UNCHANGED <<mutex, cvwait, bgwait, queue, store, levels,
                   bgerr, shutdown, mleft, bg, pin, fails>>

(* Fault: BackgroundCall does not signal bg_cv_. *)
BgEndSilently ==
    /\ Holds(BG, "end")
    /\ pc' = MaybeScheduleCompaction([pc EXCEPT ![BG] = "off"],
                                     bgerr, imm, manual, l0, backlog)
    /\ mutex' = NULL
    /\ UNCHANGED <<cvwait, bgwait, queue, store, levels, control, pin, fails>>

(* The tail of BackgroundCall: reschedule if needed, wake bg_cv_. *)
BgEnd ==
    /\ Holds(BG, "end")
    /\ pc' = MaybeScheduleCompaction([pc EXCEPT ![BG] = "off"],
                                     bgerr, imm, manual, l0, backlog)
    /\ bgwait' = {}
    /\ mutex' = NULL
    /\ UNCHANGED <<cvwait, queue, store, levels, control, pin, fails>>

-----------------------------------------------------------------------------
WriterStep(w) ==
    \/ AwaitTurn(w) \/ TakeTurn(w) \/ ReturnDone(w)
    \/ RoomError(w) \/ RoomDelay(w) \/ RoomWait(w) \/ RoomSwitch(w)
    \/ RoomSwitchFail(w) \/ RoomFound(w)
    \/ GroupJoin(w) \/ GroupClose(w)
    \/ AddRecord(w) \/ AddRecordFail(w) \/ SyncLog(w) \/ SyncLogFail(w)
    \/ InsertEntry(w) \/ InsertDone(w) \/ Commit(w) \/ Finish(w)
    \/ AwaitImm(w) \/ ReturnImm(w)

ManualStep(m) == ManualSubmit(m) \/ ManualWait(m) \/ ManualReturn(m)

CloserStep == CloseWait \/ CloseDone

BgStep ==
    \/ BgSkip \/ BgFlush \/ BgManualEmpty \/ BgManualWork \/ BgPick
    \/ BgBuild \/ BgApply \/ BgInstall
    \/ BgBuilt \/ BgFlushFails \/ BgFlushed
    \/ BgWorkImm \/ BgWorkEnd \/ BgInstallStart
    \/ BgCompactFails \/ BgCompacted
    \/ BgManualEnd \/ BgEnd

(* The database is closed and nothing runs any more. *)
Terminated == pc[Closer] = "closed" /\ ~Scheduled /\ UNCHANGED vars

Next ==
    \/ \E p \in Thread : Lock(p)
    \/ \E w \in Writer :
          \/ \E sy \in BOOLEAN, b \in Counts \cup {NULL} : Write(w, sy, b)
          \/ WriterStep(w)
    \/ \E r \in Reader : Get(r) \/ GetDone(r)
    \/ \E m \in Manual : CompactRange(m) \/ ManualStep(m)
    \/ Close \/ CloserStep
    \/ BgStep
    \/ Terminated

Spec == Init /\ [][Next]_vars

(* Threads that are inside a call keep running, a thread blocked on        *)
(* mutex_ or signalled on a condition variable eventually gets the mutex.  *)
(* Nothing forces a client to make a call.                                 *)
Fairness ==
    /\ \A p \in Thread : SF_vars(Lock(p))
    /\ \A w \in Writer : WF_vars(WriterStep(w))
    /\ \A r \in Reader : SF_vars(GetDone(r))
    /\ \A m \in Manual : WF_vars(ManualStep(m))
    /\ WF_vars(CloserStep)
    /\ WF_vars(BgStep)

FairSpec == Spec /\ Fairness

-----------------------------------------------------------------------------
Entry == Nat \X Nat

(* The parts of the type invariant: the threads and what they wait for,    *)
(* the writers and their queue, the memtables and files, and the rest.     *)
ThreadsOK ==
    /\ mutex \in Thread \cup {NULL}
    /\ pc \in [Thread -> PCs]
    /\ cvwait \subseteq Writer /\ bgwait \subseteq Thread

QueueOK ==
    /\ writers \in Seq(Writer)
    /\ call \in [Writer -> [sync : BOOLEAN, batch : Counts \cup {NULL},
                            late : BOOLEAN, asof : Nat]]
    /\ done \in [Writer -> BOOLEAN] /\ status \in [Writer -> BOOLEAN]
    /\ force \in [Writer -> BOOLEAN] /\ delay \in [Writer -> BOOLEAN]
    /\ last \in [Writer -> Nat] /\ size \in [Writer -> Nat]
    /\ hi \in [Writer -> Nat] /\ next \in [Writer -> Nat]
    /\ syncerr \in [Writer -> BOOLEAN]
    /\ seqs \in [Writer -> SUBSET Nat]

StoreOK ==
    /\ lastseq \in Nat /\ logno \in Nat /\ nextfile \in Nat /\ minlog \in Nat
    /\ logs \subseteq Nat /\ logged \subseteq Entry /\ memt \subseteq Entry
    /\ synced \subseteq Nat /\ version \subseteq Nat
    /\ imm \in Nat \cup {NULL}

ControlOK ==
    /\ l0 \in Nat /\ backlog \in Nat
    /\ bgerr \in BOOLEAN /\ shutdown \in BOOLEAN
    /\ manual \in Manual \cup {NULL}
    /\ mleft \in [Manual -> Nat] /\ mdone \in [Manual -> BOOLEAN]
    /\ bgok \in BOOLEAN /\ nested \in BOOLEAN /\ ismanual \in BOOLEAN
    /\ editlog \in Nat
    /\ pin \in [Reader -> [snap : Nat, mem : Nat, imm : Nat \cup {NULL},
                           ver : SUBSET Nat, acked : SUBSET Writer]]
    /\ fails \in Nat

(* Type correctness of the state of DBImpl. *)
TypeOK == ThreadsOK /\ QueueOK /\ StoreOK /\ ControlOK

(* "&w is currently responsible for logging and protects against           *)
(* concurrent loggers and concurrent writes into mem_" (db_impl.cpp,       *)
(* Write): every thread past the queue test is the front of writers_, so   *)
(* at most one uses log_, logfile_, mem_ and tmp_batch_ without mutex_,    *)
(* and MakeRoomForWrite never deletes log_ under a thread that uses it.    *)
LeaderIsHead ==
    \A w \in Writer : pc[w] \in Leading => Len(writers) > 0 /\ w = Head(writers)

(* No wake-up is lost on Writer::cv: the writer at the front of the queue  *)
(* and the writers that are done are never asleep, whoever released the    *)
(* mutex last.                                                             *)
NoLostWakeup ==
    /\ Len(writers) > 0 => Head(writers) \notin cvwait
    /\ \A w \in cvwait : ~done[w]

(* Whoever sleeps on bg_cv_ (MakeRoomForWrite, TEST_CompactMemTable,       *)
(* TEST_CompactRange, ~DBImpl) sleeps while background work is scheduled,  *)
(* so BackgroundCall will reach its SignalAll.                             *)
SleepersHaveWork == bgwait # {} => Scheduled

(* An acknowledged entry is in an installed table or in a log file that    *)
(* exists and that recovery reads (number >= LogNumber()): SetLogNumber    *)
(* and DeleteObsoleteFiles never give up a log too early.                  *)
AckedRecoverable ==
    \A w \in Writer : Acked(w) =>
        \A s \in seqs[w] : \/ s \in version
                           \/ \E n \in logs : n >= minlog /\ <<n, s>> \in logged

(* A Write with sync that returned OK was covered by a successful Sync,    *)
(* even when another writer logged its batch.                              *)
SyncHonoured == \A w \in Writer : Acked(w) /\ call[w].sync => seqs[w] \subseteq synced

(* What Write acknowledged is in a log that the manifest names or in a     *)
(* table of the version, and was synced when the caller asked for that.    *)
(* (That the one table file may be overwritten later is in DBStore.tla.)   *)
AckedDurable == AckedRecoverable /\ SyncHonoured

(* The status a writer gets, possibly from the leader of its group, tells  *)
(* whether its entries were applied: all of them or none.                  *)
StatusTellsTruth ==
    \A w \in Writer : Settled(w) /\ call[w].batch # NULL =>
        LET in == {s \in seqs[w] : \E e \in memt : e[2] = s}
        IN  IF status[w] THEN Cardinality(seqs[w]) = call[w].batch /\ in = seqs[w]
            ELSE in = {}

(* No two batches share a sequence number, not even after a failed log     *)
(* write whose record may be in the file.                                  *)
SequenceUnique ==
    \A v, w \in Writer : v # w => seqs[v] \cap seqs[w] = {}

(* The entries a reader finds through the memtables and the version it     *)
(* referenced, at its snapshot.                                            *)
View(r) ==
    {e[2] : e \in {x \in memt : x[2] <= pin[r].snap /\ x[1] \in {pin[r].mem, pin[r].imm}}}
      \cup {s \in pin[r].ver : s <= pin[r].snap}

(* A read started after a Write returned OK finds all its entries, while   *)
(* memtables are switched, filled and flushed under it.                    *)
ReadYourWrites ==
    \A r \in Reader : pc[r] = "reading" =>
        \A w \in pin[r].acked : seqs[w] \subseteq View(r)

(* A read never finds part of a batch. *)
BatchAtomic ==
    \A r \in Reader, w \in Writer : pc[r] = "reading" =>
        seqs[w] \subseteq View(r) \/ seqs[w] \cap View(r) = {}

(* A Get sees every Write that returned before it, and each one whole.     *)
ReadsConsistent == ReadYourWrites /\ BatchAtomic

(* What a read can find does not change while it runs without the mutex.   *)
SnapshotStable ==
    [][\A r \in Reader : pc[r] = "reading" /\ pc'[r] = "reading" => View(r)' = View(r)]_vars

(* "we force the DB into a mode where all future writes fail": a Write     *)
(* called after a failed Sync, or after any background error, is never     *)
(* acknowledged.                                                           *)
FutureWritesFail == \A w \in Writer : Settled(w) /\ call[w].late => ~status[w]

(* What Write returns is true of its entries and of the state of the       *)
(* database when it was called.                                            *)
StatusHonest == StatusTellsTruth /\ FutureWritesFail

(* MakeRoomForWrite keeps level 0 at kL0_StopWritesTrigger files or fewer, *)
(* although it tests the count long before the memtable it retires is      *)
(* flushed.                                                                *)
Level0Bounded == l0 <= L0Stop

(* When ~DBImpl goes on to free the object no background call is queued    *)
(* or running, and nobody waits on its condition variables.                *)
NothingAfterClose ==
    pc[Closer] = "closed" => ~Scheduled /\ bgwait = {} /\ cvwait = {} /\ mutex = NULL

(* "Force current memtable contents to be compacted" (db_impl.h): when     *)
(* TEST_CompactMemTable returns OK, all that was in memtables at the call  *)
(* is in tables.                                                           *)
ForcedFlush ==
    \A w \in Writer : pc[w] = "done" /\ call[w].batch = NULL /\ status[w] =>
        \A e \in memt : e[2] <= call[w].asof => e[2] \in version

(* BackgroundCompaction finds the ManualCompaction it started with when it *)
(* updates *m.                                                             *)
ManualStillThere == Holds(BG, "manualend") => manual # NULL

(* Every Write call returns. *)
WriteReturns == \A w \in Writer : pc[w] = "check" ~> pc[w] = "done"

(* Every TEST_CompactRange call returns. *)
ManualReturns == \A m \in Manual : pc[m] = "manual" ~> pc[m] = "done"

(* ~DBImpl returns. *)
CloseReturns == pc[Closer] = "closing" ~> pc[Closer] = "closed"

(* A full memtable is flushed, unless an error or the destructor stops     *)
(* background work.                                                        *)
ImmFlushed == imm # NULL ~> imm = NULL \/ bgerr \/ shutdown
=============================================================================
