------------------------------ MODULE DBStore ------------------------------
(***************************************************************************)
(* The files of one database through sessions, process crashes and         *)
(* reopening: DB::Open, DBImpl::Recover and RecoverLogFile, the write path *)
(* as far as it touches files, CompactMemTable, LogAndApply, BuildTable,   *)
(* DeleteObsoleteFiles and the destructor.                                 *)
(*                                                                         *)
(* The files of a database are its logs <name>.NNNNNN.log, ONE table       *)
(* <name>.ldb and ONE manifest <name>.manifest: BuildTable and             *)
(* DescriptorFileName ignore the number they are given, so a new table or  *)
(* manifest truncates the old one in place.                                *)
(*                                                                         *)
(* An entry is its sequence number, and every entry has a key of its own:  *)
(* no entry hides another.  One client calls at a time (module DBImpl is   *)
(* about the threads); the background flush runs beside it.  A crash ends  *)
(* the process between any two steps; what was written to a file stays.    *)
(* Merges of tables are left out: a memtable is switched only while the    *)
(* number of tables stays below the compaction trigger.                    *)
(***************************************************************************)
EXTENDS Naturals, FiniteSets

CONSTANTS
    NULL,          \* the null pointer
    WriteBuffer,   \* options_.write_buffer_size, in entries
    L0Trigger,     \* config::kL0_CompactionTrigger
    MaxSeq,        \* bound: entries written
    MaxOpens,      \* bound: calls of DB::Open
    MaxFail,       \* bound: file operations that fail
    MaxForce       \* bound: calls of TEST_CompactMemTable

ASSUME StoreAssumption ==
    /\ NULL \notin Nat /\ \A S \in SUBSET (0 .. MaxSeq) : NULL # S
    /\ WriteBuffer \in Nat /\ L0Trigger \in Nat \ {0}
    /\ MaxSeq \in Nat /\ MaxOpens \in Nat /\ MaxFail \in Nat /\ MaxForce \in Nat

VARIABLES
    \* the disk
    manifest,   \* "none", "torn" (no edit with a next file number) or "ok"
    mlog, mnext, mseq, mfiles,  \* what the edits of the manifest add up to
    wal,        \* log number -> entries in that log file
    ldb,        \* the entries in the table file, or NULL without a file
    ldbok,      \* the table file is complete
    \* the process
    mode,       \* "closed", or opened "rw" or "ro"
    pc,         \* step of DB::Open; "open" when it has returned OK
    nextfile,   \* versions_->next_file_number_
    lognum,     \* versions_->LogNumber()
    lastseq,    \* versions_->LastSequence()
    files,      \* the tables of the current version, each the entries it had
    newfiles,   \* tables added to the edit of DB::Open or of the flush
    cached,     \* the table TableCache opened, or NULL
    logno,      \* logfile_number_
    mem, imm,   \* entries of mem_ (or of the memtable of RecoverLogFile), imm_
    todo, rest, \* Recover: logs to read, entries to read of the first of them
    maxseq,     \* max_sequence of Recover
    pend,       \* entry that is in the log and not yet in mem_
    flush,      \* step of CompactMemTable, or "off"
    eseq,       \* last sequence in the edit of CompactMemTable
    bgerr,      \* ~bg_error_.ok()
    \* history
    acked,      \* entries whose Put returned OK
    used,       \* sequence numbers ever written to a log
    home,       \* logs that entries were written to
    dropped,    \* a failed LogAndApply deleted the manifest
    opens, fails, forces

disk    == <<manifest, mlog, mnext, mseq, mfiles, wal, ldb, ldbok>>
vset    == <<nextfile, lognum, lastseq, files, newfiles, cached>>
memory  == <<logno, mem, imm, todo, rest, maxseq, pend, flush, eseq, bgerr>>
history == <<acked, used, home, dropped, opens, fails, forces>>
vars    == <<disk, mode, pc, vset, memory, history>>

-----------------------------------------------------------------------------
Logs == DOMAIN wal

SetWal(n, ents) == [m \in Logs \cup {n} |-> IF m = n THEN ents ELSE wal[m]]

Least(S) == CHOOSE n \in S : \A m \in S : n <= m

Succeeds == UNCHANGED fails
Fails    == fails < MaxFail /\ fails' = fails + 1

(* The process is gone: nothing in memory means anything any more. *)
NoProcess ==
    /\ mode' = "closed" /\ pc' = "closed"
    /\ nextfile' = 0 /\ lognum' = 0 /\ lastseq' = 0
    /\ files' = {} /\ newfiles' = {} /\ cached' = NULL
    /\ logno' = 0 /\ mem' = {} /\ imm' = NULL
    /\ todo' = {} /\ rest' = NULL /\ maxseq' = 0
    /\ pend' = NULL /\ flush' = "off" /\ eseq' = 0 /\ bgerr' = FALSE

Init ==
    /\ manifest = "none" /\ mlog = 0 /\ mnext = 0 /\ mseq = 0 /\ mfiles = {}
    /\ wal = [n \in {} |-> {}] /\ ldb = NULL /\ ldbok = FALSE
    /\ mode = "closed" /\ pc = "closed"
    /\ nextfile = 0 /\ lognum = 0 /\ lastseq = 0
    /\ files = {} /\ newfiles = {} /\ cached = NULL
    /\ logno = 0 /\ mem = {} /\ imm = NULL
    /\ todo = {} /\ rest = NULL /\ maxseq = 0
    /\ pend = NULL /\ flush = "off" /\ eseq = 0 /\ bgerr = FALSE
    /\ acked = {} /\ used = {} /\ home = {} /\ dropped = FALSE
    /\ opens = 0 /\ fails = 0 /\ forces = 0

(* kill -9 at any moment, or DB::Open that returns an error it has not yet *)
(* touched a file for (a log or a table that could not be created).        *)
Crash ==
    /\ mode # "closed"
    /\ NoProcess
    /\ UNCHANGED <<disk, history>>

-----------------------------------------------------------------------------
(* DB::Open up to the test for a manifest.  LevelDB::open sets             *)
(* create_if_missing unless it opens for reading only.                     *)
Open(m) ==
    /\ mode = "closed" /\ opens < MaxOpens
    /\ opens' = opens + 1
    /\ IF manifest = "none" /\ m = "ro"
       THEN UNCHANGED <<mode, pc>>
       ELSE mode' = m /\ pc' = IF manifest = "none" THEN "newdb" ELSE "load"
    /\ UNCHANGED <<disk, vset, memory, acked, used, home, dropped, fails, forces>>

(* NewDB creates the file, and then writes the edit of an empty database.  *)
NewDBCreate ==
    /\ pc = "newdb" /\ manifest = "none"
    /\ manifest' = "torn" /\ mfiles' = {}
    /\ UNCHANGED <<mlog, mnext, mseq, wal, ldb, ldbok, mode, pc, vset, memory, history>>

NewDBWrite ==
    /\ pc = "newdb" /\ manifest = "torn"
    /\ Succeeds
    /\ manifest' = "ok" /\ mlog' = 0 /\ mnext' = 2 /\ mseq' = 0
    /\ pc' = "load"
    /\ UNCHANGED <<mfiles, wal, ldb, ldbok, mode, vset, memory,
                   acked, used, home, dropped, opens, forces>>

NewDBFail ==
    /\ pc = "newdb" /\ manifest = "torn"
    /\ Fails
    /\ manifest' = "none"
    /\ NoProcess
    /\ UNCHANGED <<mlog, mnext, mseq, mfiles, wal, ldb, ldbok,
                   acked, used, home, dropped, opens, forces>>

(* Fault: no number is set aside for the manifest. *)
RecoveredNextFile == mnext

(* manifest_file_number_ = next_file; next_file_number_ = next_file + 1. *)
NextFileNumber == mnext + 1

(* VersionSet::Recover refuses a manifest without a next file number.  The *)
(* test for missing files never fails: the lock file has number 0 as well. *)
Load ==
    /\ pc = "load"
    /\ IF manifest = "torn"
       THEN /\ NoProcess
       ELSE /\ nextfile' = NextFileNumber
            /\ lognum' = mlog /\ lastseq' = mseq /\ files' = mfiles
            /\ todo' = {n \in Logs : n >= mlog}
            /\ pc' = "replay"
            /\ UNCHANGED <<mode, newfiles, cached, logno, mem, imm, rest, maxseq, pend,
                           flush, eseq, bgerr>>
    /\ UNCHANGED <<disk, history>>

-----------------------------------------------------------------------------
(* RecoverLogFile: records go to a memtable, and to a table whenever it is *)
(* too full and at the end of the log.  `rest' is NULL between two logs.   *)
ReplayOpen ==
    /\ pc = "replay" /\ todo # {} /\ rest = NULL
    /\ rest' = wal[Least(todo)]
    /\ UNCHANGED <<disk, mode, pc, vset, logno, mem, imm, todo, maxseq, pend, flush, eseq, bgerr,
                   history>>

ReplayRecord ==
    /\ pc = "replay" /\ rest \notin {NULL, {}}
    /\ Cardinality(mem) <= WriteBuffer
    /\ mem' = mem \cup {Least(rest)}
    /\ rest' = rest \ {Least(rest)}
    /\ maxseq' = IF Least(rest) > maxseq THEN Least(rest) ELSE maxseq
    /\ UNCHANGED <<disk, mode, pc, vset, logno, imm, todo, pend, flush, eseq, bgerr, history>>

ReplayFull ==
    /\ pc = "replay" /\ rest # NULL /\ mem # {}
    /\ Cardinality(mem) > WriteBuffer \/ rest = {}
    /\ pc' = "build"
    /\ UNCHANGED <<disk, mode, vset, memory, history>>

(* MarkFileNumberUsed(1) after each log: the counter is already past 1. *)
ReplayNext ==
    /\ pc = "replay" /\ mem = {} /\ rest = {}
    /\ todo' = todo \ {Least(todo)}
    /\ rest' = NULL
    /\ UNCHANGED <<disk, mode, pc, vset, logno, mem, imm, maxseq, pend, flush, eseq, bgerr, history>>

(* Fault: the sequence counter stays at the one of the manifest. *)
ManifestSequence == lastseq
RecoveredSequence == IF maxseq > lastseq THEN maxseq ELSE lastseq

(* Fault: the number of the new log is not taken off the counter. *)
NewLogSameNumber ==
    /\ pc = "replay" /\ todo = {}
    /\ lastseq' = RecoveredSequence
    /\ logno' = nextfile
    /\ wal' = IF mode = "rw" THEN SetWal(nextfile, {}) ELSE wal
    /\ pc' = "truncate"
    /\ UNCHANGED <<manifest, mlog, mnext, mseq, mfiles, ldb, ldbok, mode, nextfile, lognum, files,
                   newfiles, cached, mem, imm, todo, rest, maxseq, pend, flush, eseq, bgerr, history>>

(* The end of Recover; DB::Open takes a number for the new log and, unless *)
(* it opens for reading only, creates (or truncates) the file.             *)
NewLog ==
    /\ pc = "replay" /\ todo = {}
    /\ lastseq' = RecoveredSequence
    /\ logno' = nextfile /\ nextfile' = nextfile + 1
    /\ wal' = IF mode = "rw" THEN SetWal(nextfile, {}) ELSE wal
    /\ pc' = "truncate"
    /\ UNCHANGED <<manifest, mlog, mnext, mseq, mfiles, ldb, ldbok, mode, lognum, files, newfiles,
                   cached, mem, imm, todo, rest, maxseq, pend, flush, eseq, bgerr, history>>

-----------------------------------------------------------------------------
(* BuildTable(ents): truncate the one table file, write it, open it        *)
(* through the cache.  A table of no entries deletes the file instead.     *)
TableTruncate(ents) ==
    /\ ents # {}
    /\ ldb' = {} /\ ldbok' = FALSE

(* Fault: the table is not added to the edit. *)
TableForgotten(ents) ==
    /\ ents # {}
    /\ ldb' = ents /\ ldbok' = TRUE
    /\ cached' = IF cached = NULL THEN ents ELSE cached
    /\ UNCHANGED newfiles

TableFinish(ents) ==
    /\ ents # {}
    /\ ldb' = ents /\ ldbok' = TRUE
    /\ cached' = IF cached = NULL THEN ents ELSE cached
    /\ newfiles' = newfiles \cup {ents}

TableRemove ==
    /\ ldb' = NULL /\ ldbok' = FALSE

(* WriteLevel0Table from RecoverLogFile. *)
ReplayBuild ==
    /\ pc = "build" /\ TableTruncate(mem)
    /\ pc' = "fill"
    /\ UNCHANGED <<manifest, mlog, mnext, mseq, mfiles, wal, mode, vset, memory, history>>

ReplayBuilt ==
    /\ pc = "fill" /\ Succeeds /\ TableFinish(mem)
    /\ mem' = {}
    /\ pc' = "replay"
    /\ UNCHANGED <<manifest, mlog, mnext, mseq, mfiles, wal, mode, nextfile, lognum, lastseq, files,
                   logno, imm, todo, rest, maxseq, pend, flush, eseq, bgerr,
                   acked, used, home, dropped, opens, forces>>

ReplayBuildFail ==
    /\ pc = "fill" /\ Fails /\ TableRemove
    /\ NoProcess
    /\ UNCHANGED <<manifest, mlog, mnext, mseq, mfiles, wal,
                   acked, used, home, dropped, opens, forces>>

(* LogAndApply of DB::Open: NewWritableFile truncates the manifest, which  *)
(* then gets a snapshot of the version and the edit.                       *)
ManifestTruncate ==
    /\ pc = "truncate"
    /\ manifest' = "torn" /\ mfiles' = {}
    /\ pc' = "apply"
    /\ UNCHANGED <<mlog, mnext, mseq, wal, ldb, ldbok, mode, vset, memory, history>>

(* Fault: the new version is not installed. *)
ManifestOnly ==
    /\ pc = "apply" /\ Succeeds
    /\ manifest' = "ok"
    /\ mlog' = logno /\ mnext' = nextfile /\ mseq' = lastseq
    /\ mfiles' = files \cup newfiles
    /\ lognum' = logno
    /\ newfiles' = {}
    /\ pc' = "delete"
    /\ UNCHANGED <<wal, ldb, ldbok, mode, nextfile, lastseq, files, cached, memory,
                   acked, used, home, dropped, opens, forces>>

ManifestApply ==
    /\ pc = "apply" /\ Succeeds
    /\ manifest' = "ok"
    /\ mlog' = logno /\ mnext' = nextfile /\ mseq' = lastseq
    /\ mfiles' = files \cup newfiles
    /\ lognum' = logno
    /\ files' = files \cup newfiles /\ newfiles' = {}
    /\ pc' = "delete"
    /\ UNCHANGED <<wal, ldb, ldbok, mode, nextfile, lastseq, cached, memory,
                   acked, used, home, dropped, opens, forces>>

(* A failed LogAndApply deletes the manifest, and DB::Open fails. *)
ManifestFail ==
    /\ pc \in {"truncate", "apply"} /\ Fails
    /\ manifest' = "none" /\ mfiles' = {}
    /\ dropped' = TRUE
    /\ NoProcess
    /\ UNCHANGED <<mlog, mnext, mseq, wal, ldb, ldbok,
                   acked, used, home, opens, forces>>

(* DeleteObsoleteFiles: the logs it deletes, one file at a time.           *)
ObsoleteLogs(min) == {n \in Logs : n < min}

DeleteLog(n) == wal' = [m \in Logs \ {n} |-> wal[m]]

OpenDelete ==
    /\ pc = "delete"
    /\ \E n \in ObsoleteLogs(lognum) : DeleteLog(n)
    /\ UNCHANGED <<manifest, mlog, mnext, mseq, mfiles, ldb, ldbok, mode, pc, vset, memory, history>>

Opened ==
    /\ pc = "delete" /\ ObsoleteLogs(lognum) = {}
    /\ pc' = "open"
    /\ UNCHANGED <<disk, mode, vset, memory, history>>

-----------------------------------------------------------------------------
(* Write, as far as files are concerned: AddRecord, then InsertInto and    *)
(* the return with OK.                                                     *)
PutLog ==
    /\ pc = "open" /\ mode = "rw" /\ pend = NULL /\ ~bgerr
    /\ lastseq < MaxSeq
    /\ Cardinality(mem) <= WriteBuffer
    /\ pend' = lastseq + 1
    /\ wal' = SetWal(logno, wal[logno] \cup {lastseq + 1})
    /\ used' = used \cup {lastseq + 1} /\ home' = home \cup {logno}
    /\ UNCHANGED <<manifest, mlog, mnext, mseq, mfiles, ldb, ldbok, mode, pc, vset,
                   logno, mem, imm, todo, rest, maxseq, flush, eseq, bgerr,
                   acked, dropped, opens, fails, forces>>

PutAck ==
    /\ pend # NULL
    /\ mem' = mem \cup {pend} /\ lastseq' = pend
    /\ acked' = acked \cup {pend}
    /\ pend' = NULL
    /\ UNCHANGED <<disk, mode, pc, nextfile, lognum, files, newfiles, cached,
                   logno, imm, todo, rest, maxseq, flush, eseq, bgerr,
                   used, home, dropped, opens, fails, forces>>

(* MakeRoomForWrite opens a new log, and mem_ becomes imm_.  It holds the  *)
(* mutex, and so does DeleteObsoleteFiles until its last file.             *)
SwitchMemTable ==
    /\ pc = "open" /\ mode = "rw" /\ pend = NULL /\ ~bgerr
    /\ imm = NULL /\ flush = "off"
    /\ Cardinality(files) + 1 < L0Trigger
    /\ logno' = nextfile /\ nextfile' = nextfile + 1
    /\ wal' = SetWal(nextfile, {})
    /\ imm' = mem /\ mem' = {}
    /\ flush' = "build"
    /\ UNCHANGED <<manifest, mlog, mnext, mseq, mfiles, ldb, ldbok, mode, pc, lognum, lastseq,
                   files, newfiles, cached, todo, rest, maxseq, pend, eseq, bgerr,
                   acked, used, home, dropped, opens, fails>>

(* A Write that finds mem_ full, and TEST_CompactMemTable. *)
Switch ==
    /\ Cardinality(mem) > WriteBuffer /\ lastseq < MaxSeq
    /\ SwitchMemTable
    /\ UNCHANGED forces

ForceSwitch ==
    /\ forces < MaxForce /\ forces' = forces + 1
    /\ SwitchMemTable

-----------------------------------------------------------------------------
(* Fault: the edit takes the sequence number a Write is about to publish. *)
PendingSequence == pend

(* SetLastSequence(last_sequence_) in LogAndApply. *)
EditSequence == lastseq

(* CompactMemTable in the background thread. *)
FlushTruncate ==
    /\ flush = "build" /\ TableTruncate(imm)
    /\ flush' = "fill"
    /\ UNCHANGED <<manifest, mlog, mnext, mseq, mfiles, wal, mode, pc, vset,
                   logno, mem, imm, todo, rest, maxseq, pend, eseq, bgerr, history>>

(* NewWritableFile fails: the table file is as it was. *)
FlushCreateFail ==
    /\ flush = "build" /\ imm # {} /\ Fails
    /\ flush' = "off" /\ bgerr' = TRUE
    /\ UNCHANGED <<disk, mode, pc, vset, logno, mem, imm, todo, rest, maxseq, pend, eseq,
                   acked, used, home, dropped, opens, forces>>

(* "if file_size is zero, the file has been deleted": nothing to add. *)
FlushEmpty ==
    /\ flush = "build" /\ imm = {} /\ pc = "open"
    /\ TableRemove
    /\ flush' = "apply" /\ eseq' = EditSequence
    /\ UNCHANGED <<manifest, mlog, mnext, mseq, mfiles, wal, mode, pc, vset,
                   logno, mem, imm, todo, rest, maxseq, pend, bgerr, history>>

(* The table is complete; the edit takes the last sequence number of now,  *)
(* and the destructor turns success into an error.                         *)
FlushFill ==
    /\ flush = "fill" /\ Succeeds /\ TableFinish(imm)
    /\ IF pc = "closing"
       THEN flush' = "off" /\ bgerr' = TRUE /\ UNCHANGED eseq
       ELSE flush' = "apply" /\ eseq' = EditSequence /\ UNCHANGED bgerr
    /\ UNCHANGED <<manifest, mlog, mnext, mseq, mfiles, wal, mode, pc,
                   nextfile, lognum, lastseq, files, logno, mem, imm, todo, rest, maxseq, pend,
                   acked, used, home, dropped, opens, forces>>

FlushFail ==
    /\ flush = "fill" /\ Fails /\ TableRemove
    /\ flush' = "off" /\ bgerr' = TRUE
    /\ UNCHANGED <<manifest, mlog, mnext, mseq, mfiles, wal, mode, pc, vset,
                   logno, mem, imm, todo, rest, maxseq, pend, eseq,
                   acked, used, home, dropped, opens, forces>>

(* LogAndApply appends one edit to the manifest. *)
AppendEdit ==
    /\ mlog' = logno /\ mnext' = nextfile /\ mseq' = eseq
    /\ mfiles' = mfiles \cup newfiles

FlushApply ==
    /\ flush = "apply" /\ Succeeds
    /\ AppendEdit
    /\ lognum' = logno /\ files' = files \cup newfiles /\ newfiles' = {}
    /\ imm' = NULL
    /\ flush' = "delete"
    /\ UNCHANGED <<manifest, wal, ldb, ldbok, mode, pc, nextfile, lastseq, cached,
                   logno, mem, todo, rest, maxseq, pend, eseq, bgerr,
                   acked, used, home, dropped, opens, forces>>

(* The edit was not written, or was written and not synced. *)
FlushApplyFail ==
    /\ flush = "apply" /\ Fails
    /\ AppendEdit \/ UNCHANGED <<mlog, mnext, mseq, mfiles>>
    /\ flush' = "off" /\ bgerr' = TRUE
    /\ UNCHANGED <<manifest, wal, ldb, ldbok, mode, pc, vset,
                   logno, mem, imm, todo, rest, maxseq, pend, eseq,
                   acked, used, home, dropped, opens, forces>>

FlushDelete ==
    /\ flush = "delete"
    /\ \E n \in ObsoleteLogs(lognum) : DeleteLog(n)
    /\ UNCHANGED <<manifest, mlog, mnext, mseq, mfiles, ldb, ldbok, mode, pc, vset, memory, history>>

FlushDone ==
    /\ flush = "delete" /\ ObsoleteLogs(lognum) = {}
    /\ flush' = "off"
    /\ UNCHANGED <<disk, mode, pc, vset, logno, mem, imm, todo, rest, maxseq, pend, eseq, bgerr,
                   history>>

(* BackgroundCall that finds shutting_down_ set. *)
FlushSkip ==
    /\ flush = "build" /\ pc = "closing"
    /\ flush' = "off"
    /\ UNCHANGED <<disk, mode, pc, vset, logno, mem, imm, todo, rest, maxseq, pend, eseq, bgerr,
                   history>>

(* ~DBImpl: mem_ is not flushed, a flush that runs is waited for. *)
Close ==
    /\ pc = "open" /\ pend = NULL
    /\ pc' = "closing"
    /\ UNCHANGED <<disk, mode, vset, memory, history>>

CloseDone ==
    /\ pc = "closing" /\ flush = "off"
    /\ NoProcess
    /\ UNCHANGED <<disk, history>>

-----------------------------------------------------------------------------
OpenStep ==
    \/ NewDBCreate \/ NewDBWrite \/ NewDBFail \/ Load
    \/ ReplayOpen \/ ReplayRecord \/ ReplayFull \/ ReplayNext
    \/ ReplayBuild \/ ReplayBuilt \/ ReplayBuildFail
    \/ NewLog \/ ManifestTruncate \/ ManifestApply \/ ManifestFail
    \/ OpenDelete \/ Opened

FlushStep ==
    \/ FlushTruncate \/ FlushCreateFail \/ FlushEmpty \/ FlushFill \/ FlushFail
    \/ FlushApply \/ FlushApplyFail \/ FlushDelete \/ FlushDone \/ FlushSkip

(* The bound on opens is reached and the process is gone. *)
Finished == mode = "closed" /\ opens = MaxOpens /\ UNCHANGED vars

Next ==
    \/ \E m \in {"rw", "ro"} : Open(m)
    \/ OpenStep
    \/ PutLog \/ PutAck \/ Switch \/ ForceSwitch
    \/ FlushStep
    \/ Close \/ CloseDone \/ Crash
    \/ Finished

Spec == Init /\ [][Next]_vars

-----------------------------------------------------------------------------
Numbers == SUBSET Nat

(* Type correctness of the files and of the process. *)
TypeOK ==
    /\ manifest \in {"none", "torn", "ok"}
    /\ mlog \in Nat /\ mnext \in Nat /\ mseq \in Nat /\ mfiles \subseteq Numbers
    /\ Logs \subseteq Nat /\ \A n \in Logs : wal[n] \in Numbers
    /\ ldb \in Numbers \cup {NULL} /\ ldbok \in BOOLEAN
    /\ mode \in {"closed", "rw", "ro"}
    /\ pc \in {"closed", "newdb", "load", "replay", "build", "fill", "truncate", "apply",
               "delete", "open", "closing"}
    /\ nextfile \in Nat /\ lognum \in Nat /\ lastseq \in Nat
    /\ files \subseteq Numbers /\ newfiles \subseteq Numbers
    /\ cached \in Numbers \cup {NULL}
    /\ logno \in Nat /\ mem \in Numbers /\ imm \in Numbers \cup {NULL}
    /\ todo \in Numbers /\ rest \in Numbers \cup {NULL} /\ maxseq \in Nat
    /\ pend \in Nat \cup {NULL} /\ flush \in {"off", "build", "fill", "apply", "delete"}
    /\ eseq \in Nat /\ bgerr \in BOOLEAN

(* What the next DB::Open will find: the entry is in a log that Recover    *)
(* will read, or in the complete table file and the manifest names it.     *)
(* With no usable manifest, it is in some file.                            *)
Survives(e) ==
    IF manifest = "ok"
    THEN \/ \E n \in Logs : n >= mlog /\ e \in wal[n]
         \/ ldb # NULL /\ ldbok /\ e \in ldb /\ \E f \in mfiles : e \in f
    ELSE \/ \E n \in Logs : e \in wal[n]
         \/ ldb # NULL /\ ldbok /\ e \in ldb

(* The use the single table file allows: one bulk load, which fits in one  *)
(* log, no LogAndApply that deleted the manifest and no forced flush.      *)
BulkLoad == Cardinality(home) <= 1 /\ ~dropped
OneLoad  == BulkLoad /\ forces = 0

(* A bulk load survives crashes at every step of writing, of the recovery  *)
(* that turns its log into the table, and of later openings: the log goes  *)
(* only once the table is complete and the manifest names it.              *)
OneLoadSurvives == OneLoad => \A e \in acked : Survives(e)

(* The table through which a session reads: the object in TableCache, good *)
(* as long as the file under it is the one it was opened on; otherwise the *)
(* file, if its size is the one in the version.                            *)
TableHas(e, f) ==
    IF cached # NULL
    THEN cached = ldb /\ e \in cached
    ELSE ldb # NULL /\ ldbok /\ Cardinality(ldb) = Cardinality(f) /\ e \in ldb

Found(e) ==
    \/ e \in mem
    \/ imm # NULL /\ e \in imm
    \/ \E f \in files : e \in f /\ TableHas(e, f)

(* An open session finds every entry of a bulk load, the one that loaded   *)
(* it and the ones that open it later.                                     *)
OneLoadReadable == OneLoad /\ pc = "open" => \A e \in acked : Found(e)

(* A bulk load stays on disk through every crash, and every session can    *)
(* read it.                                                                *)
OneLoadKept == OneLoadSurvives /\ OneLoadReadable

(* Creating a log never truncates one that has entries: the numbers that   *)
(* VersionSet::Recover takes from the manifest are past every log, also    *)
(* the one log that was created after the last edit.                       *)
LogsOnlyGrow ==
    [][~dropped => \A n \in Logs : n \in DOMAIN wal' => wal[n] \subseteq wal'[n]]_vars

(* A sequence number is never given out twice, although the manifest is    *)
(* behind the logs and logs are deleted.                                   *)
NumbersFresh ==
    [][~dropped /\ pend' # pend /\ pend' # NULL => pend' \notin used]_vars

(* LogNumber() never goes back, in the process and in the manifest (the    *)
(* assertions of LogAndApply).                                             *)
LogNumberGrows ==
    [][/\ ~dropped' => mlog' >= mlog
       /\ mode # "closed" /\ mode' # "closed" => lognum' >= lognum
       /\ lognum' # lognum /\ mode' # "closed" => lognum' < nextfile']_vars

(* The counters of log files never go back: no log is truncated, and none  *)
(* that recovery needs falls below the log number.                         *)
LogNumbersSound == LogsOnlyGrow /\ LogNumberGrows

(* "if it is just the process that crashes ..., no writes will be lost     *)
(* even if sync==false" (options.h).                                       *)
ProcessCrashLosesNothing == \A e \in acked : Survives(e)

(* "the creation of the DB is committed only when the descriptor is        *)
(* created" (Recover): whenever no process has the database open, the      *)
(* manifest is absent or complete, so that DB::Open can go on.             *)
CreationIsAtomic == mode = "closed" => manifest # "torn"

(* "So we manually update the file number allocation counter" (Recover):   *)
(* the number of the new log is past every log that was recovered.         *)
CounterPastLogs == pc = "truncate" => \A n \in Logs : n <= logno

(* CompactRange only rearranges data: a forced flush of an empty memtable  *)
(* loses nothing.                                                          *)
ForcedFlushKeeps == BulkLoad => \A e \in acked : Survives(e)
=============================================================================
