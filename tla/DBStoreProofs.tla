--------------------------- MODULE DBStoreProofs ---------------------------
(***************************************************************************)
(* Proofs about the files of a database (module DBStore), for every size   *)
(* of the write buffer and every number of openings, crashes, failures and *)
(* entries: the types, the counters of log files and of sequence numbers,  *)
(* and that a bulk load survives.                                          *)
(*                                                                         *)
(* What is hard is that the process forgets: the counters of a session     *)
(* come from a manifest that is behind the logs, so each fact about a      *)
(* session needs the fact about the files that a crash leaves.             *)
(***************************************************************************)
EXTENDS DBStore, FiniteSetTheorems, WellFoundedInduction, TLAPS

-----------------------------------------------------------------------------
(* The control of DB::Open and of the flush, and the types of what TypeOK  *)
(* leaves out: which variables mean nothing at which step.                 *)
Idle == pend = NULL /\ imm = NULL /\ flush = "off" /\ ~bgerr

Blank ==
    /\ lognum = 0 /\ files = {} /\ newfiles = {} /\ cached = NULL
    /\ mem = {} /\ todo = {} /\ rest = NULL /\ maxseq = 0

HistoryOK ==
    /\ acked \subseteq used /\ used \subseteq 0 .. MaxSeq /\ home \in Numbers
    /\ mem \subseteq used /\ \A n \in Logs : wal[n] \subseteq used
    /\ pend # NULL => pend \in used
    /\ IsFiniteSet(used) /\ IsFiniteSet(home)
    /\ dropped \in BOOLEAN /\ forces \in Nat

Running == pc \in {"delete", "open", "closing"}
Replaying == pc \in {"replay", "build", "fill"}

ControlOK ==
    /\ (pc = "closed") = (mode = "closed")
    /\ pc \notin {"open", "closing"} => Idle
    /\ pc = "closing" => pend = NULL
    /\ flush \in {"build", "fill", "apply"} => imm # NULL
    /\ flush = "delete" => imm = NULL
    /\ flush # "off" => ~bgerr
    /\ mode = "ro" => Idle
    /\ pc \in {"closed", "newdb", "load"} => Blank
    /\ pc = "load" => manifest # "none"
    /\ Replaying \/ pc = "truncate" \/ Running => manifest = "ok"
    /\ ~Replaying => todo = {} /\ rest = NULL
    /\ Replaying => todo \subseteq {n \in Logs : n >= mlog}
    /\ rest # NULL => todo # {} /\ rest \subseteq wal[Least(todo)]
    /\ pc \in {"build", "fill"} => rest # NULL /\ mem # {}
    /\ Replaying /\ rest = NULL => mem = {}
    /\ pc \in {"truncate", "apply", "delete"} => mem = {}
    /\ Running /\ flush \notin {"apply"} /\ ~bgerr => newfiles = {}

(* The counters of log files.  A session starts one past the manifest, and *)
(* is at most one number ahead of it, while a memtable waits to be written.*)
CountersOK ==
    /\ mlog <= mnext
    /\ Replaying => nextfile = mnext + 1 /\ lognum = mlog
    /\ pc \in {"truncate", "apply"} =>
           logno = mnext + 1 /\ nextfile = mnext + 2 /\ lognum = mlog
    /\ Running =>
           /\ lognum <= mlog /\ mlog <= logno /\ logno < nextfile
           /\ mnext <= nextfile /\ nextfile <= mnext + 1
           /\ nextfile = mnext + 1 => imm # NULL
    /\ pc = "delete" => lognum = logno
    /\ (pc \in {"truncate", "apply"} \/ Running) /\ mode = "rw" => logno \in Logs

(* What a crash leaves for the counters, and the log of the session.       *)
LogsOK ==
    ~dropped =>
        /\ manifest = "none" \/ pc = "newdb" => Logs = {} /\ mlog = 0 /\ used = {} /\ home = {}
        /\ \A n \in Logs : n <= mnext + 1 /\ (n = mnext + 1 => wal[n] = {})
        /\ \A n \in home : n <= mnext
        /\ Running => \A n \in Logs \cup home : n <= logno

(* The sequence numbers on disk and in a session.  *)
Unread(s) ==
    \/ rest # NULL /\ s \in rest
    \/ \E n \in todo : s \in wal[n] /\ (rest = NULL \/ n # Least(todo))

SequenceOK ==
    ~dropped =>
        /\ manifest = "ok" =>
               \A s \in used : s <= mseq \/ \E n \in Logs : n >= mlog /\ s \in wal[n]
        /\ Replaying => \A s \in used : s <= lastseq \/ s <= maxseq \/ Unread(s)
        /\ pc \in {"truncate", "apply"} \/ Running => \A s \in used : s <= lastseq \/ s = pend
        /\ pend # NULL => pend = lastseq + 1 /\ logno \in Logs /\ pend \in wal[logno]
        /\ flush = "apply" => logno \in Logs /\ \A s \in used : s <= eseq \/ s \in wal[logno]

-----------------------------------------------------------------------------
(* One bulk load: at most one log ever got entries.  Where they are: that  *)
(* log while the next opening reads it, or the table file.                 *)
Single == (\A m, n \in home : m = n) /\ ~dropped /\ forces = 0

InLog   == \E h \in Logs : h \in home /\ (manifest = "ok" => h >= mlog)
InTable == ldb = used /\ ldbok

LoadOK ==
    /\ (used = {}) = (home = {})
    /\ Cardinality(used) <= WriteBuffer + 1
    /\ \A n \in Logs : wal[n] = IF n \in home THEN used ELSE {}
    /\ used = {} \/ InLog \/ (InTable /\ (manifest = "ok" => used \in mfiles))
    /\ used = {} \/ InLog => mfiles = {}
    /\ mfiles \subseteq {used} /\ files \subseteq {used} /\ newfiles \subseteq {used}
    /\ cached \in {NULL, used}
    /\ used = {} => /\ files = {} /\ newfiles = {} /\ cached = NULL
                    /\ imm = NULL /\ flush = "off"
    /\ pend \notin acked

(* Recovery reads the log of the load into one memtable, and the log goes  *)
(* off its list only when the table is complete and in the edit.           *)
ReplayOK ==
    Replaying =>
        /\ used = {} \/ (\E h \in todo : h \in home) \/ (InTable /\ used \in files \cup newfiles)
        /\ newfiles # {} => InTable
        /\ newfiles # {} /\ (rest = NULL \/ Least(todo) \notin home) => \A h \in todo : h \notin home
        /\ rest # NULL /\ Least(todo) \notin home => mem = {}
        /\ rest # NULL /\ Least(todo) \in home =>
               \/ mem \cup rest = used /\ mem \cap rest = {} /\ newfiles = {}
               \/ mem = {} /\ rest = {} /\ InTable /\ used \in newfiles
        /\ pc \in {"build", "fill"} => rest = {}

(* A session that loaded the data, and has it in mem_; one that writes it  *)
(* to the table; and one that has it in a table of its version.            *)
Loading ==
    /\ logno \in home /\ mem = used \ {pend} /\ imm = NULL /\ flush = "off"
    /\ files = {} /\ newfiles = {} /\ cached = NULL

Flushing ==
    /\ logno \notin home /\ mem = {} /\ pend = NULL /\ imm = used /\ files = {}
    /\ flush \in {"build", "fill", "apply"} => InLog
    /\ flush \in {"build", "fill"} => newfiles = {} /\ cached = NULL
    /\ flush = "apply" => newfiles = {used} /\ InTable

Stored ==
    /\ logno \notin home /\ mem = {} /\ pend = NULL /\ imm = NULL /\ flush \in {"off", "delete"}
    /\ files = {used} /\ used \in mfiles /\ InTable

SessionOK ==
    /\ pc \in {"truncate", "apply"} /\ used # {} => files \cup newfiles = {used} /\ InTable
    /\ Running /\ used # {} => Loading \/ Flushing \/ Stored

SingleOK == Single => LoadOK /\ ReplayOK /\ SessionOK
-----------------------------------------------------------------------------
(* A set of file or sequence numbers has a least element, which is what    *)
(* Recover takes when it has sorted the logs.                              *)
LEMMA LeastInSet ==
    ASSUME NEW S \in SUBSET Nat, S # {}
    PROVE  Least(S) \in S /\ \A m \in S : Least(S) <= m
<1> DEFINE R == OpToRel(<, Nat)
<1>1. IsWellFoundedOn(R, Nat)
  BY NatLessThanWellFounded
<1>2. \A a, b \in Nat : a < b => <<a, b>> \in R
  BY DEF OpToRel
<1> HIDE DEF R
<1>3. PICK x \in S : \A y \in S : ~ (<<y, x>> \in R)
  BY <1>1, WFMin
<1>4. \A y \in S : x <= y
  <2> TAKE y \in S
  <2>1. x \in Nat /\ y \in Nat
    OBVIOUS
  <2>2. ~ (y < x)
    BY <1>2, <1>3, <2>1
  <2> QED BY <2>1, <2>2
<1> QED BY <1>4 DEF Least

(* No set of entries is the null pointer. *)
LEMMA NotNull ==
    ASSUME NEW S \in SUBSET (0 .. MaxSeq)
    PROVE  S # NULL
  BY StoreAssumption

(* No sequence number is the null pointer. *)
LEMMA NullUnused ==
    ASSUME HistoryOK
    PROVE  NULL \notin used
<1>1. NULL \notin Nat /\ MaxSeq \in Nat
  BY StoreAssumption
<1>2. \A s \in 0 .. MaxSeq : s \in Nat
  BY <1>1
<1>3. used \subseteq 0 .. MaxSeq
  BY DEF HistoryOK
<1> QED BY <1>1, <1>2, <1>3

(* The log files after one was created or appended to, and after one was   *)
(* deleted.                                                                *)
LEMMA SetWalFacts ==
    ASSUME NEW n, NEW E, wal' = SetWal(n, E)
    PROVE  /\ DOMAIN wal' = Logs \cup {n}
           /\ wal'[n] = E
           /\ \A m \in Logs : m # n => wal'[m] = wal[m]
  BY DEF SetWal, Logs

(* DeleteObsoleteFiles takes one log away and leaves the others alone. *)
LEMMA DeleteLogFacts ==
    ASSUME NEW n, DeleteLog(n)
    PROVE  /\ DOMAIN wal' = Logs \ {n}
           /\ \A m \in DOMAIN wal' : wal'[m] = wal[m]
  BY DEF DeleteLog, Logs

(* AddRecord adds one entry to the log of the session. *)
LEMMA PutLogWal ==
    ASSUME PutLog, logno \in Logs
    PROVE  /\ DOMAIN wal' = Logs
           /\ wal'[logno] = wal[logno] \cup {lastseq + 1}
           /\ \A n \in Logs : n # logno => wal'[n] = wal[n]
<1>1. wal' = SetWal(logno, wal[logno] \cup {lastseq + 1})
  BY DEF PutLog
<1> QED BY ZenonT(40), <1>1, SetWalFacts

(* A memtable that is full holds a whole bulk load: the load fits in one.  *)
LEMMA WholeLoad ==
    ASSUME TypeOK, HistoryOK, LoadOK, Cardinality(mem) > WriteBuffer
    PROVE  mem = used /\ mem # {}
<1>1. WriteBuffer \in Nat
  BY StoreAssumption
<1>2. IsFiniteSet(used) /\ mem \subseteq used
  BY DEF HistoryOK
<1>3. /\ IsFiniteSet(mem) /\ Cardinality(mem) <= Cardinality(used)
      /\ Cardinality(mem) = Cardinality(used) => mem = used
  BY <1>2, FS_Subset
<1>4. Cardinality(mem) \in Nat /\ Cardinality(used) \in Nat
  BY <1>2, <1>3, FS_CardinalityType
<1>5. Cardinality(used) <= WriteBuffer + 1
  BY DEF LoadOK
<1>6. mem = used
  BY <1>1, <1>3, <1>4, <1>5
<1>7. mem # {}
  BY <1>1, FS_EmptySet
<1> QED BY <1>6, <1>7

(* The log that RecoverLogFile reads is there, and not obsolete. *)
LEMMA LeastLog ==
    ASSUME TypeOK, ControlOK, Replaying, todo # {}
    PROVE  Least(todo) \in todo /\ Least(todo) \in Logs /\ Least(todo) >= mlog
<1>1. todo \in SUBSET Nat
  BY DEF TypeOK, Numbers
<1>2. Least(todo) \in todo
  BY <1>1, LeastInSet
<1> QED BY <1>2 DEF ControlOK

(* While recovery writes a table the log it read is still there and still  *)
(* counts, and the table gets all of it.                                   *)
LEMMA Building ==
    ASSUME TypeOK, HistoryOK, ControlOK, LoadOK, ReplayOK, pc \in {"build", "fill"}
    PROVE  /\ InLog /\ used # {} /\ mem = used /\ newfiles = {} /\ rest = {}
           /\ Least(todo) \in todo /\ Least(todo) \in home
<1>1. Replaying /\ rest = {} /\ rest # NULL /\ mem # {} /\ todo # {}
  BY DEF Replaying, ControlOK, ReplayOK
<1>2. Least(todo) \in todo /\ Least(todo) \in Logs /\ Least(todo) >= mlog
  BY <1>1, LeastLog
<1>3. Least(todo) \in home
  BY <1>1 DEF ReplayOK
<1>4. mem = used /\ newfiles = {}
  BY <1>1, <1>3 DEF ReplayOK
<1>5. InLog
  BY <1>2, <1>3 DEF InLog
<1> QED BY <1>1, <1>2, <1>3, <1>4, <1>5

(* DB::Open creates an empty log. *)
LEMMA NewLogWal ==
    ASSUME NewLog, mode = "rw"
    PROVE  /\ DOMAIN wal' = Logs \cup {nextfile}
           /\ wal'[nextfile] = {}
           /\ \A n \in Logs : n # nextfile => wal'[n] = wal[n]
<1>1. wal' = SetWal(nextfile, {})
  BY DEF NewLog
<1> QED BY <1>1, SetWalFacts

(* MakeRoomForWrite creates an empty log. *)
LEMMA SwitchWal ==
    ASSUME SwitchMemTable
    PROVE  /\ DOMAIN wal' = Logs \cup {nextfile}
           /\ wal'[nextfile] = {}
           /\ \A n \in Logs : n # nextfile => wal'[n] = wal[n]
<1>1. wal' = SetWal(nextfile, {})
  BY DEF SwitchMemTable
<1> QED BY <1>1, SetWalFacts

(* A Write of a bulk load finds the session that started it, with all of   *)
(* it in mem_ and in the log, and takes a new number.                      *)
LEMMA PutSingle ==
    ASSUME TypeOK, HistoryOK, ControlOK, CountersOK, LogsOK, SequenceOK,
           Single, Single', LoadOK, SessionOK, PutLog
    PROVE  /\ mem = used /\ files = {} /\ newfiles = {} /\ cached = NULL /\ imm = NULL
           /\ flush = "off" /\ mfiles = {}
           /\ home \subseteq {logno} /\ logno \in Logs /\ logno >= mlog /\ wal[logno] = used
           /\ lastseq + 1 \notin used /\ NULL \notin used
<1>1. NULL \notin used
  BY NullUnused
<1>2. pc = "open" /\ mode = "rw" /\ pend = NULL /\ home' = home \cup {logno}
  BY DEF PutLog
<1>3. home \subseteq {logno}
  BY <1>2 DEF Single
<1>4. logno \in Logs /\ logno >= mlog
  BY <1>2 DEF CountersOK, Running, TypeOK
<1>5. \A s \in used : s <= lastseq
  BY <1>1, <1>2 DEF SequenceOK, Single, Running
<1>6. lastseq + 1 \notin used
  BY <1>5 DEF TypeOK
<1>7. CASE used = {}
  BY <1>1, <1>2, <1>3, <1>4, <1>6, <1>7 DEF LoadOK, HistoryOK
<1>8. CASE used # {}
  <2>1. logno \in home
    BY <1>3, <1>8 DEF LoadOK
  <2>2. Loading
    BY <1>2, <1>8, <2>1 DEF SessionOK, Running, Flushing, Stored
  <2>3. InLog
    BY <1>4, <2>1 DEF InLog
  <2>4. wal[logno] = used /\ mfiles = {}
    BY <1>4, <2>1, <2>3 DEF LoadOK
  <2>5. mem = used
    BY <1>1, <1>2, <2>2 DEF Loading
  <2> QED BY <1>1, <1>3, <1>4, <1>6, <2>2, <2>4, <2>5 DEF Loading
<1> QED BY <1>7, <1>8

(* One more entry. *)
LEMMA OneMore ==
    ASSUME NEW S, IsFiniteSet(S), NEW x, x \notin S
    PROVE  Cardinality(S \cup {x}) = Cardinality(S) + 1
  BY FS_AddElement

(* A new empty log does not change where the load is. *)
LEMMA EmptyLogAdded ==
    ASSUME LoadOK, nextfile \notin home,
           DOMAIN wal' = Logs \cup {nextfile}, wal'[nextfile] = {},
           \A n \in Logs : n # nextfile => wal'[n] = wal[n]
    PROVE  \A n \in DOMAIN wal' : wal'[n] = IF n \in home THEN used ELSE {}
<1> SUFFICES ASSUME NEW n \in DOMAIN wal'
             PROVE  wal'[n] = IF n \in home THEN used ELSE {}
  OBVIOUS
<1>1. CASE n = nextfile
  BY <1>1
<1>2. CASE n # nextfile
  <2>1. n \in Logs /\ wal'[n] = wal[n]
    BY <1>2
  <2>2. wal[n] = IF n \in home THEN used ELSE {}
    BY <2>1 DEF LoadOK
  <2> QED BY <2>1, <2>2
<1> QED BY <1>1, <1>2

-----------------------------------------------------------------------------
(* Every step keeps the types. *)
LEMMA TypeStep ==
    ASSUME TypeOK, HistoryOK, ControlOK, CountersOK, Next \/ UNCHANGED vars
    PROVE  TypeOK'
<1> USE StoreAssumption
<1> USE DEF TypeOK, Numbers, Logs, vars, disk, vset, memory, history
<1>1. ASSUME NEW m \in {"rw", "ro"}, Open(m) PROVE TypeOK'
  BY <1>1 DEF Open
<1>2. CASE NewDBCreate
  BY <1>2 DEF NewDBCreate
<1>3. CASE NewDBWrite
  BY <1>3 DEF NewDBWrite, Succeeds
<1>4. CASE NewDBFail
  BY <1>4 DEF NewDBFail, Fails, NoProcess
<1>5. CASE Load
  <2>1. CASE manifest = "torn"
    <3>1. NoProcess /\ UNCHANGED <<disk, history>>
      BY <1>5, <2>1 DEF Load
    <3> QED BY <3>1 DEF NoProcess
  <2>2. CASE manifest # "torn"
    <3>1. /\ nextfile' = mnext + 1 /\ lognum' = mlog /\ lastseq' = mseq /\ files' = mfiles
          /\ todo' = {n \in DOMAIN wal : n >= mlog} /\ pc' = "replay"
          /\ UNCHANGED <<disk, mode, newfiles, cached, logno, mem, imm, rest, maxseq, pend,
                         flush, eseq, bgerr>>
      BY <1>5, <2>2 DEF Load, NextFileNumber
    <3>2. nextfile' \in Nat /\ todo' \in SUBSET Nat
      BY <3>1
    <3> QED BY <3>1, <3>2
  <2> QED BY <2>1, <2>2
<1>6. CASE ReplayOpen
  <2>1. Least(todo) \in Logs
    BY <1>6, LeastInSet DEF ReplayOpen, ControlOK, Replaying
  <2>2. rest' \in SUBSET Nat
    BY <1>6, <2>1 DEF ReplayOpen
  <2> QED BY <1>6, <2>2 DEF ReplayOpen
<1>7. CASE ReplayRecord
  <2>1. Least(rest) \in Nat
    BY <1>7, LeastInSet DEF ReplayRecord
  <2>2. /\ mem' \in SUBSET Nat /\ rest' \in SUBSET Nat /\ maxseq' \in Nat
    BY <1>7, <2>1 DEF ReplayRecord
  <2> QED BY <1>7, <2>2 DEF ReplayRecord
<1>8. CASE ReplayFull
  BY <1>8 DEF ReplayFull
<1>9. CASE ReplayNext
  <2>1. todo' \in SUBSET Nat
    BY <1>9 DEF ReplayNext
  <2> QED BY <1>9, <2>1 DEF ReplayNext
<1>10. CASE ReplayBuild
  BY ZenonT(40), <1>10 DEF ReplayBuild, TableTruncate
<1>11. CASE ReplayBuilt
  BY <1>11 DEF ReplayBuilt, Succeeds, TableFinish
<1>12. CASE ReplayBuildFail
  BY <1>12 DEF ReplayBuildFail, Fails, TableRemove, NoProcess
<1>13. CASE NewLog
  BY <1>13 DEF NewLog, RecoveredSequence, SetWal
<1>14. CASE ManifestTruncate
  BY <1>14 DEF ManifestTruncate
<1>15. CASE ManifestApply
  BY <1>15 DEF ManifestApply, Succeeds
<1>16. CASE ManifestFail
  BY <1>16 DEF ManifestFail, Fails, NoProcess
<1>17. CASE OpenDelete
  BY <1>17 DEF OpenDelete, ObsoleteLogs, DeleteLog
<1>18. CASE Opened
  BY <1>18 DEF Opened, ObsoleteLogs
<1>19. CASE PutLog
  <2>1. lastseq + 1 \in Nat /\ pend' = lastseq + 1
    BY <1>19 DEF PutLog
  <2>2. logno \in DOMAIN wal
    BY <1>19 DEF PutLog, CountersOK, Running
  <2>3. /\ DOMAIN wal' = Logs
        /\ \A n \in DOMAIN wal' : wal'[n] \in SUBSET Nat
    BY <1>19, <2>1, <2>2, PutLogWal
  <2> QED BY ZenonT(40), <1>19, <2>1, <2>3 DEF PutLog
<1>20. CASE PutAck
  BY <1>20 DEF PutAck
<1>21. CASE Switch
  BY <1>21 DEF Switch, SwitchMemTable, SetWal
<1>22. CASE ForceSwitch
  BY <1>22 DEF ForceSwitch, SwitchMemTable, SetWal
<1>23. CASE FlushTruncate
  <2>1. ldb' \in SUBSET Nat /\ ldbok' \in BOOLEAN
    BY <1>23 DEF FlushTruncate, TableTruncate
  <2> QED BY <1>23, <2>1 DEF FlushTruncate
<1>24. CASE FlushCreateFail
  BY <1>24 DEF FlushCreateFail, Fails
<1>25. CASE FlushEmpty
  BY <1>25 DEF FlushEmpty, TableRemove, EditSequence
<1>26. CASE FlushFill
  <2>1. imm \in SUBSET Nat
    BY <1>26 DEF FlushFill, ControlOK
  <2>2. /\ ldb' \in SUBSET Nat /\ newfiles' \subseteq SUBSET Nat
        /\ cached' \in (SUBSET Nat) \cup {NULL} /\ ldbok' \in BOOLEAN
    BY <1>26, <2>1 DEF FlushFill, TableFinish
  <2>3. flush' \in {"off", "apply"} /\ bgerr' \in BOOLEAN /\ eseq' \in Nat
    BY <1>26 DEF FlushFill, EditSequence
  <2>4. UNCHANGED <<manifest, mlog, mnext, mseq, mfiles, wal, mode, pc, nextfile, lognum,
                    lastseq, files, logno, mem, imm, todo, rest, maxseq, pend>>
    BY <1>26 DEF FlushFill
  <2> QED BY <2>2, <2>3, <2>4
<1>27. CASE FlushFail
  BY ZenonT(40), <1>27 DEF FlushFail, Fails, TableRemove
<1>28. CASE FlushApply
  BY <1>28 DEF FlushApply, Succeeds, AppendEdit
<1>29. CASE FlushApplyFail
  <2>1. mlog' \in Nat /\ mnext' \in Nat /\ mseq' \in Nat /\ mfiles' \subseteq SUBSET Nat
    BY <1>29 DEF FlushApplyFail, AppendEdit
  <2> QED BY <1>29, <2>1 DEF FlushApplyFail
<1>30. CASE FlushDelete
  BY <1>30 DEF FlushDelete, ObsoleteLogs, DeleteLog
<1>31. CASE FlushDone
  BY <1>31 DEF FlushDone, ObsoleteLogs
<1>32. CASE FlushSkip
  BY <1>32 DEF FlushSkip
<1>33. CASE Close
  BY <1>33 DEF Close
<1>34. CASE CloseDone
  BY <1>34 DEF CloseDone, NoProcess
<1>35. CASE Crash
  BY <1>35 DEF Crash, NoProcess
<1>36. CASE UNCHANGED vars
  BY <1>36 DEF vars
<1> HIDE DEF TypeOK, vars
<1> QED
  BY <1>1, <1>2, <1>3, <1>4, <1>5, <1>6, <1>7, <1>8, <1>9, <1>10, <1>11,
     <1>12, <1>13, <1>14, <1>15, <1>16, <1>17, <1>18, <1>19, <1>20, <1>21,
     <1>22, <1>23, <1>24, <1>25, <1>26, <1>27, <1>28, <1>29, <1>30, <1>31,
     <1>32, <1>33, <1>34, <1>35, <1>36
  DEF Next, OpenStep, FlushStep, Finished

(* Every step keeps the entries within those that were written. *)
LEMMA HistoryStep ==
    ASSUME TypeOK, HistoryOK, ControlOK, CountersOK, Next \/ UNCHANGED vars
    PROVE  HistoryOK'
<1> USE DEF HistoryOK, TypeOK, Numbers, Logs, vars, disk, vset, memory, history
<1>1. ASSUME NEW m \in {"rw", "ro"}, Open(m) PROVE HistoryOK'
  BY <1>1 DEF Open
<1>2. CASE NewDBCreate
  BY <1>2 DEF NewDBCreate
<1>3. CASE NewDBWrite
  BY <1>3 DEF NewDBWrite, Succeeds
<1>4. CASE NewDBFail
  BY <1>4 DEF NewDBFail, Fails, NoProcess
<1>5. CASE Load
  BY <1>5 DEF Load, NoProcess, NextFileNumber
<1>6. CASE ReplayOpen
  BY <1>6 DEF ReplayOpen
<1>7. CASE ReplayRecord
  <2>1. Least(rest) \in rest
    BY <1>7, LeastInSet DEF ReplayRecord
  <2>2. todo # {} /\ rest \subseteq wal[Least(todo)] /\ todo \subseteq DOMAIN wal
    BY <1>7 DEF ReplayRecord, ControlOK, Replaying
  <2>3. Least(todo) \in todo
    BY <2>2, LeastInSet
  <2>4. mem' \subseteq used
    BY <1>7, <2>1, <2>2, <2>3 DEF ReplayRecord
  <2> QED BY <1>7, <2>4 DEF ReplayRecord
<1>8. CASE ReplayFull
  BY <1>8 DEF ReplayFull
<1>9. CASE ReplayNext
  BY <1>9 DEF ReplayNext
<1>10. CASE ReplayBuild
  BY <1>10 DEF ReplayBuild, TableTruncate
<1>11. CASE ReplayBuilt
  BY <1>11 DEF ReplayBuilt, Succeeds, TableFinish
<1>12. CASE ReplayBuildFail
  BY <1>12 DEF ReplayBuildFail, Fails, TableRemove, NoProcess
<1>13. CASE NewLog
  BY <1>13 DEF NewLog, RecoveredSequence, SetWal
<1>14. CASE ManifestTruncate
  BY <1>14 DEF ManifestTruncate
<1>15. CASE ManifestApply
  BY <1>15 DEF ManifestApply, Succeeds
<1>16. CASE ManifestFail
  BY <1>16 DEF ManifestFail, Fails, NoProcess
<1>17. CASE OpenDelete
  BY <1>17 DEF OpenDelete, ObsoleteLogs, DeleteLog
<1>18. CASE Opened
  BY <1>18 DEF Opened, ObsoleteLogs
<1>19. CASE PutLog
  <2>1. logno \in DOMAIN wal
    BY <1>19 DEF PutLog, CountersOK, Running
  <2>2. used' \subseteq 0 .. MaxSeq /\ used \subseteq used' /\ lastseq + 1 \in used'
    BY <1>19, StoreAssumption DEF PutLog
  <2>3. \A n \in DOMAIN wal' : wal'[n] \subseteq used'
    BY <1>19, <2>1, <2>2, PutLogWal
  <2>4. IsFiniteSet(used') /\ IsFiniteSet(home')
    BY <1>19, FS_AddElement DEF PutLog
  <2>5. home' \in SUBSET Nat
    BY <1>19 DEF PutLog
  <2> QED BY <1>19, <2>2, <2>3, <2>4, <2>5 DEF PutLog
<1>20. CASE PutAck
  BY <1>20 DEF PutAck
<1>21. CASE Switch
  BY <1>21 DEF Switch, SwitchMemTable, SetWal
<1>22. CASE ForceSwitch
  BY <1>22 DEF ForceSwitch, SwitchMemTable, SetWal
<1>23. CASE FlushTruncate
  BY <1>23 DEF FlushTruncate, TableTruncate
<1>24. CASE FlushCreateFail
  BY <1>24 DEF FlushCreateFail, Fails
<1>25. CASE FlushEmpty
  BY <1>25 DEF FlushEmpty, TableRemove, EditSequence
<1>26. CASE FlushFill
  BY <1>26 DEF FlushFill, Succeeds, TableFinish, EditSequence
<1>27. CASE FlushFail
  BY <1>27 DEF FlushFail, Fails, TableRemove
<1>28. CASE FlushApply
  BY <1>28 DEF FlushApply, Succeeds, AppendEdit
<1>29. CASE FlushApplyFail
  BY <1>29 DEF FlushApplyFail, Fails, AppendEdit
<1>30. CASE FlushDelete
  BY <1>30 DEF FlushDelete, ObsoleteLogs, DeleteLog
<1>31. CASE FlushDone
  BY <1>31 DEF FlushDone, ObsoleteLogs
<1>32. CASE FlushSkip
  BY <1>32 DEF FlushSkip
<1>33. CASE Close
  BY <1>33 DEF Close
<1>34. CASE CloseDone
  BY <1>34 DEF CloseDone, NoProcess
<1>35. CASE Crash
  BY <1>35 DEF Crash, NoProcess
<1>36. CASE UNCHANGED vars
  BY <1>36 DEF vars
<1> HIDE DEF HistoryOK, vars
<1> QED
  BY <1>1, <1>2, <1>3, <1>4, <1>5, <1>6, <1>7, <1>8, <1>9, <1>10, <1>11,
     <1>12, <1>13, <1>14, <1>15, <1>16, <1>17, <1>18, <1>19, <1>20, <1>21,
     <1>22, <1>23, <1>24, <1>25, <1>26, <1>27, <1>28, <1>29, <1>30, <1>31,
     <1>32, <1>33, <1>34, <1>35, <1>36
  DEF Next, OpenStep, FlushStep, Finished

(* Every step keeps the control facts. *)
LEMMA ControlStep ==
    ASSUME TypeOK, HistoryOK, ControlOK, CountersOK, Next \/ UNCHANGED vars
    PROVE  ControlOK'
<1> USE DEF ControlOK, Idle, Blank, Replaying, Running, TypeOK, Numbers, Logs, vars,
            disk, vset, memory, history
<1>1. ASSUME NEW m \in {"rw", "ro"}, Open(m) PROVE ControlOK'
  BY <1>1 DEF Open
<1>2. CASE NewDBCreate
  BY <1>2 DEF NewDBCreate
<1>3. CASE NewDBWrite
  BY <1>3 DEF NewDBWrite, Succeeds
<1>4. CASE NewDBFail
  BY <1>4 DEF NewDBFail, Fails, NoProcess
<1>5. CASE Load
  <2>1. CASE manifest = "torn"
    <3>1. NoProcess /\ UNCHANGED <<disk, history>>
      BY <1>5, <2>1 DEF Load
    <3> QED BY <3>1 DEF NoProcess
  <2>2. CASE manifest # "torn"
    <3>1. /\ nextfile' = mnext + 1 /\ lognum' = mlog /\ lastseq' = mseq /\ files' = mfiles
          /\ todo' = {n \in DOMAIN wal : n >= mlog} /\ pc' = "replay"
          /\ UNCHANGED <<disk, mode, newfiles, cached, logno, mem, imm, rest, maxseq, pend,
                         flush, eseq, bgerr>>
      BY <1>5, <2>2 DEF Load, NextFileNumber
    <3>2. manifest = "ok"
      BY <1>5, <2>2 DEF Load
    <3> QED BY <1>5, <3>1, <3>2 DEF Load
  <2> QED BY <2>1, <2>2
<1>6. CASE ReplayOpen
  BY <1>6 DEF ReplayOpen
<1>7. CASE ReplayRecord
  <2>1. rest \subseteq used /\ used \subseteq 0 .. MaxSeq
    <3>1. todo # {} /\ rest \subseteq wal[Least(todo)] /\ todo \subseteq DOMAIN wal
      BY <1>7 DEF ReplayRecord
    <3> QED BY <3>1, LeastInSet DEF HistoryOK
  <2>2. rest' # NULL
    BY <1>7, <2>1, NotNull DEF ReplayRecord
  <2> QED BY <1>7, <2>2 DEF ReplayRecord
<1>8. CASE ReplayFull
  BY <1>8 DEF ReplayFull
<1>9. CASE ReplayNext
  BY <1>9 DEF ReplayNext
<1>10. CASE ReplayBuild
  BY <1>10 DEF ReplayBuild, TableTruncate
<1>11. CASE ReplayBuilt
  BY <1>11 DEF ReplayBuilt, Succeeds, TableFinish
<1>12. CASE ReplayBuildFail
  BY <1>12 DEF ReplayBuildFail, Fails, TableRemove, NoProcess
<1>13. CASE NewLog
  BY <1>13 DEF NewLog, RecoveredSequence, SetWal
<1>14. CASE ManifestTruncate
  BY <1>14 DEF ManifestTruncate
<1>15. CASE ManifestApply
  BY <1>15 DEF ManifestApply, Succeeds
<1>16. CASE ManifestFail
  BY <1>16 DEF ManifestFail, Fails, NoProcess
<1>17. CASE OpenDelete
  BY <1>17 DEF OpenDelete, ObsoleteLogs, DeleteLog
<1>18. CASE Opened
  BY <1>18 DEF Opened, ObsoleteLogs
<1>19. CASE PutLog
  BY <1>19 DEF PutLog, SetWal
<1>20. CASE PutAck
  BY <1>20 DEF PutAck
<1>21. CASE Switch
  <2>1. mem # NULL
    BY NotNull DEF HistoryOK
  <2> QED BY <1>21, <2>1 DEF Switch, SwitchMemTable, SetWal
<1>22. CASE ForceSwitch
  <2>1. mem # NULL
    BY NotNull DEF HistoryOK
  <2> QED BY <1>22, <2>1 DEF ForceSwitch, SwitchMemTable, SetWal
<1>23. CASE FlushTruncate
  BY <1>23 DEF FlushTruncate, TableTruncate
<1>24. CASE FlushCreateFail
  BY <1>24 DEF FlushCreateFail, Fails
<1>25. CASE FlushEmpty
  BY <1>25 DEF FlushEmpty, TableRemove, EditSequence
<1>26. CASE FlushFill
  BY <1>26 DEF FlushFill, Succeeds, TableFinish, EditSequence
<1>27. CASE FlushFail
  BY <1>27 DEF FlushFail, Fails, TableRemove
<1>28. CASE FlushApply
  BY <1>28 DEF FlushApply, Succeeds, AppendEdit
<1>29. CASE FlushApplyFail
  BY <1>29 DEF FlushApplyFail, Fails, AppendEdit
<1>30. CASE FlushDelete
  BY <1>30 DEF FlushDelete, ObsoleteLogs, DeleteLog
<1>31. CASE FlushDone
  BY <1>31 DEF FlushDone, ObsoleteLogs
<1>32. CASE FlushSkip
  BY <1>32 DEF FlushSkip
<1>33. CASE Close
  BY <1>33 DEF Close
<1>34. CASE CloseDone
  BY <1>34 DEF CloseDone, NoProcess
<1>35. CASE Crash
  BY <1>35 DEF Crash, NoProcess
<1>36. CASE UNCHANGED vars
  BY <1>36 DEF vars
<1> HIDE DEF ControlOK, vars
<1> QED
  BY <1>1, <1>2, <1>3, <1>4, <1>5, <1>6, <1>7, <1>8, <1>9, <1>10, <1>11,
     <1>12, <1>13, <1>14, <1>15, <1>16, <1>17, <1>18, <1>19, <1>20, <1>21,
     <1>22, <1>23, <1>24, <1>25, <1>26, <1>27, <1>28, <1>29, <1>30, <1>31,
     <1>32, <1>33, <1>34, <1>35, <1>36
  DEF Next, OpenStep, FlushStep, Finished

(* Every step keeps the counters of files. *)
LEMMA CountersStep ==
    ASSUME TypeOK, HistoryOK, ControlOK, CountersOK, Next \/ UNCHANGED vars
    PROVE  CountersOK'
<1> USE DEF CountersOK, ControlOK, Idle, Replaying, Running, TypeOK, Numbers, Logs,
            vars, disk, vset, memory, history
<1>1. ASSUME NEW m \in {"rw", "ro"}, Open(m) PROVE CountersOK'
  BY <1>1 DEF Open
<1>2. CASE NewDBCreate
  BY <1>2 DEF NewDBCreate
<1>3. CASE NewDBWrite
  BY <1>3 DEF NewDBWrite, Succeeds
<1>4. CASE NewDBFail
  BY <1>4 DEF NewDBFail, Fails, NoProcess
<1>5. CASE Load
  BY <1>5 DEF Load, NoProcess, NextFileNumber
<1>6. CASE ReplayOpen
  BY <1>6 DEF ReplayOpen
<1>7. CASE ReplayRecord
  BY <1>7 DEF ReplayRecord
<1>8. CASE ReplayFull
  BY <1>8 DEF ReplayFull
<1>9. CASE ReplayNext
  BY <1>9 DEF ReplayNext
<1>10. CASE ReplayBuild
  BY <1>10 DEF ReplayBuild, TableTruncate
<1>11. CASE ReplayBuilt
  BY <1>11 DEF ReplayBuilt, Succeeds, TableFinish
<1>12. CASE ReplayBuildFail
  BY <1>12 DEF ReplayBuildFail, Fails, TableRemove, NoProcess
<1>13. CASE NewLog
  BY <1>13 DEF NewLog, RecoveredSequence, SetWal
<1>14. CASE ManifestTruncate
  BY <1>14 DEF ManifestTruncate
<1>15. CASE ManifestApply
  BY <1>15 DEF ManifestApply, Succeeds
<1>16. CASE ManifestFail
  BY <1>16 DEF ManifestFail, Fails, NoProcess
<1>17. CASE OpenDelete
  BY <1>17 DEF OpenDelete, ObsoleteLogs, DeleteLog
<1>18. CASE Opened
  BY <1>18 DEF Opened, ObsoleteLogs
<1>19. CASE PutLog
  BY <1>19 DEF PutLog, SetWal
<1>20. CASE PutAck
  BY <1>20 DEF PutAck
<1>21. CASE Switch
  <2>1. mem # NULL
    BY NotNull DEF HistoryOK
  <2> QED BY <1>21, <2>1 DEF Switch, SwitchMemTable, SetWal
<1>22. CASE ForceSwitch
  <2>1. mem # NULL
    BY NotNull DEF HistoryOK
  <2> QED BY <1>22, <2>1 DEF ForceSwitch, SwitchMemTable, SetWal
<1>23. CASE FlushTruncate
  BY <1>23 DEF FlushTruncate, TableTruncate
<1>24. CASE FlushCreateFail
  BY <1>24 DEF FlushCreateFail, Fails
<1>25. CASE FlushEmpty
  BY <1>25 DEF FlushEmpty, TableRemove, EditSequence
<1>26. CASE FlushFill
  BY <1>26 DEF FlushFill, Succeeds, TableFinish, EditSequence
<1>27. CASE FlushFail
  BY <1>27 DEF FlushFail, Fails, TableRemove
<1>28. CASE FlushApply
  BY <1>28 DEF FlushApply, Succeeds, AppendEdit
<1>29. CASE FlushApplyFail
  BY <1>29 DEF FlushApplyFail, Fails, AppendEdit
<1>30. CASE FlushDelete
  BY <1>30 DEF FlushDelete, ObsoleteLogs, DeleteLog
<1>31. CASE FlushDone
  BY <1>31 DEF FlushDone, ObsoleteLogs
<1>32. CASE FlushSkip
  BY <1>32 DEF FlushSkip
<1>33. CASE Close
  BY <1>33 DEF Close
<1>34. CASE CloseDone
  BY <1>34 DEF CloseDone, NoProcess
<1>35. CASE Crash
  BY <1>35 DEF Crash, NoProcess
<1>36. CASE UNCHANGED vars
  BY <1>36 DEF vars
<1> HIDE DEF CountersOK, vars
<1> QED
  BY <1>1, <1>2, <1>3, <1>4, <1>5, <1>6, <1>7, <1>8, <1>9, <1>10, <1>11,
     <1>12, <1>13, <1>14, <1>15, <1>16, <1>17, <1>18, <1>19, <1>20, <1>21,
     <1>22, <1>23, <1>24, <1>25, <1>26, <1>27, <1>28, <1>29, <1>30, <1>31,
     <1>32, <1>33, <1>34, <1>35, <1>36
  DEF Next, OpenStep, FlushStep, Finished

(* Every step keeps the logs below the counters. *)
LEMMA LogsStep ==
    ASSUME TypeOK, HistoryOK, ControlOK, CountersOK, LogsOK, Next \/ UNCHANGED vars
    PROVE  LogsOK'
<1> USE DEF LogsOK, CountersOK, ControlOK, Idle, Replaying, Running, HistoryOK, TypeOK,
            Numbers, Logs, vars, disk, vset, memory, history
<1>1. ASSUME NEW m \in {"rw", "ro"}, Open(m) PROVE LogsOK'
  BY <1>1 DEF Open
<1>2. CASE NewDBCreate
  BY <1>2 DEF NewDBCreate
<1>3. CASE NewDBWrite
  BY <1>3 DEF NewDBWrite, Succeeds
<1>4. CASE NewDBFail
  BY <1>4 DEF NewDBFail, Fails, NoProcess
<1>5. CASE Load
  BY <1>5 DEF Load, NoProcess, NextFileNumber
<1>6. CASE ReplayOpen
  BY <1>6 DEF ReplayOpen
<1>7. CASE ReplayRecord
  BY <1>7 DEF ReplayRecord
<1>8. CASE ReplayFull
  BY <1>8 DEF ReplayFull
<1>9. CASE ReplayNext
  BY <1>9 DEF ReplayNext
<1>10. CASE ReplayBuild
  BY <1>10 DEF ReplayBuild, TableTruncate
<1>11. CASE ReplayBuilt
  BY <1>11 DEF ReplayBuilt, Succeeds, TableFinish
<1>12. CASE ReplayBuildFail
  BY <1>12 DEF ReplayBuildFail, Fails, TableRemove, NoProcess
<1>13. CASE NewLog
  BY <1>13 DEF NewLog, RecoveredSequence, SetWal
<1>14. CASE ManifestTruncate
  BY <1>14 DEF ManifestTruncate
<1>15. CASE ManifestApply
  <2> SUFFICES ASSUME ~dropped' PROVE LogsOK'
    OBVIOUS
  <2>1. /\ logno = mnext + 1 /\ mnext' = mnext + 2 /\ manifest' = "ok" /\ pc' = "delete"
        /\ UNCHANGED <<wal, home, logno, dropped>>
    BY <1>15 DEF ManifestApply
  <2>2. \A n \in Logs \cup home : n <= mnext + 1
    BY <2>1
  <2>3. \A n \in DOMAIN wal' : n <= mnext' + 1 /\ (n = mnext' + 1 => wal'[n] = {})
    BY <2>1, <2>2
  <2>4. \A n \in home' : n <= mnext'
    BY <2>1, <2>2
  <2>5. \A n \in (DOMAIN wal') \cup home' : n <= logno'
    BY <2>1, <2>2
  <2> QED BY <2>1, <2>3, <2>4, <2>5
<1>16. CASE ManifestFail
  BY <1>16 DEF ManifestFail, Fails, NoProcess
<1>17. CASE OpenDelete
  BY <1>17 DEF OpenDelete, ObsoleteLogs, DeleteLog
<1>18. CASE Opened
  BY <1>18 DEF Opened, ObsoleteLogs
<1>19. CASE PutLog
  BY <1>19 DEF PutLog, SetWal
<1>20. CASE PutAck
  BY <1>20 DEF PutAck
<1>21. CASE Switch
  BY <1>21 DEF Switch, SwitchMemTable, SetWal
<1>22. CASE ForceSwitch
  BY <1>22 DEF ForceSwitch, SwitchMemTable, SetWal
<1>23. CASE FlushTruncate
  BY <1>23 DEF FlushTruncate, TableTruncate
<1>24. CASE FlushCreateFail
  BY <1>24 DEF FlushCreateFail, Fails
<1>25. CASE FlushEmpty
  BY <1>25 DEF FlushEmpty, TableRemove, EditSequence
<1>26. CASE FlushFill
  BY <1>26 DEF FlushFill, Succeeds, TableFinish, EditSequence
<1>27. CASE FlushFail
  BY <1>27 DEF FlushFail, Fails, TableRemove
<1>28. CASE FlushApply
  BY <1>28 DEF FlushApply, Succeeds, AppendEdit
<1>29. CASE FlushApplyFail
  BY <1>29 DEF FlushApplyFail, Fails, AppendEdit
<1>30. CASE FlushDelete
  BY <1>30 DEF FlushDelete, ObsoleteLogs, DeleteLog
<1>31. CASE FlushDone
  BY <1>31 DEF FlushDone, ObsoleteLogs
<1>32. CASE FlushSkip
  BY <1>32 DEF FlushSkip
<1>33. CASE Close
  BY <1>33 DEF Close
<1>34. CASE CloseDone
  BY <1>34 DEF CloseDone, NoProcess
<1>35. CASE Crash
  BY <1>35 DEF Crash, NoProcess
<1>36. CASE UNCHANGED vars
  BY <1>36 DEF vars
<1> HIDE DEF LogsOK, vars
<1> QED
  BY <1>1, <1>2, <1>3, <1>4, <1>5, <1>6, <1>7, <1>8, <1>9, <1>10, <1>11,
     <1>12, <1>13, <1>14, <1>15, <1>16, <1>17, <1>18, <1>19, <1>20, <1>21,
     <1>22, <1>23, <1>24, <1>25, <1>26, <1>27, <1>28, <1>29, <1>30, <1>31,
     <1>32, <1>33, <1>34, <1>35, <1>36
  DEF Next, OpenStep, FlushStep, Finished

(* Every step keeps the sequence numbers that were used in sight. *)
LEMMA SequenceStep ==
    ASSUME TypeOK, HistoryOK, ControlOK, CountersOK, LogsOK, SequenceOK, Next \/
           UNCHANGED vars
    PROVE  SequenceOK'
<1> USE DEF SequenceOK, Unread, LogsOK, CountersOK, ControlOK, Idle, Replaying, Running,
            HistoryOK, TypeOK, Numbers, Logs, vars, disk, vset, memory, history
<1>1. ASSUME NEW m \in {"rw", "ro"}, Open(m) PROVE SequenceOK'
  BY <1>1 DEF Open
<1>2. CASE NewDBCreate
  BY <1>2 DEF NewDBCreate
<1>3. CASE NewDBWrite
  BY <1>3 DEF NewDBWrite, Succeeds
<1>4. CASE NewDBFail
  BY <1>4 DEF NewDBFail, Fails, NoProcess
<1>5. CASE Load
  BY <1>5 DEF Load, NoProcess, NextFileNumber
<1>6. CASE ReplayOpen
  BY <1>6 DEF ReplayOpen
<1>7. CASE ReplayRecord
  <2> SUFFICES ASSUME ~dropped' PROVE SequenceOK'
    OBVIOUS
  <2> DEFINE e == Least(rest)
  <2>1. e \in rest /\ rest \in SUBSET Nat
    BY <1>7, LeastInSet DEF ReplayRecord
  <2>2. /\ UNCHANGED <<manifest, mlog, mseq, wal, used, pc, todo, lastseq, pend, logno, flush, eseq,
                        dropped>>
        /\ rest' = rest \ {e} /\ maxseq' = (IF e > maxseq THEN e ELSE maxseq)
        /\ pc = "replay" /\ pend = NULL /\ flush = "off" /\ rest # NULL
    BY <1>7 DEF ReplayRecord
  <2> HIDE DEF e
  <2>3. rest' # NULL
    <3>1. todo # {} /\ rest \subseteq wal[Least(todo)] /\ todo \subseteq DOMAIN wal
      BY <2>2
    <3>2. rest \subseteq 0 .. MaxSeq
      BY <3>1, LeastInSet
    <3> QED BY <2>2, <3>2, NotNull
  <2>4. maxseq <= maxseq' /\ e <= maxseq'
    BY <2>1, <2>2
  <2>5. \A s \in used : s <= lastseq \/ s <= maxseq' \/ Unread(s)'
    <3> TAKE s \in used
    <3>1. s <= lastseq \/ s <= maxseq \/ Unread(s)
      BY <2>2
    <3>2. CASE s <= maxseq
      <4>1. s \in Nat /\ maxseq \in Nat /\ maxseq' \in Nat
        BY <2>1, <2>2
      <4> QED BY <2>4, <3>2, <4>1
    <3>3. CASE s \in rest
      BY <2>2, <2>3, <2>4, <3>3
    <3>4. CASE \E n \in todo : s \in wal[n] /\ (rest = NULL \/ n # Least(todo))
      BY <2>2, <3>4
    <3> QED BY <3>1, <3>2, <3>3, <3>4
  <2> QED BY <2>2, <2>5
<1>8. CASE ReplayFull
  BY <1>8 DEF ReplayFull
<1>9. CASE ReplayNext
  <2> SUFFICES ASSUME ~dropped' PROVE SequenceOK'
    OBVIOUS
  <2>2. /\ UNCHANGED <<manifest, mlog, mseq, wal, used, pc, lastseq, maxseq, pend, logno, flush,
                        eseq, dropped>>
        /\ rest = {} /\ rest' = NULL /\ todo' = todo \ {Least(todo)}
        /\ pc = "replay" /\ pend = NULL /\ flush = "off"
    BY <1>9 DEF ReplayNext
  <2>3. {} # NULL
    BY NotNull
  <2>5. \A s \in used : s <= lastseq \/ s <= maxseq \/ Unread(s)'
    <3> TAKE s \in used
    <3>1. s <= lastseq \/ s <= maxseq \/ Unread(s)
      BY <2>2
    <3>2. CASE Unread(s)
      <4>1. PICK n \in todo : s \in wal[n] /\ n # Least(todo)
        BY <2>2, <2>3, <3>2
      <4> QED BY <2>2, <4>1
    <3> QED BY <3>1, <3>2
  <2> QED BY <2>2, <2>5
<1>10. CASE ReplayBuild
  BY <1>10 DEF ReplayBuild, TableTruncate
<1>11. CASE ReplayBuilt
  BY <1>11 DEF ReplayBuilt, Succeeds, TableFinish
<1>12. CASE ReplayBuildFail
  BY <1>12 DEF ReplayBuildFail, Fails, TableRemove, NoProcess
<1>13. CASE NewLog
  BY <1>13 DEF NewLog, RecoveredSequence, SetWal
<1>14. CASE ManifestTruncate
  BY <1>14 DEF ManifestTruncate
<1>15. CASE ManifestApply
  <2> SUFFICES ASSUME ~dropped' PROVE SequenceOK'
    OBVIOUS
  <2>1. /\ mseq' = lastseq /\ pc' = "delete" /\ pend = NULL /\ flush = "off"
        /\ UNCHANGED <<used, lastseq, pend, flush, dropped>>
    BY <1>15 DEF ManifestApply
  <2>2. \A s \in used : s <= lastseq
    <3>1. NULL \notin used
      BY NullUnused
    <3> QED BY <1>15, <2>1, <3>1 DEF ManifestApply
  <2> QED BY <2>1, <2>2
<1>16. CASE ManifestFail
  BY <1>16 DEF ManifestFail, Fails, NoProcess
<1>17. CASE OpenDelete
  BY <1>17 DEF OpenDelete, ObsoleteLogs, DeleteLog
<1>18. CASE Opened
  BY <1>18 DEF Opened, ObsoleteLogs
<1>19. CASE PutLog
  <2> SUFFICES ASSUME ~dropped' PROVE SequenceOK'
    OBVIOUS
  <2>1. /\ UNCHANGED <<manifest, mlog, mseq, pc, todo, rest, lastseq, maxseq, logno, flush, eseq,
                        dropped>>
        /\ pend = NULL /\ pend' = lastseq + 1 /\ used' = used \cup {lastseq + 1} /\ pc = "open"
    BY <1>19 DEF PutLog
  <2>2. logno \in DOMAIN wal
    BY <1>19 DEF PutLog
  <2>3. /\ DOMAIN wal' = DOMAIN wal
        /\ \A n \in DOMAIN wal : wal[n] \subseteq wal'[n]
        /\ lastseq + 1 \in wal'[logno]
    BY <1>19, <2>2, PutLogWal
  <2>4. NULL \notin used
    BY NullUnused
  <2>5. \A s \in used' : s <= mseq' \/ \E n \in DOMAIN wal' : n >= mlog' /\ s \in wal'[n]
    BY <2>1, <2>2, <2>3
  <2>6. \A s \in used' : s <= lastseq' \/ s = pend'
    BY <2>1, <2>4
  <2>7. flush' = "apply" => \A s \in used' : s <= eseq' \/ s \in wal'[logno']
    BY <2>1, <2>2, <2>3
  <2> QED BY <2>1, <2>2, <2>3, <2>5, <2>6, <2>7
<1>20. CASE PutAck
  BY <1>20 DEF PutAck
<1>21. CASE Switch
  BY <1>21 DEF Switch, SwitchMemTable, SetWal
<1>22. CASE ForceSwitch
  BY <1>22 DEF ForceSwitch, SwitchMemTable, SetWal
<1>23. CASE FlushTruncate
  BY <1>23 DEF FlushTruncate, TableTruncate
<1>24. CASE FlushCreateFail
  BY <1>24 DEF FlushCreateFail, Fails
<1>25. CASE FlushEmpty
  <2> SUFFICES ASSUME ~dropped' PROVE SequenceOK'
    OBVIOUS
  <2>1. UNCHANGED <<manifest, mlog, mseq, wal, used, pc, todo, rest, lastseq, maxseq, pend, logno,
                    dropped>>
    BY <1>25 DEF FlushEmpty
  <2>2. flush' = "apply" => eseq' = lastseq
    BY <1>25 DEF FlushEmpty, EditSequence
  <2>3. pc \in {"open", "closing"} /\ mode = "rw"
    BY <1>25 DEF FlushEmpty
  <2>4. logno \in DOMAIN wal
    BY <2>3
  <2>5. \A s \in used : s <= lastseq \/ s \in wal[logno]
    <3>1. NULL \notin used
      BY NullUnused
    <3> QED BY <2>1, <2>3, <3>1
  <2> QED BY <2>1, <2>2, <2>4, <2>5
<1>26. CASE FlushFill
  <2> SUFFICES ASSUME ~dropped' PROVE SequenceOK'
    OBVIOUS
  <2>1. UNCHANGED <<manifest, mlog, mseq, wal, used, pc, todo, rest, lastseq, maxseq, pend, logno,
                    dropped>>
    BY <1>26 DEF FlushFill
  <2>2. flush' = "apply" => eseq' = lastseq
    BY <1>26 DEF FlushFill, EditSequence
  <2>3. pc \in {"open", "closing"} /\ mode = "rw"
    BY <1>26 DEF FlushFill
  <2>4. logno \in DOMAIN wal
    BY <2>3
  <2>5. \A s \in used : s <= lastseq \/ s \in wal[logno]
    <3>1. NULL \notin used
      BY NullUnused
    <3> QED BY <2>1, <2>3, <3>1
  <2> QED BY <2>1, <2>2, <2>4, <2>5
<1>27. CASE FlushFail
  BY <1>27 DEF FlushFail, Fails, TableRemove
<1>28. CASE FlushApply
  BY <1>28 DEF FlushApply, Succeeds, AppendEdit
<1>29. CASE FlushApplyFail
  BY <1>29 DEF FlushApplyFail, Fails, AppendEdit
<1>30. CASE FlushDelete
  BY <1>30 DEF FlushDelete, ObsoleteLogs, DeleteLog
<1>31. CASE FlushDone
  BY <1>31 DEF FlushDone, ObsoleteLogs
<1>32. CASE FlushSkip
  BY <1>32 DEF FlushSkip
<1>33. CASE Close
  BY <1>33 DEF Close
<1>34. CASE CloseDone
  BY <1>34 DEF CloseDone, NoProcess
<1>35. CASE Crash
  BY <1>35 DEF Crash, NoProcess
<1>36. CASE UNCHANGED vars
  BY <1>36 DEF vars
<1> HIDE DEF SequenceOK, vars
<1> QED
  BY <1>1, <1>2, <1>3, <1>4, <1>5, <1>6, <1>7, <1>8, <1>9, <1>10, <1>11,
     <1>12, <1>13, <1>14, <1>15, <1>16, <1>17, <1>18, <1>19, <1>20, <1>21,
     <1>22, <1>23, <1>24, <1>25, <1>26, <1>27, <1>28, <1>29, <1>30, <1>31,
     <1>32, <1>33, <1>34, <1>35, <1>36
  DEF Next, OpenStep, FlushStep, Finished

-----------------------------------------------------------------------------
(* What a step does to the logs, to the log number and to the sequence     *)
(* numbers.                                                                *)
LEMMA GrowStep ==
    ASSUME TypeOK, HistoryOK, ControlOK, CountersOK, LogsOK, SequenceOK, Next \/
           UNCHANGED vars
    PROVE  ~dropped => \A n \in Logs : n \in DOMAIN wal' => wal[n] \subseteq wal'[n]
<1> USE DEF SequenceOK, LogsOK, CountersOK, ControlOK, Idle, Blank, Replaying, Running,
            HistoryOK, TypeOK, Numbers, Logs, vars, disk, vset, memory, history
<1> DEFINE Goal == ~dropped => \A n \in Logs : n \in DOMAIN wal' => wal[n] \subseteq wal'[n]
<1> SUFFICES Goal
  OBVIOUS
<1>1. ASSUME NEW m \in {"rw", "ro"}, Open(m) PROVE Goal
  BY <1>1 DEF Open
<1>2. CASE NewDBCreate
  BY <1>2 DEF NewDBCreate
<1>3. CASE NewDBWrite
  BY <1>3 DEF NewDBWrite, Succeeds
<1>4. CASE NewDBFail
  BY <1>4 DEF NewDBFail, Fails, NoProcess
<1>5. CASE Load
  BY <1>5 DEF Load, NoProcess, NextFileNumber
<1>6. CASE ReplayOpen
  BY <1>6 DEF ReplayOpen
<1>7. CASE ReplayRecord
  BY <1>7 DEF ReplayRecord
<1>8. CASE ReplayFull
  BY <1>8 DEF ReplayFull
<1>9. CASE ReplayNext
  BY <1>9 DEF ReplayNext
<1>10. CASE ReplayBuild
  BY <1>10 DEF ReplayBuild, TableTruncate
<1>11. CASE ReplayBuilt
  BY <1>11 DEF ReplayBuilt, Succeeds, TableFinish
<1>12. CASE ReplayBuildFail
  BY <1>12 DEF ReplayBuildFail, Fails, TableRemove, NoProcess
<1>13. CASE NewLog
  BY <1>13 DEF NewLog, RecoveredSequence, SetWal
<1>14. CASE ManifestTruncate
  BY <1>14 DEF ManifestTruncate
<1>15. CASE ManifestApply
  BY <1>15 DEF ManifestApply, Succeeds
<1>16. CASE ManifestFail
  BY <1>16 DEF ManifestFail, Fails, NoProcess
<1>17. CASE OpenDelete
  BY <1>17 DEF OpenDelete, ObsoleteLogs, DeleteLog
<1>18. CASE Opened
  BY <1>18 DEF Opened, ObsoleteLogs
<1>19. CASE PutLog
  BY <1>19 DEF PutLog, SetWal
<1>20. CASE PutAck
  BY <1>20 DEF PutAck
<1>21. CASE Switch
  BY <1>21 DEF Switch, SwitchMemTable, SetWal
<1>22. CASE ForceSwitch
  BY <1>22 DEF ForceSwitch, SwitchMemTable, SetWal
<1>23. CASE FlushTruncate
  BY <1>23 DEF FlushTruncate, TableTruncate
<1>24. CASE FlushCreateFail
  BY <1>24 DEF FlushCreateFail, Fails
<1>25. CASE FlushEmpty
  BY <1>25 DEF FlushEmpty, TableRemove, EditSequence
<1>26. CASE FlushFill
  BY <1>26 DEF FlushFill, Succeeds, TableFinish, EditSequence
<1>27. CASE FlushFail
  BY <1>27 DEF FlushFail, Fails, TableRemove
<1>28. CASE FlushApply
  BY <1>28 DEF FlushApply, Succeeds, AppendEdit
<1>29. CASE FlushApplyFail
  BY <1>29 DEF FlushApplyFail, Fails, AppendEdit
<1>30. CASE FlushDelete
  BY <1>30 DEF FlushDelete, ObsoleteLogs, DeleteLog
<1>31. CASE FlushDone
  BY <1>31 DEF FlushDone, ObsoleteLogs
<1>32. CASE FlushSkip
  BY <1>32 DEF FlushSkip
<1>33. CASE Close
  BY <1>33 DEF Close
<1>34. CASE CloseDone
  BY <1>34 DEF CloseDone, NoProcess
<1>35. CASE Crash
  BY <1>35 DEF Crash, NoProcess
<1>36. CASE UNCHANGED vars
  BY <1>36 DEF vars
<1> HIDE DEF vars, Goal
<1> QED
  BY <1>1, <1>2, <1>3, <1>4, <1>5, <1>6, <1>7, <1>8, <1>9, <1>10, <1>11,
     <1>12, <1>13, <1>14, <1>15, <1>16, <1>17, <1>18, <1>19, <1>20, <1>21,
     <1>22, <1>23, <1>24, <1>25, <1>26, <1>27, <1>28, <1>29, <1>30, <1>31,
     <1>32, <1>33, <1>34, <1>35, <1>36
  DEF Next, OpenStep, FlushStep, Finished

(* LogNumber() and the counter of files only go up. *)
LEMMA NumberStep ==
    ASSUME TypeOK, HistoryOK, ControlOK, CountersOK, LogsOK, SequenceOK, Next \/
           UNCHANGED vars
    PROVE  /\ ~dropped' => mlog' >= mlog
           /\ mode # "closed" /\ mode' # "closed" => lognum' >= lognum
           /\ lognum' # lognum /\ mode' # "closed" => lognum' < nextfile'
<1> USE DEF SequenceOK, LogsOK, CountersOK, ControlOK, Idle, Blank, Replaying, Running,
            HistoryOK, TypeOK, Numbers, Logs, vars, disk, vset, memory, history
<1> DEFINE Goal ==
      /\ ~dropped' => mlog' >= mlog
      /\ mode # "closed" /\ mode' # "closed" => lognum' >= lognum
      /\ lognum' # lognum /\ mode' # "closed" => lognum' < nextfile'
<1> SUFFICES Goal
  OBVIOUS
<1>1. ASSUME NEW m \in {"rw", "ro"}, Open(m) PROVE Goal
  BY <1>1 DEF Open
<1>2. CASE NewDBCreate
  BY <1>2 DEF NewDBCreate
<1>3. CASE NewDBWrite
  BY <1>3 DEF NewDBWrite, Succeeds
<1>4. CASE NewDBFail
  BY <1>4 DEF NewDBFail, Fails, NoProcess
<1>5. CASE Load
  BY <1>5 DEF Load, NoProcess, NextFileNumber
<1>6. CASE ReplayOpen
  BY <1>6 DEF ReplayOpen
<1>7. CASE ReplayRecord
  BY <1>7 DEF ReplayRecord
<1>8. CASE ReplayFull
  BY <1>8 DEF ReplayFull
<1>9. CASE ReplayNext
  BY <1>9 DEF ReplayNext
<1>10. CASE ReplayBuild
  BY <1>10 DEF ReplayBuild, TableTruncate
<1>11. CASE ReplayBuilt
  BY <1>11 DEF ReplayBuilt, Succeeds, TableFinish
<1>12. CASE ReplayBuildFail
  BY <1>12 DEF ReplayBuildFail, Fails, TableRemove, NoProcess
<1>13. CASE NewLog
  BY <1>13 DEF NewLog, RecoveredSequence, SetWal
<1>14. CASE ManifestTruncate
  BY <1>14 DEF ManifestTruncate
<1>15. CASE ManifestApply
  BY <1>15 DEF ManifestApply, Succeeds
<1>16. CASE ManifestFail
  BY <1>16 DEF ManifestFail, Fails, NoProcess
<1>17. CASE OpenDelete
  BY <1>17 DEF OpenDelete, ObsoleteLogs, DeleteLog
<1>18. CASE Opened
  BY <1>18 DEF Opened, ObsoleteLogs
<1>19. CASE PutLog
  BY <1>19 DEF PutLog, SetWal
<1>20. CASE PutAck
  BY <1>20 DEF PutAck
<1>21. CASE Switch
  BY <1>21 DEF Switch, SwitchMemTable, SetWal
<1>22. CASE ForceSwitch
  BY <1>22 DEF ForceSwitch, SwitchMemTable, SetWal
<1>23. CASE FlushTruncate
  BY <1>23 DEF FlushTruncate, TableTruncate
<1>24. CASE FlushCreateFail
  BY <1>24 DEF FlushCreateFail, Fails
<1>25. CASE FlushEmpty
  BY <1>25 DEF FlushEmpty, TableRemove, EditSequence
<1>26. CASE FlushFill
  BY <1>26 DEF FlushFill, Succeeds, TableFinish, EditSequence
<1>27. CASE FlushFail
  BY <1>27 DEF FlushFail, Fails, TableRemove
<1>28. CASE FlushApply
  BY <1>28 DEF FlushApply, Succeeds, AppendEdit
<1>29. CASE FlushApplyFail
  BY <1>29 DEF FlushApplyFail, Fails, AppendEdit
<1>30. CASE FlushDelete
  BY <1>30 DEF FlushDelete, ObsoleteLogs, DeleteLog
<1>31. CASE FlushDone
  BY <1>31 DEF FlushDone, ObsoleteLogs
<1>32. CASE FlushSkip
  BY <1>32 DEF FlushSkip
<1>33. CASE Close
  BY <1>33 DEF Close
<1>34. CASE CloseDone
  BY <1>34 DEF CloseDone, NoProcess
<1>35. CASE Crash
  BY <1>35 DEF Crash, NoProcess
<1>36. CASE UNCHANGED vars
  BY <1>36 DEF vars
<1> HIDE DEF vars, Goal
<1> QED
  BY <1>1, <1>2, <1>3, <1>4, <1>5, <1>6, <1>7, <1>8, <1>9, <1>10, <1>11,
     <1>12, <1>13, <1>14, <1>15, <1>16, <1>17, <1>18, <1>19, <1>20, <1>21,
     <1>22, <1>23, <1>24, <1>25, <1>26, <1>27, <1>28, <1>29, <1>30, <1>31,
     <1>32, <1>33, <1>34, <1>35, <1>36
  DEF Next, OpenStep, FlushStep, Finished

(* AddRecord gets a number that no log ever had. *)
LEMMA FreshStep ==
    ASSUME TypeOK, HistoryOK, ControlOK, CountersOK, LogsOK, SequenceOK, Next \/
           UNCHANGED vars
    PROVE  ~dropped /\ pend' # pend /\ pend' # NULL => pend' \notin used
<1> USE DEF SequenceOK, LogsOK, CountersOK, ControlOK, Idle, Blank, Replaying, Running,
            HistoryOK, TypeOK, Numbers, Logs, vars, disk, vset, memory, history
<1> DEFINE Goal == ~dropped /\ pend' # pend /\ pend' # NULL => pend' \notin used
<1> SUFFICES Goal
  OBVIOUS
<1>1. ASSUME NEW m \in {"rw", "ro"}, Open(m) PROVE Goal
  BY <1>1 DEF Open
<1>2. CASE NewDBCreate
  BY <1>2 DEF NewDBCreate
<1>3. CASE NewDBWrite
  BY <1>3 DEF NewDBWrite, Succeeds
<1>4. CASE NewDBFail
  BY <1>4 DEF NewDBFail, Fails, NoProcess
<1>5. CASE Load
  BY <1>5 DEF Load, NoProcess, NextFileNumber
<1>6. CASE ReplayOpen
  BY <1>6 DEF ReplayOpen
<1>7. CASE ReplayRecord
  BY <1>7 DEF ReplayRecord
<1>8. CASE ReplayFull
  BY <1>8 DEF ReplayFull
<1>9. CASE ReplayNext
  BY <1>9 DEF ReplayNext
<1>10. CASE ReplayBuild
  BY <1>10 DEF ReplayBuild, TableTruncate
<1>11. CASE ReplayBuilt
  BY <1>11 DEF ReplayBuilt, Succeeds, TableFinish
<1>12. CASE ReplayBuildFail
  BY <1>12 DEF ReplayBuildFail, Fails, TableRemove, NoProcess
<1>13. CASE NewLog
  BY <1>13 DEF NewLog, RecoveredSequence, SetWal
<1>14. CASE ManifestTruncate
  BY <1>14 DEF ManifestTruncate
<1>15. CASE ManifestApply
  BY <1>15 DEF ManifestApply, Succeeds
<1>16. CASE ManifestFail
  BY <1>16 DEF ManifestFail, Fails, NoProcess
<1>17. CASE OpenDelete
  BY <1>17 DEF OpenDelete, ObsoleteLogs, DeleteLog
<1>18. CASE Opened
  BY <1>18 DEF Opened, ObsoleteLogs
<1>19. CASE PutLog
  BY <1>19 DEF PutLog, SetWal
<1>20. CASE PutAck
  BY <1>20 DEF PutAck
<1>21. CASE Switch
  BY <1>21 DEF Switch, SwitchMemTable, SetWal
<1>22. CASE ForceSwitch
  BY <1>22 DEF ForceSwitch, SwitchMemTable, SetWal
<1>23. CASE FlushTruncate
  BY <1>23 DEF FlushTruncate, TableTruncate
<1>24. CASE FlushCreateFail
  BY <1>24 DEF FlushCreateFail, Fails
<1>25. CASE FlushEmpty
  BY <1>25 DEF FlushEmpty, TableRemove, EditSequence
<1>26. CASE FlushFill
  BY <1>26 DEF FlushFill, Succeeds, TableFinish, EditSequence
<1>27. CASE FlushFail
  BY <1>27 DEF FlushFail, Fails, TableRemove
<1>28. CASE FlushApply
  BY <1>28 DEF FlushApply, Succeeds, AppendEdit
<1>29. CASE FlushApplyFail
  BY <1>29 DEF FlushApplyFail, Fails, AppendEdit
<1>30. CASE FlushDelete
  BY <1>30 DEF FlushDelete, ObsoleteLogs, DeleteLog
<1>31. CASE FlushDone
  BY <1>31 DEF FlushDone, ObsoleteLogs
<1>32. CASE FlushSkip
  BY <1>32 DEF FlushSkip
<1>33. CASE Close
  BY <1>33 DEF Close
<1>34. CASE CloseDone
  BY <1>34 DEF CloseDone, NoProcess
<1>35. CASE Crash
  BY <1>35 DEF Crash, NoProcess
<1>36. CASE UNCHANGED vars
  BY <1>36 DEF vars
<1> HIDE DEF vars, Goal
<1> QED
  BY <1>1, <1>2, <1>3, <1>4, <1>5, <1>6, <1>7, <1>8, <1>9, <1>10, <1>11,
     <1>12, <1>13, <1>14, <1>15, <1>16, <1>17, <1>18, <1>19, <1>20, <1>21,
     <1>22, <1>23, <1>24, <1>25, <1>26, <1>27, <1>28, <1>29, <1>30, <1>31,
     <1>32, <1>33, <1>34, <1>35, <1>36
  DEF Next, OpenStep, FlushStep, Finished

-----------------------------------------------------------------------------
(* A load that is still the only one was the only one before. *)
LEMMA SingleBack ==
    ASSUME TypeOK, HistoryOK, Next \/ UNCHANGED vars
    PROVE  Single' => Single
<1> USE DEF Single, HistoryOK, TypeOK, Numbers, vars, disk, vset, memory, history
<1>1. ASSUME NEW m \in {"rw", "ro"}, Open(m) PROVE Single' => Single
  BY <1>1 DEF Open
<1>2. CASE NewDBCreate
  BY <1>2 DEF NewDBCreate
<1>3. CASE NewDBWrite
  BY <1>3 DEF NewDBWrite, Succeeds
<1>4. CASE NewDBFail
  BY <1>4 DEF NewDBFail, Fails, NoProcess
<1>5. CASE Load
  BY <1>5 DEF Load, NoProcess, NextFileNumber
<1>6. CASE ReplayOpen
  BY <1>6 DEF ReplayOpen
<1>7. CASE ReplayRecord
  BY <1>7 DEF ReplayRecord
<1>8. CASE ReplayFull
  BY <1>8 DEF ReplayFull
<1>9. CASE ReplayNext
  BY <1>9 DEF ReplayNext
<1>10. CASE ReplayBuild
  BY <1>10 DEF ReplayBuild, TableTruncate
<1>11. CASE ReplayBuilt
  BY <1>11 DEF ReplayBuilt, Succeeds, TableFinish
<1>12. CASE ReplayBuildFail
  BY <1>12 DEF ReplayBuildFail, Fails, TableRemove, NoProcess
<1>13. CASE NewLog
  BY <1>13 DEF NewLog, RecoveredSequence, SetWal
<1>14. CASE ManifestTruncate
  BY <1>14 DEF ManifestTruncate
<1>15. CASE ManifestApply
  BY <1>15 DEF ManifestApply, Succeeds
<1>16. CASE ManifestFail
  BY <1>16 DEF ManifestFail, Fails, NoProcess
<1>17. CASE OpenDelete
  BY <1>17 DEF OpenDelete, ObsoleteLogs, DeleteLog
<1>18. CASE Opened
  BY <1>18 DEF Opened, ObsoleteLogs
<1>19. CASE PutLog
  BY <1>19 DEF PutLog, SetWal
<1>20. CASE PutAck
  BY <1>20 DEF PutAck
<1>21. CASE Switch
  BY <1>21 DEF Switch, SwitchMemTable, SetWal
<1>22. CASE ForceSwitch
  BY <1>22 DEF ForceSwitch, SwitchMemTable, SetWal
<1>23. CASE FlushTruncate
  BY <1>23 DEF FlushTruncate, TableTruncate
<1>24. CASE FlushCreateFail
  BY <1>24 DEF FlushCreateFail, Fails
<1>25. CASE FlushEmpty
  BY <1>25 DEF FlushEmpty, TableRemove, EditSequence
<1>26. CASE FlushFill
  BY <1>26 DEF FlushFill, Succeeds, TableFinish, EditSequence
<1>27. CASE FlushFail
  BY <1>27 DEF FlushFail, Fails, TableRemove
<1>28. CASE FlushApply
  BY <1>28 DEF FlushApply, Succeeds, AppendEdit
<1>29. CASE FlushApplyFail
  BY <1>29 DEF FlushApplyFail, Fails, AppendEdit
<1>30. CASE FlushDelete
  BY <1>30 DEF FlushDelete, ObsoleteLogs, DeleteLog
<1>31. CASE FlushDone
  BY <1>31 DEF FlushDone, ObsoleteLogs
<1>32. CASE FlushSkip
  BY <1>32 DEF FlushSkip
<1>33. CASE Close
  BY <1>33 DEF Close
<1>34. CASE CloseDone
  BY <1>34 DEF CloseDone, NoProcess
<1>35. CASE Crash
  BY <1>35 DEF Crash, NoProcess
<1>36. CASE UNCHANGED vars
  BY <1>36 DEF vars
<1> HIDE DEF Single, vars
<1> QED
  BY <1>1, <1>2, <1>3, <1>4, <1>5, <1>6, <1>7, <1>8, <1>9, <1>10, <1>11,
     <1>12, <1>13, <1>14, <1>15, <1>16, <1>17, <1>18, <1>19, <1>20, <1>21,
     <1>22, <1>23, <1>24, <1>25, <1>26, <1>27, <1>28, <1>29, <1>30, <1>31,
     <1>32, <1>33, <1>34, <1>35, <1>36
  DEF Next, OpenStep, FlushStep, Finished

(* Every step keeps the load in its log or in the table. *)
LEMMA LoadStep ==
    ASSUME TypeOK, HistoryOK, ControlOK, CountersOK, LogsOK, SequenceOK, Single,
           Single', LoadOK, ReplayOK, SessionOK, Next \/ UNCHANGED vars
    PROVE  LoadOK'
<1> USE DEF InLog, InTable, Loading, Flushing, Stored, SessionOK, ReplayOK, LoadOK,
            Single, LogsOK, CountersOK, ControlOK, Idle, Blank, Replaying, Running,
            HistoryOK, TypeOK, Numbers, Logs, vars, disk, vset, memory, history
<1>1. ASSUME NEW m \in {"rw", "ro"}, Open(m) PROVE LoadOK'
  BY <1>1 DEF Open
<1>2. CASE NewDBCreate
  BY <1>2 DEF NewDBCreate
<1>3. CASE NewDBWrite
  BY <1>3 DEF NewDBWrite, Succeeds
<1>4. CASE NewDBFail
  BY <1>4 DEF NewDBFail, Fails, NoProcess
<1>5. CASE Load
  BY <1>5 DEF Load, NoProcess, NextFileNumber
<1>6. CASE ReplayOpen
  BY <1>6 DEF ReplayOpen
<1>7. CASE ReplayRecord
  BY <1>7 DEF ReplayRecord
<1>8. CASE ReplayFull
  BY <1>8 DEF ReplayFull
<1>9. CASE ReplayNext
  BY <1>9 DEF ReplayNext
<1>10. CASE ReplayBuild
  <2>1. InLog /\ mem = used /\ newfiles = {} /\ used # {}
    BY <1>10, Building DEF ReplayBuild
  <2> QED BY <1>10, <2>1 DEF ReplayBuild, TableTruncate
<1>11. CASE ReplayBuilt
  <2>1. InLog /\ mem = used /\ newfiles = {} /\ used # {}
    BY <1>11, Building DEF ReplayBuilt
  <2> QED BY <1>11, <2>1 DEF ReplayBuilt, Succeeds, TableFinish
<1>12. CASE ReplayBuildFail
  <2>1. InLog /\ mem = used /\ newfiles = {} /\ used # {}
    BY <1>12, Building DEF ReplayBuildFail
  <2> QED BY <1>12, <2>1 DEF ReplayBuildFail, Fails, TableRemove, NoProcess
<1>13. CASE NewLog
  <2>1. CASE mode # "rw"
    BY <1>13, <2>1 DEF NewLog
  <2>2. CASE mode = "rw"
    <3>1. /\ DOMAIN wal' = Logs \cup {nextfile} /\ wal'[nextfile] = {}
          /\ \A n \in Logs : n # nextfile => wal'[n] = wal[n]
      BY <1>13, <2>2, NewLogWal
    <3>2. nextfile \notin home
      BY <1>13 DEF NewLog
    <3>3. UNCHANGED <<manifest, mlog, mfiles, files, newfiles, cached, ldb, ldbok, imm, flush, pend,
                      used, home, acked>>
      BY <1>13 DEF NewLog
    <3>4. \A n \in DOMAIN wal' : wal'[n] = IF n \in home THEN used ELSE {}
      BY <3>1, <3>2, EmptyLogAdded
    <3>5. InLog' <=> InLog
      BY <3>1, <3>2, <3>3
    <3> HIDE DEF InLog
    <3> QED BY <3>3, <3>4, <3>5
  <2> QED BY <2>1, <2>2
<1>14. CASE ManifestTruncate
  BY <1>14 DEF ManifestTruncate
<1>15. CASE ManifestApply
  BY <1>15 DEF ManifestApply, Succeeds
<1>16. CASE ManifestFail
  BY <1>16 DEF ManifestFail, Fails, NoProcess
<1>17. CASE OpenDelete
  BY <1>17 DEF OpenDelete, ObsoleteLogs, DeleteLog
<1>18. CASE Opened
  BY <1>18 DEF Opened, ObsoleteLogs
<1>19. CASE PutLog
  <2>1. /\ mem = used /\ files = {} /\ newfiles = {} /\ cached = NULL /\ imm = NULL
        /\ flush = "off" /\ mfiles = {}
        /\ home \subseteq {logno} /\ logno \in DOMAIN wal /\ logno >= mlog /\ wal[logno] = used
        /\ lastseq + 1 \notin used
    BY <1>19, PutSingle
  <2>2. /\ used' = used \cup {lastseq + 1} /\ home' = home \cup {logno} /\ pend' = lastseq + 1
        /\ UNCHANGED <<manifest, mlog, mfiles, files, newfiles, cached, imm, flush, acked, mem>>
    BY <1>19 DEF PutLog
  <2>3. /\ DOMAIN wal' = DOMAIN wal
        /\ wal'[logno] = used'
        /\ \A n \in DOMAIN wal : n # logno => wal'[n] = wal[n]
    BY <1>19, <2>1, <2>2, PutLogWal
  <2>4. home' = {logno}
    BY <2>1, <2>2
  <2>5. \A n \in DOMAIN wal' : wal'[n] = IF n \in home' THEN used' ELSE {}
    BY <2>1, <2>3, <2>4
  <2>6. InLog'
    BY <2>1, <2>2, <2>3, <2>4
  <2>7. Cardinality(used') <= WriteBuffer + 1
    <3>1. Cardinality(used) <= WriteBuffer
      BY <1>19, <2>1 DEF PutLog
    <3>2. IsFiniteSet(used) /\ Cardinality(used) \in Nat /\ WriteBuffer \in Nat
      BY FS_CardinalityType, StoreAssumption
    <3>3. Cardinality(used \cup {lastseq + 1}) = Cardinality(used) + 1
      BY <2>1, <3>2, OneMore
    <3> QED BY <2>2, <3>1, <3>2, <3>3
  <2>8. pend' \notin acked'
    BY <2>1, <2>2
  <2>9. used' # {} /\ mfiles' = {} /\ files' = {} /\ newfiles' = {} /\ cached' = NULL
    BY <2>1, <2>2
  <2> HIDE DEF InLog
  <2> QED BY <2>4, <2>5, <2>6, <2>7, <2>8, <2>9
<1>20. CASE PutAck
  <2>1. pend' = NULL /\ NULL \notin used /\ acked' \subseteq used
    BY <1>20, NullUnused DEF PutAck
  <2> QED BY ZenonT(40), <1>20, <2>1 DEF PutAck
<1>21. CASE Switch
  <2>1. mem = used /\ mem # {}
    BY <1>21, WholeLoad DEF Switch
  <2>2. /\ DOMAIN wal' = Logs \cup {nextfile} /\ wal'[nextfile] = {}
        /\ \A n \in Logs : n # nextfile => wal'[n] = wal[n]
    BY <1>21, SwitchWal DEF Switch
  <2>3. nextfile \notin home
    BY <1>21 DEF Switch, SwitchMemTable
  <2>4. UNCHANGED <<manifest, mlog, mfiles, files, newfiles, cached, ldb, ldbok, pend,
                    used, home, acked>>
    BY <1>21 DEF Switch, SwitchMemTable
  <2>5. \A n \in DOMAIN wal' : wal'[n] = IF n \in home THEN used ELSE {}
    BY <2>2, <2>3, EmptyLogAdded
  <2>6. InLog' <=> InLog
    BY <2>2, <2>3, <2>4
  <2> HIDE DEF InLog
  <2> QED BY <2>1, <2>4, <2>5, <2>6
<1>22. CASE ForceSwitch
  BY <1>22 DEF ForceSwitch, SwitchMemTable, SetWal
<1>23. CASE FlushTruncate
  BY <1>23 DEF FlushTruncate, TableTruncate
<1>24. CASE FlushCreateFail
  BY <1>24 DEF FlushCreateFail, Fails
<1>25. CASE FlushEmpty
  BY <1>25 DEF FlushEmpty, TableRemove, EditSequence
<1>26. CASE FlushFill
  BY <1>26 DEF FlushFill, Succeeds, TableFinish, EditSequence
<1>27. CASE FlushFail
  BY <1>27 DEF FlushFail, Fails, TableRemove
<1>28. CASE FlushApply
  BY <1>28 DEF FlushApply, Succeeds, AppendEdit
<1>29. CASE FlushApplyFail
  <2>1. CASE AppendEdit
    BY SMTT(30), <1>29, <2>1 DEF FlushApplyFail, Fails, AppendEdit
  <2>2. CASE UNCHANGED <<mlog, mnext, mseq, mfiles>>
    BY <1>29, <2>2 DEF FlushApplyFail, Fails
  <2> QED BY <1>29, <2>1, <2>2 DEF FlushApplyFail
<1>30. CASE FlushDelete
  <2>1. PICK n \in Logs : n < lognum /\ DeleteLog(n)
    BY <1>30 DEF FlushDelete, ObsoleteLogs
  <2>2. DOMAIN wal' = Logs \ {n} /\ \A m \in DOMAIN wal' : wal'[m] = wal[m]
    BY <2>1, DeleteLogFacts
  <2>3. used # {} => used \in mfiles /\ InTable
    <3>1. flush = "delete" /\ pc \in {"open", "closing"} /\ imm = NULL
      BY <1>30 DEF FlushDelete
    <3>2. used # {} => imm = used \/ Stored
      BY <3>1
    <3>3. used # NULL
      BY NotNull
    <3> QED BY <3>1, <3>2, <3>3
  <2>4. InLog' => InLog
    BY <1>30, <2>2 DEF FlushDelete
  <2> HIDE DEF InLog
  <2> QED BY SMTT(30), <1>30, <2>2, <2>3, <2>4 DEF FlushDelete
<1>31. CASE FlushDone
  BY <1>31 DEF FlushDone, ObsoleteLogs
<1>32. CASE FlushSkip
  BY <1>32 DEF FlushSkip
<1>33. CASE Close
  BY <1>33 DEF Close
<1>34. CASE CloseDone
  BY <1>34 DEF CloseDone, NoProcess
<1>35. CASE Crash
  <2>1. pend' = NULL /\ NULL \notin used
    BY <1>35, NullUnused DEF Crash, NoProcess
  <2> QED BY ZenonT(40), <1>35, <2>1 DEF Crash, NoProcess
<1>36. CASE UNCHANGED vars
  BY <1>36 DEF vars
<1> HIDE DEF LoadOK, vars
<1> QED
  BY <1>1, <1>2, <1>3, <1>4, <1>5, <1>6, <1>7, <1>8, <1>9, <1>10, <1>11,
     <1>12, <1>13, <1>14, <1>15, <1>16, <1>17, <1>18, <1>19, <1>20, <1>21,
     <1>22, <1>23, <1>24, <1>25, <1>26, <1>27, <1>28, <1>29, <1>30, <1>31,
     <1>32, <1>33, <1>34, <1>35, <1>36
  DEF Next, OpenStep, FlushStep, Finished

(* Every step of recovery keeps track of the load. *)
LEMMA ReplayStep ==
    ASSUME TypeOK, HistoryOK, ControlOK, CountersOK, LogsOK, SequenceOK, Single,
           Single', LoadOK, ReplayOK, SessionOK, Next \/ UNCHANGED vars
    PROVE  ReplayOK'
<1> USE DEF InLog, InTable, Loading, Flushing, Stored, SessionOK, ReplayOK, LoadOK,
            Single, LogsOK, CountersOK, ControlOK, Idle, Blank, Replaying, Running,
            HistoryOK, TypeOK, Numbers, Logs, vars, disk, vset, memory, history
<1>1. ASSUME NEW m \in {"rw", "ro"}, Open(m) PROVE ReplayOK'
  BY <1>1 DEF Open
<1>2. CASE NewDBCreate
  BY <1>2 DEF NewDBCreate
<1>3. CASE NewDBWrite
  BY <1>3 DEF NewDBWrite, Succeeds
<1>4. CASE NewDBFail
  BY <1>4 DEF NewDBFail, Fails, NoProcess
<1>5. CASE Load
  BY <1>5 DEF Load, NoProcess, NextFileNumber
<1>6. CASE ReplayOpen
  <2>1. Least(todo) \in todo /\ Least(todo) \in Logs
    BY <1>6, LeastLog DEF ReplayOpen
  <2>2. mem = {} /\ pc = "replay" /\ rest = NULL /\ rest' = wal[Least(todo)]
    BY <1>6 DEF ReplayOpen
  <2>3. UNCHANGED <<ldb, ldbok, used, home, files, newfiles, mem, todo, pc>>
    BY <1>6 DEF ReplayOpen
  <2>4. rest' # NULL
    <3>1. wal[Least(todo)] \subseteq 0 .. MaxSeq
      BY <2>1
    <3> QED BY <2>2, <3>1, NotNull
  <2>5. rest' = IF Least(todo) \in home THEN used ELSE {}
    BY <2>1, <2>2
  <2>6. Least(todo) \in home => newfiles = {}
    BY <2>1, <2>2
  <2> QED BY <2>1, <2>2, <2>3, <2>4, <2>5, <2>6
<1>7. CASE ReplayRecord
  <2>1. todo # {} /\ rest \subseteq wal[Least(todo)] /\ rest # {} /\ rest # NULL /\ pc = "replay"
    BY <1>7 DEF ReplayRecord
  <2>2. Least(todo) \in todo /\ Least(todo) \in Logs
    BY <2>1, LeastLog
  <2>3. Least(todo) \in home
    BY <2>1, <2>2
  <2>4. mem \cup rest = used /\ mem \cap rest = {} /\ newfiles = {}
    BY <2>1, <2>3
  <2>5. Least(rest) \in rest
    BY <1>7, <2>1, LeastInSet DEF ReplayRecord
  <2>6. mem' \cup rest' = used /\ mem' \cap rest' = {}
    <3>1. PICK e \in rest : mem' = mem \cup {e} /\ rest' = rest \ {e}
      BY <1>7, <2>5 DEF ReplayRecord
    <3> QED BY <2>4, <3>1
  <2>7. UNCHANGED <<ldb, ldbok, used, home, files, newfiles, todo, pc>>
    BY <1>7 DEF ReplayRecord
  <2> QED BY <2>1, <2>2, <2>3, <2>4, <2>6, <2>7
<1>8. CASE ReplayFull
  <2>1. rest # NULL /\ mem # {} /\ pc = "replay" /\ pc' = "build"
    BY <1>8 DEF ReplayFull
  <2>2. Least(todo) \in home
    BY <2>1
  <2>3. mem \cup rest = used /\ mem \cap rest = {} /\ newfiles = {}
    BY <2>1, <2>2
  <2>4. rest = {}
    <3>1. CASE Cardinality(mem) > WriteBuffer
      <4>1. mem = used
        BY <3>1, WholeLoad
      <4> QED BY <2>3, <4>1
    <3> QED BY <1>8, <3>1 DEF ReplayFull
  <2>5. UNCHANGED <<ldb, ldbok, used, home, files, newfiles, todo, rest, mem>>
    BY <1>8 DEF ReplayFull
  <2> QED BY <2>1, <2>2, <2>3, <2>4, <2>5
<1>9. CASE ReplayNext
  <2>1. mem = {} /\ rest = {} /\ rest' = NULL /\ todo' = todo \ {Least(todo)} /\ pc = "replay"
    BY <1>9 DEF ReplayNext
  <2>2. UNCHANGED <<ldb, ldbok, used, home, files, newfiles, mem, pc>>
    BY <1>9 DEF ReplayNext
  <2>3. {} # NULL
    BY NotNull
  <2>4. CASE Least(todo) \in home
    <3>1. InTable /\ used \in newfiles /\ used # {}
      BY <2>1, <2>3, <2>4
    <3>2. \A h \in todo' : h \notin home
      BY <2>1, <2>4
    <3> QED BY <2>1, <2>2, <3>1, <3>2
  <2>5. CASE Least(todo) \notin home
    BY <2>1, <2>2, <2>3, <2>5
  <2> QED BY <2>4, <2>5
<1>10. CASE ReplayBuild
  <2>1. /\ newfiles = {} /\ mem = used /\ rest = {}
        /\ Least(todo) \in todo /\ Least(todo) \in home
    BY <1>10, Building DEF ReplayBuild
  <2>2. pc' = "fill" /\ UNCHANGED <<used, home, files, newfiles, mem, rest, todo>>
    BY <1>10 DEF ReplayBuild
  <2> QED BY <2>1, <2>2
<1>11. CASE ReplayBuilt
  <2>1. /\ newfiles = {} /\ mem = used /\ rest = {}
        /\ Least(todo) \in todo /\ Least(todo) \in home
    BY <1>11, Building DEF ReplayBuilt
  <2>2. /\ ldb' = mem /\ ldbok' /\ newfiles' = newfiles \cup {mem}
        /\ mem' = {} /\ pc' = "replay"
        /\ UNCHANGED <<used, home, files, rest, todo>>
    BY <1>11 DEF ReplayBuilt, TableFinish
  <2>3. InTable' /\ used' \in newfiles'
    BY <2>1, <2>2
  <2> QED BY <2>1, <2>2, <2>3
<1>12. CASE ReplayBuildFail
  BY <1>12 DEF ReplayBuildFail, Fails, TableRemove, NoProcess
<1>13. CASE NewLog
  BY <1>13 DEF NewLog, RecoveredSequence, SetWal
<1>14. CASE ManifestTruncate
  BY <1>14 DEF ManifestTruncate
<1>15. CASE ManifestApply
  BY <1>15 DEF ManifestApply, Succeeds
<1>16. CASE ManifestFail
  BY <1>16 DEF ManifestFail, Fails, NoProcess
<1>17. CASE OpenDelete
  BY <1>17 DEF OpenDelete, ObsoleteLogs, DeleteLog
<1>18. CASE Opened
  BY <1>18 DEF Opened, ObsoleteLogs
<1>19. CASE PutLog
  BY <1>19 DEF PutLog, SetWal
<1>20. CASE PutAck
  BY <1>20 DEF PutAck
<1>21. CASE Switch
  BY <1>21 DEF Switch, SwitchMemTable, SetWal
<1>22. CASE ForceSwitch
  BY <1>22 DEF ForceSwitch, SwitchMemTable, SetWal
<1>23. CASE FlushTruncate
  BY <1>23 DEF FlushTruncate, TableTruncate
<1>24. CASE FlushCreateFail
  BY <1>24 DEF FlushCreateFail, Fails
<1>25. CASE FlushEmpty
  BY <1>25 DEF FlushEmpty, TableRemove, EditSequence
<1>26. CASE FlushFill
  BY <1>26 DEF FlushFill, Succeeds, TableFinish, EditSequence
<1>27. CASE FlushFail
  BY <1>27 DEF FlushFail, Fails, TableRemove
<1>28. CASE FlushApply
  BY <1>28 DEF FlushApply, Succeeds, AppendEdit
<1>29. CASE FlushApplyFail
  BY <1>29 DEF FlushApplyFail, Fails, AppendEdit
<1>30. CASE FlushDelete
  BY <1>30 DEF FlushDelete, ObsoleteLogs, DeleteLog
<1>31. CASE FlushDone
  BY <1>31 DEF FlushDone, ObsoleteLogs
<1>32. CASE FlushSkip
  BY <1>32 DEF FlushSkip
<1>33. CASE Close
  BY <1>33 DEF Close
<1>34. CASE CloseDone
  BY <1>34 DEF CloseDone, NoProcess
<1>35. CASE Crash
  BY <1>35 DEF Crash, NoProcess
<1>36. CASE UNCHANGED vars
  BY <1>36 DEF vars
<1> HIDE DEF ReplayOK, vars
<1> QED
  BY <1>1, <1>2, <1>3, <1>4, <1>5, <1>6, <1>7, <1>8, <1>9, <1>10, <1>11,
     <1>12, <1>13, <1>14, <1>15, <1>16, <1>17, <1>18, <1>19, <1>20, <1>21,
     <1>22, <1>23, <1>24, <1>25, <1>26, <1>27, <1>28, <1>29, <1>30, <1>31,
     <1>32, <1>33, <1>34, <1>35, <1>36
  DEF Next, OpenStep, FlushStep, Finished

(* Every step of a session keeps the load where it reads it. *)
LEMMA SessionStep ==
    ASSUME TypeOK, HistoryOK, ControlOK, CountersOK, LogsOK, SequenceOK, Single,
           Single', LoadOK, ReplayOK, SessionOK, Next \/ UNCHANGED vars
    PROVE  SessionOK'
<1> USE DEF InLog, InTable, Loading, Flushing, Stored, SessionOK, ReplayOK, LoadOK,
            Single, LogsOK, CountersOK, ControlOK, Idle, Blank, Replaying, Running,
            HistoryOK, TypeOK, Numbers, Logs, vars, disk, vset, memory, history
<1>1. ASSUME NEW m \in {"rw", "ro"}, Open(m) PROVE SessionOK'
  BY <1>1 DEF Open
<1>2. CASE NewDBCreate
  BY <1>2 DEF NewDBCreate
<1>3. CASE NewDBWrite
  BY <1>3 DEF NewDBWrite, Succeeds
<1>4. CASE NewDBFail
  BY <1>4 DEF NewDBFail, Fails, NoProcess
<1>5. CASE Load
  BY <1>5 DEF Load, NoProcess, NextFileNumber
<1>6. CASE ReplayOpen
  BY <1>6 DEF ReplayOpen
<1>7. CASE ReplayRecord
  BY <1>7 DEF ReplayRecord
<1>8. CASE ReplayFull
  BY <1>8 DEF ReplayFull
<1>9. CASE ReplayNext
  BY <1>9 DEF ReplayNext
<1>10. CASE ReplayBuild
  BY <1>10 DEF ReplayBuild, TableTruncate
<1>11. CASE ReplayBuilt
  BY <1>11 DEF ReplayBuilt, Succeeds, TableFinish
<1>12. CASE ReplayBuildFail
  BY <1>12 DEF ReplayBuildFail, Fails, TableRemove, NoProcess
<1>13. CASE NewLog
  BY <1>13 DEF NewLog, RecoveredSequence, SetWal
<1>14. CASE ManifestTruncate
  BY <1>14 DEF ManifestTruncate
<1>15. CASE ManifestApply
  BY <1>15 DEF ManifestApply, Succeeds
<1>16. CASE ManifestFail
  BY <1>16 DEF ManifestFail, Fails, NoProcess
<1>17. CASE OpenDelete
  BY <1>17 DEF OpenDelete, ObsoleteLogs, DeleteLog
<1>18. CASE Opened
  BY <1>18 DEF Opened, ObsoleteLogs
<1>19. CASE PutLog
  <2>1. /\ mem = used /\ files = {} /\ newfiles = {} /\ cached = NULL /\ imm = NULL
        /\ flush = "off" /\ lastseq + 1 \notin used
    BY <1>19, PutSingle
  <2>2. /\ used' = used \cup {lastseq + 1} /\ home' = home \cup {logno} /\ pend' = lastseq + 1
        /\ UNCHANGED <<files, newfiles, cached, imm, flush, mem, logno, pc>> /\ pc = "open"
    BY <1>19 DEF PutLog
  <2>3. Loading'
    BY <2>1, <2>2
  <2> HIDE DEF Loading
  <2> QED BY <2>2, <2>3
<1>20. CASE PutAck
  <2>1. pend' = NULL /\ NULL \notin used /\ mem' = mem \cup {pend} /\ pend \in used /\ pc = "open"
    BY <1>20, NullUnused DEF PutAck
  <2>2. UNCHANGED <<files, newfiles, cached, imm, flush, used, home, logno, pc>>
    BY <1>20 DEF PutAck
  <2>3. Loading
    BY <1>20, <2>1 DEF PutAck
  <2>4. Loading'
    BY <2>1, <2>2, <2>3
  <2> HIDE DEF Loading
  <2> QED BY <2>1, <2>2, <2>4
<1>21. CASE Switch
  <2>1. mem = used /\ mem # {}
    BY <1>21, WholeLoad DEF Switch
  <2>2. Loading /\ pc = "open" /\ pend = NULL
    BY <1>21, <2>1 DEF Switch, SwitchMemTable
  <2>3. /\ DOMAIN wal' = Logs \cup {nextfile} /\ logno' = nextfile /\ mem' = {} /\ imm' = mem
        /\ flush' = "build"
        /\ UNCHANGED <<manifest, mlog, files, newfiles, cached, pend, used, home, pc>>
    BY <1>21, SwitchWal DEF Switch, SwitchMemTable
  <2>4. nextfile \notin home
    BY <1>21 DEF Switch, SwitchMemTable
  <2>5. InLog'
    <3>1. logno \in Logs /\ logno \in home /\ logno >= mlog
      BY <1>21, <2>2 DEF Switch, SwitchMemTable
    <3> QED BY <2>3, <3>1
  <2> HIDE DEF InLog
  <2>6. Flushing'
    BY <2>1, <2>2, <2>3, <2>4, <2>5
  <2> HIDE DEF Flushing
  <2> QED BY <2>2, <2>3, <2>6
<1>22. CASE ForceSwitch
  BY <1>22 DEF ForceSwitch, SwitchMemTable, SetWal
<1>23. CASE FlushTruncate
  BY <1>23 DEF FlushTruncate, TableTruncate
<1>24. CASE FlushCreateFail
  BY <1>24 DEF FlushCreateFail, Fails
<1>25. CASE FlushEmpty
  BY <1>25 DEF FlushEmpty, TableRemove, EditSequence
<1>26. CASE FlushFill
  BY <1>26 DEF FlushFill, Succeeds, TableFinish, EditSequence
<1>27. CASE FlushFail
  BY <1>27 DEF FlushFail, Fails, TableRemove
<1>28. CASE FlushApply
  BY <1>28 DEF FlushApply, Succeeds, AppendEdit
<1>29. CASE FlushApplyFail
  BY <1>29 DEF FlushApplyFail, Fails, AppendEdit
<1>30. CASE FlushDelete
  BY <1>30 DEF FlushDelete, ObsoleteLogs, DeleteLog
<1>31. CASE FlushDone
  BY <1>31 DEF FlushDone, ObsoleteLogs
<1>32. CASE FlushSkip
  BY <1>32 DEF FlushSkip
<1>33. CASE Close
  BY <1>33 DEF Close
<1>34. CASE CloseDone
  BY <1>34 DEF CloseDone, NoProcess
<1>35. CASE Crash
  BY <1>35 DEF Crash, NoProcess
<1>36. CASE UNCHANGED vars
  BY <1>36 DEF vars
<1> HIDE DEF SessionOK, vars
<1> QED
  BY <1>1, <1>2, <1>3, <1>4, <1>5, <1>6, <1>7, <1>8, <1>9, <1>10, <1>11,
     <1>12, <1>13, <1>14, <1>15, <1>16, <1>17, <1>18, <1>19, <1>20, <1>21,
     <1>22, <1>23, <1>24, <1>25, <1>26, <1>27, <1>28, <1>29, <1>30, <1>31,
     <1>32, <1>33, <1>34, <1>35, <1>36
  DEF Next, OpenStep, FlushStep, Finished

-----------------------------------------------------------------------------
(* The inductive invariant. *)
StoreInv ==
    /\ TypeOK /\ HistoryOK /\ ControlOK /\ CountersOK
    /\ LogsOK /\ SequenceOK /\ SingleOK

(* No file and no process satisfy it. *)
LEMMA StoreInit ==
    ASSUME Init
    PROVE  StoreInv
<1> USE DEF Init
<1>1. TypeOK
  BY DEF TypeOK, Numbers, Logs
<1>2. IsFiniteSet({}) /\ Cardinality({}) = 0 /\ WriteBuffer \in Nat
  BY FS_EmptySet, StoreAssumption
<1>3. HistoryOK
  <2>1. Logs = {} /\ mem = {} /\ used = {} /\ home = {} /\ acked = {} /\ pend = NULL
    BY DEF Logs
  <2>2. dropped \in BOOLEAN /\ forces \in Nat
    OBVIOUS
  <2> HIDE DEF Init
  <2> QED BY <1>2, <2>1, <2>2 DEF HistoryOK, Numbers
<1>4. ControlOK /\ CountersOK
  BY DEF ControlOK, CountersOK, Idle, Blank, Running, Replaying
<1>5. LogsOK /\ SequenceOK
  BY DEF LogsOK, SequenceOK, Logs, Running, Replaying
<1>6. LoadOK
  BY <1>2 DEF LoadOK, Logs
<1>7. ReplayOK /\ SessionOK
  BY DEF ReplayOK, SessionOK, Running, Replaying
<1> QED BY <1>1, <1>3, <1>4, <1>5, <1>6, <1>7 DEF StoreInv, SingleOK

(* Every step keeps it. *)
LEMMA StoreStep ==
    ASSUME StoreInv, [Next]_vars
    PROVE  StoreInv'
<1> USE DEF StoreInv
<1>1. TypeOK' /\ HistoryOK'
  BY TypeStep, HistoryStep
<1>2. ControlOK' /\ CountersOK'
  BY ControlStep, CountersStep
<1>3. LogsOK' /\ SequenceOK'
  BY LogsStep, SequenceStep
<1>4. SingleOK'
  <2> SUFFICES ASSUME Single' PROVE LoadOK' /\ ReplayOK' /\ SessionOK'
    BY DEF SingleOK
  <2>1. Single /\ LoadOK /\ ReplayOK /\ SessionOK
    BY SingleBack DEF SingleOK
  <2> QED BY <2>1, LoadStep, ReplayStep, SessionStep
<1> QED BY <1>1, <1>2, <1>3, <1>4

(* The invariant holds of the files and of the process through every       *)
(* opening, crash and failure.                                             *)
THEOREM StoreInvariant == Spec => []StoreInv
<1>1. Init => StoreInv
  BY StoreInit
<1>2. StoreInv /\ [Next]_vars => StoreInv'
  BY StoreStep
<1> QED BY <1>1, <1>2, PTL DEF Spec

(* The variables of the files and of the process keep their types.         *)
THEOREM StoreTypes == Spec => []TypeOK
<1>1. StoreInv => TypeOK
  BY DEF StoreInv
<1> QED BY <1>1, StoreInvariant, PTL

(* The counters of log files never go back: DB::Open and MakeRoomForWrite  *)
(* never truncate a log that has entries, and LogNumber() only goes up.    *)
THEOREM LogNumbers == Spec => LogNumbersSound
<1>1. StoreInv /\ [Next]_vars =>
        [~dropped => \A n \in Logs : n \in DOMAIN wal' => wal[n] \subseteq wal'[n]]_vars
  BY GrowStep DEF StoreInv
<1>2. StoreInv /\ [Next]_vars =>
        [/\ ~dropped' => mlog' >= mlog
         /\ mode # "closed" /\ mode' # "closed" => lognum' >= lognum
         /\ lognum' # lognum /\ mode' # "closed" => lognum' < nextfile']_vars
  BY NumberStep DEF StoreInv
<1> QED BY <1>1, <1>2, StoreInvariant, PTL DEF Spec, LogNumbersSound, LogsOnlyGrow, LogNumberGrows

(* Write never gives a sequence number out twice, whatever crashes and     *)
(* recoveries come between.                                                *)
THEOREM FreshNumbers == Spec => NumbersFresh
<1>1. StoreInv /\ [Next]_vars =>
        [~dropped /\ pend' # pend /\ pend' # NULL => pend' \notin used]_vars
  BY FreshStep DEF StoreInv
<1> QED BY <1>1, StoreInvariant, PTL DEF Spec, NumbersFresh

-----------------------------------------------------------------------------
(* A set with at most one element. *)
LEMMA AtMostOne ==
    ASSUME NEW S, IsFiniteSet(S), Cardinality(S) <= 1
    PROVE  \A m, n \in S : m = n
<1>1. Cardinality(S) \in Nat
  BY FS_CardinalityType
<1>2. CASE Cardinality(S) = 0
  BY <1>2, FS_EmptySet
<1>3. CASE Cardinality(S) = 1
  <2>1. PICK x : S = {x}
    BY <1>3, FS_Singleton
  <2> QED BY <2>1
<1> QED BY <1>1, <1>2, <1>3

(* The facts about the only load are facts about a bulk load. *)
LEMMA OneLoadSingle ==
    ASSUME StoreInv, OneLoad
    PROVE  Single /\ LoadOK /\ SessionOK
<1>1. \A m, n \in home : m = n
  BY AtMostOne DEF StoreInv, HistoryOK, OneLoad, BulkLoad
<1>2. Single
  BY <1>1 DEF Single, OneLoad, BulkLoad
<1> QED BY <1>2 DEF StoreInv, SingleOK

(* The load is on disk. *)
LEMMA LoadSurvives ==
    ASSUME StoreInv, OneLoad, NEW e \in acked
    PROVE  Survives(e)
<1>1. LoadOK /\ e \in used /\ used # NULL
  BY OneLoadSingle, NotNull DEF StoreInv, HistoryOK
<1>2. CASE InLog
  <2>1. PICK h \in Logs : h \in home /\ (manifest = "ok" => h >= mlog)
    BY <1>2 DEF InLog
  <2>2. e \in wal[h]
    BY <1>1, <2>1 DEF LoadOK
  <2> QED BY <2>1, <2>2 DEF Survives
<1>3. CASE InTable /\ (manifest = "ok" => used \in mfiles)
  BY <1>1, <1>3 DEF Survives, InTable
<1> QED BY <1>1, <1>2, <1>3 DEF LoadOK

(* An open session reads the load. *)
LEMMA LoadFound ==
    ASSUME StoreInv, OneLoad, pc = "open", NEW e \in acked
    PROVE  Found(e)
<1>1. /\ LoadOK /\ SessionOK
      /\ e \in used /\ used # NULL /\ e # pend
  BY OneLoadSingle, NotNull DEF StoreInv, HistoryOK, LoadOK
<1>2. Loading \/ Flushing \/ Stored
  BY <1>1 DEF SessionOK, Running
<1>3. CASE Loading
  BY <1>1, <1>3 DEF Loading, Found
<1>4. CASE Flushing
  BY <1>1, <1>4 DEF Flushing, Found
<1>5. CASE Stored
  <2>1. used \in files /\ ldb = used /\ ldbok /\ cached \in {NULL, used}
    BY <1>1, <1>5 DEF Stored, InTable, LoadOK
  <2>2. TableHas(e, used)
    BY <1>1, <2>1 DEF TableHas
  <2> QED BY <1>1, <2>1, <2>2 DEF Found
<1> QED BY <1>2, <1>3, <1>4, <1>5

(* A bulk load stays on disk through every crash, every failure that       *)
(* leaves the manifest and every recovery, and every session reads it.     *)
THEOREM LoadKept == Spec => []OneLoadKept
<1>1. StoreInv => OneLoadKept
  BY LoadSurvives, LoadFound DEF OneLoadKept, OneLoadSurvives, OneLoadReadable
<1> QED BY <1>1, StoreInvariant, PTL
=============================================================================
