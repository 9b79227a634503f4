-------------------------- MODULE DBImplDataProofs --------------------------
(***************************************************************************)
(* The data of DBImpl, for any number of callers, any sizes and any number *)
(* of failures: level 0 stays bounded, no sequence number is given to two  *)
(* entries, what a Write returns is true and is kept, and what a Get finds *)
(* is consistent.                                                          *)
(***************************************************************************)
EXTENDS DBImplProofs, FiniteSetTheorems

(* pcs of the background thread inside CompactMemTable. *)
Flushing == {"build", "built", "apply", "applied"}

(* The files: the logs of mem_ and imm_ exist and are not yet obsolete,    *)
(* CompactMemTable runs only while there is an imm_, so MakeRoomForWrite   *)
(* opens no log meanwhile and the edit names the log in use.               *)
FlushInv ==
    /\ logno < nextfile /\ logno \in logs /\ minlog <= logno
    /\ imm # NULL => imm < logno /\ imm \in logs /\ minlog <= imm
    /\ pc[BG] \in Flushing => imm # NULL
    /\ pc[BG] \in {"apply", "applied"} => editlog = logno
    /\ l0 <= L0Stop /\ (imm # NULL => l0 < L0Stop)

-----------------------------------------------------------------------------
(* A step that leaves the files alone. *)
LEMMA FlushFrame ==
  ASSUME FlushInv, UNCHANGED <<logno, nextfile, minlog, logs, imm, l0, editlog>>,
         pc'[BG] \in Flushing => pc[BG] = pc'[BG] \/ (pc'[BG] \notin {"apply", "applied"} /\ imm # NULL)
  PROVE  FlushInv'
  BY DEF FlushInv, Flushing

(* Of the steps of a writer only the switch of memtables touches files. *)
LEMMA WriterFiles ==
  ASSUME TypeOK, NEW w \in Writer, WriterStep(w), ~RoomSwitch(w)
  PROVE  UNCHANGED <<logno, nextfile, minlog, logs, imm, version, l0, editlog, pin>> /\ pc'[BG] = pc[BG]
  <1>0. pc'[BG] = pc[BG]
    BY WriterEffect
  <1> USE DEF store, levels, control, bg
  <1>1. CASE AwaitTurn(w) \/ TakeTurn(w) \/ ReturnDone(w)
    BY <1>0, <1>1 DEF AwaitTurn, TakeTurn, ReturnDone
  <1>2. CASE RoomError(w) \/ RoomDelay(w) \/ RoomWait(w) \/ RoomSwitchFail(w)
    BY <1>0, <1>2 DEF RoomError, RoomDelay, RoomWait, RoomSwitchFail
  <1>3. CASE RoomFound(w)
    BY <1>0, <1>3 DEF RoomFound
  <1>4. CASE GroupJoin(w) \/ GroupClose(w)
    BY <1>0, <1>4 DEF GroupJoin, GroupClose
  <1>5. CASE AddRecord(w) \/ AddRecordFail(w)
    BY <1>0, <1>5 DEF AddRecord, AddRecordFail
  <1>6. CASE SyncLog(w) \/ SyncLogFail(w)
    BY <1>0, <1>6 DEF SyncLog, SyncLogFail
  <1>7. CASE InsertEntry(w) \/ InsertDone(w)
    BY <1>0, <1>7 DEF InsertEntry, InsertDone
  <1>8. CASE Commit(w)
    BY <1>0, <1>8 DEF Commit
  <1>9. CASE Finish(w) \/ AwaitImm(w) \/ ReturnImm(w)
    BY <1>0, <1>9 DEF Finish, AwaitImm, ReturnImm
  <1> QED
    BY <1>1, <1>2, <1>3, <1>4, <1>5, <1>6, <1>7, <1>8, <1>9 DEF WriterStep

(* The full memtable becomes imm_ and a new log is opened. *)
LEMMA SwitchFlush ==
  ASSUME TypeOK, FlushInv, NEW w \in Writer, RoomSwitch(w)
  PROVE  FlushInv'
  <1>0. /\ logno \in Nat /\ nextfile \in Nat /\ minlog \in Nat /\ logs \subseteq Nat /\ l0 \in Nat
        /\ pc \in [Thread -> PCs] /\ BG \in Thread /\ L0Stop \in Nat /\ NULL \notin Nat
    BY ThreadAssumption, SizeAssumption DEF TypeOK, ThreadsOK, StoreOK, ControlOK, Thread
  <1>1. /\ imm = NULL /\ ~(l0 >= L0Stop)
        /\ logno' = nextfile /\ nextfile' = nextfile + 1 /\ logs' = logs \cup {nextfile}
        /\ imm' = logno /\ UNCHANGED <<minlog, l0, editlog>>
        /\ pc' = MaybeScheduleCompaction(pc, bgerr, imm', manual, l0, backlog)
    BY DEF RoomSwitch, MustWait, levels, control, bg
  <1>2. pc'[BG] \notin Flushing
    BY <1>0, <1>1 DEF MaybeScheduleCompaction, FlushInv, Flushing
  <1> QED
    BY <1>0, <1>1, <1>2 DEF FlushInv, Flushing

(* The table of imm_ is installed: the logs before the edit's are dropped. *)
LEMMA FlushedFlush ==
  ASSUME TypeOK, FlushInv, BgFlushed
  PROVE  FlushInv'
  <1>0. /\ logno \in Nat /\ nextfile \in Nat /\ logs \subseteq Nat /\ l0 \in Nat /\ L0Stop \in Nat
        /\ pc \in [Thread -> PCs] /\ BG \in Thread
    BY SizeAssumption DEF TypeOK, ThreadsOK, StoreOK, ControlOK, Thread
  <1>1. /\ pc[BG] = "applied" /\ imm' = NULL /\ minlog' = editlog /\ logs' = KeepLogs(editlog)
        /\ l0' \in {l0, l0 + 1} /\ UNCHANGED <<logno, nextfile, editlog>>
        /\ pc'[BG] \in {"work", "end"}
    BY <1>0 DEF BgFlushed, FlushReturns, Holds, bg
  <1>2. imm # NULL /\ editlog = logno /\ l0 < L0Stop /\ logno \in logs /\ logno < nextfile
    BY <1>1 DEF FlushInv, Flushing
  <1>3. logno \in logs'
    BY <1>0, <1>1, <1>2 DEF KeepLogs
  <1> QED
    BY <1>0, <1>1, <1>2, <1>3 DEF FlushInv, Flushing

(* A compaction is installed: level 0 shrinks or stays, obsolete logs go. *)
LEMMA CompactedFlush ==
  ASSUME TypeOK, FlushInv, BgCompacted
  PROVE  FlushInv'
  <1>0. /\ logno \in Nat /\ minlog \in Nat /\ logs \subseteq Nat /\ l0 \in Nat /\ L0Stop \in Nat
        /\ imm \in Nat \cup {NULL} /\ pc \in [Thread -> PCs] /\ BG \in Thread
    BY SizeAssumption DEF TypeOK, ThreadsOK, StoreOK, ControlOK, Thread
  <1>1. /\ l0' \in {0, l0} /\ logs' = KeepLogs(minlog) /\ pc'[BG] \in {"manualend", "end"}
        /\ UNCHANGED <<logno, nextfile, minlog, imm, editlog>>
    BY <1>0 DEF BgCompacted, AfterCompaction, control, bg
  <1>2. logno \in logs' /\ (imm # NULL => imm \in logs')
    BY <1>0, <1>1 DEF FlushInv, KeepLogs
  <1> QED
    BY <1>0, <1>1, <1>2 DEF FlushInv, Flushing

(* Every step keeps FlushInv. *)
LEMMA NextFlush ==
  ASSUME TypeOK, FlushInv, [Next]_vars
  PROVE  FlushInv'
  <1>0. /\ pc \in [Thread -> PCs] /\ BG \in Thread /\ BG # Closer
        /\ BG \notin Writer /\ BG \notin Reader /\ BG \notin Manual
    BY ThreadAssumption DEF TypeOK, ThreadsOK, Thread
  <1> USE DEF store, levels, control, bg
  <1>1. ASSUME NEW p \in Thread, Lock(p) PROVE FlushInv'
    BY <1>1, FlushFrame DEF Lock
  <1>2. ASSUME NEW w \in Writer, NEW sy, NEW b, Write(w, sy, b) PROVE FlushInv'
    <2>1. UNCHANGED <<logno, nextfile, minlog, logs, imm, l0, editlog>> /\ pc'[BG] = pc[BG]
      BY <1>0, <1>2 DEF Write
    <2> QED
      BY <2>1, FlushFrame
  <1>3. ASSUME NEW w \in Writer, WriterStep(w) PROVE FlushInv'
    <2>1. CASE RoomSwitch(w)
      BY <2>1, SwitchFlush
    <2>2. CASE ~RoomSwitch(w)
      <3>1. UNCHANGED <<logno, nextfile, minlog, logs, imm, l0, editlog>> /\ pc'[BG] = pc[BG]
        BY <1>3, <2>2, WriterFiles
      <3> QED
        BY <3>1, FlushFrame
    <2> QED
      BY <2>1, <2>2
  <1>4. ASSUME NEW r \in Reader, Get(r) \/ GetDone(r) PROVE FlushInv'
    <2>1. /\ UNCHANGED <<logno, nextfile, minlog, logs, imm, l0, editlog>>
          /\ pc'[BG] = pc[BG] \/ pc'[BG] = "start"
      BY <1>0, <1>4 DEF Get, GetDone, MaybeScheduleCompaction
    <2> QED
      BY <2>1, FlushFrame DEF Flushing
  <1>5. ASSUME NEW m \in Manual, CompactRange(m) \/ ManualStep(m) PROVE FlushInv'
    <2>1. /\ UNCHANGED <<logno, nextfile, minlog, logs, imm, l0, editlog>>
          /\ pc'[BG] = pc[BG] \/ pc'[BG] = "start"
      BY <1>0, <1>5 DEF CompactRange, ManualStep, ManualSubmit, ManualWait, ManualReturn, WaitOnBg,
                        MaybeScheduleCompaction
    <2> QED
      BY <2>1, FlushFrame DEF Flushing
  <1>6. CASE Close \/ CloserStep
    <2>1. UNCHANGED <<logno, nextfile, minlog, logs, imm, l0, editlog>> /\ pc'[BG] = pc[BG]
      BY <1>0, <1>6 DEF Close, CloserStep, CloseWait, CloseDone, WaitOnBg
    <2> QED
      BY <2>1, FlushFrame
  <1>7. CASE BgSkip \/ BgFlush \/ BgManualEmpty \/ BgManualWork \/ BgPick \/ BgWorkImm
    <2>1. /\ UNCHANGED <<logno, nextfile, minlog, logs, imm, l0, editlog>>
          /\ pc'[BG] \in {"end", "manualend", "work", "install"} \/ (pc'[BG] = "build" /\ imm # NULL)
      BY <1>0, <1>7 DEF BgSkip, BgFlush, BgManualEmpty, BgManualWork, BgPick, BgWorkImm, MayCompact
    <2> QED
      BY <2>1, FlushFrame DEF Flushing
  <1>8. CASE BgBuild \/ BgInstall \/ BgWorkEnd \/ BgInstallStart
    <2>1. /\ UNCHANGED <<logno, nextfile, minlog, logs, imm, l0, editlog>>
          /\ pc'[BG] \in {"installed", "worked", "install"} \/ (pc'[BG] = "built" /\ pc[BG] = "build")
      BY <1>0, <1>8 DEF BgBuild, BgInstall, BgIO, BgWorkEnd, BgInstallStart
    <2> QED
      BY <2>1, FlushFrame DEF FlushInv, Flushing
  <1>9. CASE BgBuilt
    <2>1. /\ UNCHANGED <<logno, nextfile, minlog, logs, imm, l0>> /\ editlog' = logno
          /\ pc'[BG] = "apply" /\ pc[BG] = "built"
      BY <1>0, <1>9 DEF BgBuilt, EditLogNumber, Holds
    <2> QED
      BY <2>1 DEF FlushInv, Flushing
  <1>10. CASE BgApply
    <2>1. /\ UNCHANGED <<logno, nextfile, minlog, logs, imm, l0, editlog>>
          /\ pc'[BG] = "applied" /\ pc[BG] = "apply"
      BY <1>0, <1>10 DEF BgApply, BgIO
    <2> QED
      BY <2>1 DEF FlushInv, Flushing
  <1>11. CASE BgFlushFails \/ BgCompactFails \/ BgManualEnd \/ BgEnd
    <2>1. /\ UNCHANGED <<logno, nextfile, minlog, logs, imm, l0, editlog>>
          /\ pc'[BG] \in {"work", "end", "manualend", "off", "start"}
      BY <1>0, <1>11 DEF BgFlushFails, FlushReturns, BgCompactFails, AfterCompaction, BgManualEnd, BgEnd,
                         MaybeScheduleCompaction
    <2> QED
      BY <2>1, FlushFrame DEF Flushing
  <1>12. CASE BgFlushed \/ BgCompacted
    BY <1>12, FlushedFlush, CompactedFlush
  <1>13. CASE Terminated \/ UNCHANGED vars
    BY <1>13, FlushFrame DEF Terminated, vars, threads
  <1> HIDE DEF store, levels, control, bg
  <1> QED
    BY <1>1, <1>2, <1>3, <1>4, <1>5, <1>6, <1>7, <1>8, <1>9, <1>10, <1>11, <1>12, <1>13
    DEF Next, BgStep

(* DB::Open leaves one log and no imm_. *)
LEMMA InitFlush == Init => FlushInv
  <1> SUFFICES ASSUME Init PROVE FlushInv
    OBVIOUS
  <1>1. /\ logno = 3 /\ nextfile = 4 /\ minlog = 3 /\ logs = {3} /\ imm = NULL /\ l0 \in 0..L0Stop
    BY DEF Init, AfterOpen, InitLog
  <1>2. pc[BG] \in {"off", "start"}
    BY DEF Init, AfterOpen, MaybeScheduleCompaction, Thread
  <1> QED
    BY <1>1, <1>2, SizeAssumption DEF FlushInv, Flushing

(* The files of every reachable state. *)
LEMMA FlushInductive == Spec => []FlushInv
  <1>1. TypeOK /\ FlushInv /\ [Next]_vars => FlushInv'
    BY NextFlush
  <1> QED
    BY <1>1, InitFlush, TypeCorrect, PTL DEF Spec

(* MakeRoomForWrite keeps level 0 within kL0_StopWritesTrigger for any     *)
(* value of the triggers: the count it tested cannot grow before the       *)
(* memtable it retired is flushed.                                         *)
THEOREM Level0Kept == Spec => []Level0Bounded
  <1>1. FlushInv => Level0Bounded
    BY DEF FlushInv, Level0Bounded
  <1> QED
    BY <1>1, FlushInductive, PTL

-----------------------------------------------------------------------------
(* pcs of a leader whose group has numbers that last_sequence does not     *)
(* cover yet, and all pcs of a leader that has a group.                    *)
Busy == {"group", "append", "sync", "insert", "commit"}
Formed == Busy \cup {"finish"}

InGroup(v, pcs) == \E w \in Writer : pc[w] \in pcs /\ v \in Popped(w)

(* The entries of a batch are numbered one after the other. *)
Numbered(v) ==
    call[v].batch # NULL => \E a \in Nat : seqs[v] = (a + 1)..(a + call[v].batch)

(* The numbers of a group lie above last_sequence, up to those of its last *)
(* member.                                                                 *)
GroupNumbers ==
    \A w \in Writer : pc[w] \in Busy =>
        /\ call[w].batch # NULL
        /\ lastseq <= hi[w]
        /\ \A v \in Popped(w) : seqs[v] \subseteq (lastseq + 1)..hi[w] /\ Numbered(v)

(* All other numbers are covered by last_sequence. *)
OldNumbers == \A v \in Writer : InGroup(v, Busy) \/ seqs[v] \subseteq 1..lastseq

(* A batch has no numbers before a leader takes it, and a NULL one never.  *)
FreshUnnumbered ==
    \A v \in Writer :
        pc[v] = "idle" \/ call[v].batch = NULL \/ (Waiting(v) /\ ~InGroup(v, Formed))
          => seqs[v] = {}

SeqInv == GroupNumbers /\ OldNumbers /\ FreshUnnumbered /\ SequenceUnique

-----------------------------------------------------------------------------
(* Only one writer leads. *)
LEMMA OnlyLeader ==
  ASSUME QueueInv, NEW w \in Writer, pc[w] \in Leading
  PROVE  \A v \in Writer : pc[v] \in Leading => v = w
  BY DEF QueueInv, LeaderGroup

(* The group of a leader: a prefix of the queue that starts with it. *)
LEMMA GroupMembers ==
  ASSUME TypeOK, QueueInv, NEW w \in Writer, pc[w] \in Leading
  PROVE  /\ last[w] \in Nat /\ Len(writers) \in Nat
         /\ 1 <= last[w] /\ last[w] <= Len(writers) /\ writers[1] = w
         /\ Popped(w) \subseteq Writer /\ w \in Popped(w)
         /\ \A v \in Popped(w) : Waiting(v)
         /\ \A i \in 1..Len(writers) : writers[i] \in Popped(w) <=> i <= last[w]
  <1>0. writers \in Seq(Writer) /\ last \in [Writer -> Nat]
    BY DEF TypeOK, QueueOK
  <1>1. /\ last[w] \in Nat /\ Len(writers) \in Nat
        /\ 1 <= last[w] /\ last[w] <= Len(writers) /\ writers[1] = w
    BY <1>0 DEF QueueInv, LeaderGroup
  <1>2. \A i \in 1..last[w] : i \in 1..Len(writers)
    BY <1>1
  <1>3. \A i \in 1..Len(writers) : writers[i] \in Writer /\ Waiting(writers[i])
    BY <1>0 DEF QueueInv, QueueIsWaiting
  <1>4. \A v \in Popped(w) : v \in Writer /\ Waiting(v)
    BY <1>2, <1>3 DEF Popped
  <1>5. w \in Popped(w)
    <2>1. 1 \in 1..last[w]
      BY <1>1
    <2> QED
      BY <1>1, <2>1 DEF Popped
  <1>6. ASSUME NEW i \in 1..Len(writers) PROVE writers[i] \in Popped(w) <=> i <= last[w]
    <2>1. i <= last[w] => i \in 1..last[w]
      BY <1>1
    <2>2. ASSUME writers[i] \in Popped(w) PROVE i <= last[w]
      <3>1. PICK j \in 1..last[w] : writers[i] = writers[j]
        BY <2>2 DEF Popped
      <3>2. i = j
        BY <1>2, <3>1 DEF QueueInv, QueuedOnce
      <3> QED
        BY <1>1, <3>1, <3>2
    <2> QED
      BY <2>1, <2>2 DEF Popped
  <1> QED
    BY <1>1, <1>4, <1>5, <1>6

(* The queue and the groups are as before. *)
LEMMA SeqFrame ==
  ASSUME TypeOK, QueueInv, SeqInv,
         UNCHANGED <<writers, call, done, last, hi, seqs, lastseq>>,
         \A v \in Writer : \/ pc'[v] = pc[v]
                           \/ pc[v] \in Busy /\ pc'[v] \in Busy
  PROVE  SeqInv'
  <1>1. \A v \in Writer : Popped(v)' = Popped(v) /\ Numbered(v)' = Numbered(v)
    BY DEF Popped, Numbered
  <1>2. \A v \in Writer : /\ pc'[v] \in Busy <=> pc[v] \in Busy
                          /\ pc'[v] \in Formed <=> pc[v] \in Formed
                          /\ pc'[v] = "idle" <=> pc[v] = "idle"
                          /\ Waiting(v)' <=> Waiting(v)
    BY DEF Busy, Formed, Waiting, Leading, Unlocked
  <1>3. \A v \in Writer : InGroup(v, Busy)' = InGroup(v, Busy) /\ InGroup(v, Formed)' = InGroup(v, Formed)
    BY <1>1, <1>2 DEF InGroup
  <1>4. GroupNumbers'
    <2> SUFFICES ASSUME NEW w \in Writer, pc[w] \in Busy
                 PROVE  /\ call[w].batch # NULL
                        /\ lastseq <= hi[w]
                        /\ \A v \in Popped(w) : seqs[v] \subseteq (lastseq + 1)..hi[w] /\ Numbered(v)'
      BY <1>1, <1>2 DEF GroupNumbers
    <2>1. pc[w] \in Leading
      BY DEF Busy, Leading, Unlocked
    <2>2. Popped(w) \subseteq Writer
      BY <2>1, GroupMembers
    <2> QED
      BY <1>1, <2>2 DEF SeqInv, GroupNumbers
  <1>5. OldNumbers' /\ FreshUnnumbered' /\ SequenceUnique'
    BY <1>2, <1>3 DEF SeqInv, OldNumbers, FreshUnnumbered, SequenceUnique
  <1> QED
    BY <1>4, <1>5 DEF SeqInv

(* A writer moves on without having a numbered group. *)
LEMMA SeqMove ==
  ASSUME TypeOK, QueueInv, SeqInv, NEW w \in Writer,
         UNCHANGED <<writers, call, done, last, hi, seqs, lastseq>>,
         \A v \in Writer \ {w} : pc'[v] = pc[v],
         pc[w] \notin Formed, pc'[w] \notin Busy \cup {"idle"}, Waiting(w)' => Waiting(w)
  PROVE  SeqInv'
  <1>1. \A v \in Writer : Popped(v)' = Popped(v) /\ Numbered(v)' = Numbered(v)
    BY DEF Popped, Numbered
  <1>2. \A v \in Writer : /\ pc'[v] \in Busy <=> pc[v] \in Busy
                          /\ pc[v] \in Formed => pc'[v] \in Formed
                          /\ pc'[v] = "idle" => pc[v] = "idle"
                          /\ Waiting(v)' => Waiting(v)
    BY DEF Busy, Formed, Waiting
  <1>3. \A v \in Writer : InGroup(v, Busy)' = InGroup(v, Busy) /\ (InGroup(v, Formed) => InGroup(v, Formed)')
    BY <1>1, <1>2 DEF InGroup
  <1>4. GroupNumbers'
    <2> SUFFICES ASSUME NEW u \in Writer, pc[u] \in Busy
                 PROVE  /\ call[u].batch # NULL
                        /\ lastseq <= hi[u]
                        /\ \A v \in Popped(u) : seqs[v] \subseteq (lastseq + 1)..hi[u] /\ Numbered(v)'
      BY <1>1, <1>2 DEF GroupNumbers
    <2>1. pc[u] \in Leading
      BY DEF Busy, Leading, Unlocked
    <2>2. Popped(u) \subseteq Writer
      BY <2>1, GroupMembers
    <2> QED
      BY <1>1, <2>2 DEF SeqInv, GroupNumbers
  <1>5. OldNumbers' /\ FreshUnnumbered' /\ SequenceUnique'
    BY <1>2, <1>3 DEF SeqInv, OldNumbers, FreshUnnumbered, SequenceUnique
  <1> QED
    BY <1>4, <1>5 DEF SeqInv

(* A new Writer is queued behind every group. *)
LEMMA AppendGroup ==
  ASSUME TypeOK, QueueInv, NEW w \in Writer, NEW sy, NEW b, Write(w, sy, b),
         NEW u \in Writer, pc[u] \in Leading
  PROVE  u # w /\ w \notin Popped(u) /\ Popped(u)' = Popped(u)
  <1>0. writers \in Seq(Writer) /\ last' = last /\ writers' = Append(writers, w) /\ pc[w] = "idle"
    BY DEF TypeOK, QueueOK, Write, group
  <1>1. /\ last[u] \in Nat /\ last[u] <= Len(writers) /\ Len(writers) \in Nat
        /\ \A v \in Popped(u) : Waiting(v)
    BY GroupMembers
  <1>2. ~Waiting(w) /\ pc[w] \notin Leading
    BY <1>0 DEF Waiting, Leading, Unlocked
  <1>3. \A i \in 1..last[u] : writers'[i] = writers[i]
    BY <1>0, <1>1
  <1> QED
    BY <1>0, <1>1, <1>2, <1>3 DEF Popped

(* Write queues a batch that has no numbers. *)
LEMMA WriteSeq ==
  ASSUME TypeOK, QueueInv, SeqInv, NEW w \in Writer, NEW sy, NEW b, Write(w, sy, b)
  PROVE  SeqInv'
  <1>0. pc \in [Thread -> PCs] /\ w \in Thread /\ Writer \subseteq Thread
        /\ call \in [Writer -> [sync : BOOLEAN, batch : Counts \cup {NULL}, late : BOOLEAN, asof : Nat]]
    BY DEF TypeOK, ThreadsOK, QueueOK, Thread
  <1>1. /\ pc[w] = "idle" /\ pc' = [pc EXCEPT ![w] = "check"]
        /\ UNCHANGED <<done, last, hi, seqs, lastseq>>
        /\ \A v \in Writer \ {w} : call'[v] = call[v]
    BY <1>0 DEF Write, group, store
  <1>2. pc'[w] = "check" /\ \A v \in Writer \ {w} : pc'[v] = pc[v]
    BY <1>0, <1>1
  <1>3. \A u \in Writer : pc[u] \in Leading => u # w /\ w \notin Popped(u) /\ Popped(u)' = Popped(u)
    BY AppendGroup
  <1>4. \A u \in Writer : (pc'[u] \in Busy <=> pc[u] \in Busy) /\ (pc'[u] \in Formed <=> pc[u] \in Formed)
    BY <1>1, <1>2 DEF Busy, Formed
  <1>5. \A u \in Writer : pc[u] \in Formed => pc[u] \in Leading
    BY DEF Busy, Formed, Leading, Unlocked
  <1>6. \A v \in Writer : InGroup(v, Busy)' = InGroup(v, Busy) /\ InGroup(v, Formed)' = InGroup(v, Formed)
    BY <1>3, <1>4, <1>5 DEF InGroup, Formed
  <1>7. seqs[w] = {}
    BY <1>1 DEF SeqInv, FreshUnnumbered
  <1>8. GroupNumbers'
    <2> SUFFICES ASSUME NEW u \in Writer, pc'[u] \in Busy
                 PROVE  /\ call'[u].batch # NULL
                        /\ lastseq <= hi[u]
                        /\ \A v \in Popped(u)' : seqs[v] \subseteq (lastseq + 1)..hi[u] /\ Numbered(v)'
      BY <1>1 DEF GroupNumbers
    <2>1. pc[u] \in Busy /\ pc[u] \in Leading /\ u # w /\ w \notin Popped(u) /\ Popped(u)' = Popped(u)
      BY <1>3, <1>4, <1>5 DEF Formed
    <2>2. Popped(u) \subseteq Writer
      BY <2>1, GroupMembers
    <2>3. \A v \in Popped(u) : Numbered(v)' = Numbered(v)
      BY <1>1, <2>1, <2>2 DEF Numbered
    <2> QED
      BY <1>1, <2>1, <2>2, <2>3 DEF SeqInv, GroupNumbers
  <1>9. OldNumbers' /\ SequenceUnique'
    BY <1>1, <1>6 DEF SeqInv, OldNumbers, SequenceUnique
  <1>10. FreshUnnumbered'
    <2> SUFFICES ASSUME NEW v \in Writer,
                        pc'[v] = "idle" \/ call'[v].batch = NULL \/ (Waiting(v)' /\ ~InGroup(v, Formed)')
                 PROVE  seqs[v] = {}
      BY <1>1 DEF FreshUnnumbered
    <2>1. CASE v = w
      BY <1>7, <2>1
    <2>2. CASE v # w
      <3>1. Waiting(v)' = Waiting(v)
        BY <1>1, <1>2, <2>2 DEF Waiting
      <3> QED
        BY <1>1, <1>2, <1>6, <2>2, <3>1 DEF SeqInv, FreshUnnumbered
    <2> QED
      BY <2>1, <2>2
  <1> QED
    BY <1>8, <1>9, <1>10 DEF SeqInv

(* BuildBatchGroup numbers the batch of the leader after last_sequence. *)
LEMMA FoundSeq ==
  ASSUME TypeOK, QueueInv, SeqInv, NEW w \in Writer, RoomFound(w), call[w].batch # NULL
  PROVE  SeqInv'
  <1>0. /\ pc \in [Thread -> PCs] /\ w \in Thread /\ Writer \subseteq Thread
        /\ lastseq \in Nat /\ call[w].batch \in Nat /\ seqs \in [Writer -> SUBSET Nat]
        /\ hi \in [Writer -> Nat] /\ last \in [Writer -> Nat] /\ writers \in Seq(Writer)
    BY BatchSize DEF TypeOK, ThreadsOK, QueueOK, StoreOK, Thread
  <1> DEFINE new == (lastseq + 1)..(lastseq + call[w].batch)
  <1>1. /\ pc[w] = "room" /\ pc' = [pc EXCEPT ![w] = "group"]
        /\ last' = [last EXCEPT ![w] = 1]
        /\ hi' = [hi EXCEPT ![w] = lastseq + call[w].batch]
        /\ seqs' = [seqs EXCEPT ![w] = new]
        /\ UNCHANGED <<writers, call, done, lastseq>>
    BY DEF RoomFound, Holds, store
  <1>2. pc'[w] = "group" /\ (\A v \in Writer \ {w} : pc'[v] = pc[v])
        /\ seqs'[w] = new /\ (\A v \in Writer \ {w} : seqs'[v] = seqs[v])
        /\ hi'[w] = lastseq + call[w].batch
    BY <1>0, <1>1
  <1>3. pc[w] \in Leading /\ last[w] = 1
    BY <1>1 DEF Leading, QueueInv, LeaderGroup
  <1>4. \A v \in Writer : pc[v] \in Leading => v = w
    BY <1>3, OnlyLeader
  <1>5. \A v \in Writer : pc[v] \notin Formed /\ (v # w => pc'[v] \notin Formed)
    BY <1>1, <1>2, <1>4 DEF Formed, Busy, Leading, Unlocked
  <1>6. Popped(w)' = {w}
    <2>1. last'[w] = 1 /\ writers'[1] = w
      BY <1>0, <1>1, <1>3, GroupMembers
    <2> QED
      BY <2>1 DEF Popped
  <1>7. \A v \in Writer : ~InGroup(v, Busy) /\ ~InGroup(v, Formed)
    BY <1>5 DEF InGroup, Formed
  <1>8. \A v \in Writer : (InGroup(v, Busy)' <=> v = w) /\ (InGroup(v, Formed)' <=> v = w)
    BY <1>2, <1>5, <1>6 DEF InGroup, Busy, Formed
  <1>9. \A v \in Writer : seqs[v] \subseteq 1..lastseq
    BY <1>7 DEF SeqInv, OldNumbers
  <1>10. GroupNumbers'
    <2>1. Numbered(w)'
      BY <1>0, <1>1, <1>2 DEF Numbered
    <2>2. lastseq <= hi'[w]
      BY <1>0, <1>2
    <2> QED
      BY <1>1, <1>2, <1>5, <1>6, <2>1, <2>2 DEF GroupNumbers, Formed
  <1>11. OldNumbers'
    BY <1>1, <1>2, <1>8, <1>9 DEF OldNumbers
  <1>12. FreshUnnumbered'
    <2> SUFFICES ASSUME NEW v \in Writer,
                        pc'[v] = "idle" \/ call[v].batch = NULL \/ (Waiting(v)' /\ ~InGroup(v, Formed)')
                 PROVE  seqs'[v] = {}
      BY <1>1 DEF FreshUnnumbered
    <2>1. v # w
      BY <1>2, <1>8
    <2>2. Waiting(v)' = Waiting(v)
      BY <1>1, <1>2, <2>1 DEF Waiting
    <2> QED
      BY <1>2, <1>7, <2>1, <2>2 DEF SeqInv, FreshUnnumbered
  <1>13. SequenceUnique'
    <2>1. \A v \in Writer : seqs[v] \cap new = {}
      BY <1>0, <1>9
    <2> HIDE DEF new
    <2> QED
      BY <1>2, <2>1 DEF SeqInv, SequenceUnique
  <1> QED
    BY <1>10, <1>11, <1>12, <1>13 DEF SeqInv

(* What joins a group: the writer behind it, which has no numbers. *)
LEMMA JoinMember ==
  ASSUME TypeOK, QueueInv, SeqInv, NEW w \in Writer, GroupJoin(w)
  PROVE  LET v == writers[last[w] + 1]
         IN  /\ v \in Writer /\ v # w /\ v \notin Popped(w) /\ Waiting(v) /\ pc[v] = "check"
             /\ seqs[v] = {} /\ Popped(w)' = Popped(w) \cup {v} /\ pc[w] \in Leading
  <1> DEFINE v == writers[last[w] + 1]
  <1>0. /\ writers \in Seq(Writer) /\ last \in [Writer -> Nat]
        /\ pc[w] = "group" /\ last[w] < Len(writers)
        /\ last' = [last EXCEPT ![w] = @ + 1] /\ writers' = writers
    BY DEF TypeOK, QueueOK, GroupJoin, Holds
  <1>1. pc[w] \in Leading
    BY <1>0 DEF Leading
  <1>2. /\ last[w] \in Nat /\ Len(writers) \in Nat /\ 1 <= last[w]
        /\ w \in Popped(w)
        /\ \A i \in 1..Len(writers) : writers[i] \in Popped(w) <=> i <= last[w]
    BY <1>1, GroupMembers
  <1>3. last[w] + 1 \in 1..Len(writers) /\ ~(last[w] + 1 <= last[w])
    BY <1>0, <1>2
  <1>4. v \in Writer /\ v \notin Popped(w) /\ Waiting(v)
    BY <1>0, <1>2, <1>3 DEF QueueInv, QueueIsWaiting
  <1>5. v # w
    BY <1>2, <1>4
  <1>6. pc[v] \notin Leading /\ pc[v] = "check"
    BY <1>1, <1>4, <1>5, OnlyLeader DEF Waiting
  <1>7. ~InGroup(v, Formed)
    <2> SUFFICES ASSUME NEW u \in Writer, pc[u] \in Formed, v \in Popped(u) PROVE FALSE
      BY DEF InGroup
    <2>1. u = w
      BY <1>1, OnlyLeader DEF Formed, Busy, Leading, Unlocked
    <2> QED
      BY <1>4, <2>1
  <1>8. seqs[v] = {}
    BY <1>4, <1>7 DEF SeqInv, FreshUnnumbered
  <1>9. Popped(w)' = Popped(w) \cup {v}
    <2>1. last'[w] = last[w] + 1
      BY <1>0
    <2>2. 1..(last[w] + 1) = (1..last[w]) \cup {last[w] + 1}
      BY <1>2
    <2> QED
      BY <1>0, <2>1, <2>2 DEF Popped
  <1> QED
    BY <1>1, <1>4, <1>5, <1>6, <1>8, <1>9

(* BuildBatchGroup numbers the next member after the last one. *)
LEMMA JoinSeq ==
  ASSUME TypeOK, QueueInv, SeqInv, NEW w \in Writer, GroupJoin(w)
  PROVE  SeqInv'
  <1>0. /\ writers[last[w] + 1] \in Writer /\ pc[w] = "group"
        /\ UNCHANGED <<pc, writers, call, done, lastseq>>
    BY JoinMember DEF GroupJoin, Holds, threads, store
  <1>v. PICK v \in Writer : v = writers[last[w] + 1]
    BY <1>0
  <1>1. /\ v \in Writer /\ v # w /\ v \notin Popped(w) /\ Waiting(v) /\ pc[v] = "check"
        /\ seqs[v] = {} /\ Popped(w)' = Popped(w) \cup {v} /\ pc[w] \in Leading
    BY <1>v, JoinMember
  <1>2. /\ pc[w] = "group" /\ UNCHANGED <<pc, writers, call, done, lastseq>>
        /\ IF call[v].batch = NULL
           THEN UNCHANGED <<hi, seqs>>
           ELSE /\ hi' = [hi EXCEPT ![w] = @ + call[v].batch]
                /\ seqs' = [seqs EXCEPT ![v] = (hi[w] + 1)..(hi[w] + call[v].batch)]
    BY <1>0, <1>v DEF GroupJoin
  <1>3. /\ lastseq \in Nat /\ hi \in [Writer -> Nat] /\ seqs \in [Writer -> SUBSET Nat]
        /\ hi[w] \in Nat
        /\ (call[v].batch # NULL => call[v].batch \in Nat)
    BY <1>1, BatchSize DEF TypeOK, QueueOK, StoreOK
  <1>4. Popped(w) \subseteq Writer
    BY <1>1, GroupMembers
  <1>5. pc[w] \in Busy /\ pc[w] \in Formed
    BY <1>2 DEF Busy, Formed
  <1>6. /\ lastseq <= hi[w] /\ call[w].batch # NULL
        /\ \A u \in Popped(w) : seqs[u] \subseteq (lastseq + 1)..hi[w] /\ Numbered(u)
    BY <1>5 DEF SeqInv, GroupNumbers
  <1>7. \A u \in Writer : pc[u] \in Formed => u = w
    BY <1>1, OnlyLeader DEF Formed, Busy, Leading, Unlocked
  <1>8. /\ hi'[w] \in Nat /\ hi[w] <= hi'[w]
        /\ seqs'[v] \subseteq (hi[w] + 1)..hi'[w]
        /\ \A u \in Writer \ {v} : seqs'[u] = seqs[u]
        /\ Numbered(v)'
        /\ call[v].batch = NULL => seqs'[v] = {}
    <2>1. CASE call[v].batch = NULL
      BY <1>1, <1>2, <1>3, <2>1 DEF Numbered
    <2>2. CASE call[v].batch # NULL
      <3>1. /\ hi' = [hi EXCEPT ![w] = @ + call[v].batch]
            /\ seqs' = [seqs EXCEPT ![v] = (hi[w] + 1)..(hi[w] + call[v].batch)]
            /\ call[v].batch \in Nat /\ call' = call
        BY <1>2, <1>3, <2>2
      <3>2. hi'[w] = hi[w] + call[v].batch
        BY <1>3, <3>1
      <3>3. seqs'[v] = (hi[w] + 1)..(hi[w] + call[v].batch) /\ \A u \in Writer \ {v} : seqs'[u] = seqs[u]
        BY <1>1, <1>3, <3>1
      <3>4. Numbered(v)'
        BY <1>3, <3>1, <3>3 DEF Numbered
      <3> QED
        BY <1>3, <2>2, <3>1, <3>2, <3>3, <3>4
    <2> QED
      BY <2>1, <2>2
  <1>9. \A u \in Writer \ {v} : /\ Numbered(u)' = Numbered(u)
                                /\ InGroup(u, Busy)' = InGroup(u, Busy)
                                /\ InGroup(u, Formed)' = InGroup(u, Formed)
    <2>1. \A u \in Writer \ {v} : Numbered(u)' = Numbered(u)
      BY <1>2, <1>8 DEF Numbered
    <2>2. \A u \in Writer \ {v} : InGroup(u, Busy)' = InGroup(u, Busy) /\ InGroup(u, Formed)' = InGroup(u, Formed)
      BY <1>1, <1>2, <1>5, <1>7 DEF InGroup, Formed
    <2> QED
      BY <2>1, <2>2
  <1>10. InGroup(v, Busy)' /\ InGroup(v, Formed)'
    BY <1>1, <1>2, <1>5 DEF InGroup
  <1>11. GroupNumbers'
    <2>1. ASSUME NEW u \in Popped(w)' PROVE seqs'[u] \subseteq (lastseq + 1)..hi'[w] /\ Numbered(u)'
      <3>1. CASE u = v
        BY <1>3, <1>6, <1>8, <3>1
      <3>2. CASE u # v
        <4>1. u \in Popped(w) /\ u \in Writer \ {v}
          BY <1>1, <1>4, <2>1, <3>2
        <4>2. seqs'[u] = seqs[u] /\ Numbered(u)'
          BY <1>6, <1>8, <1>9, <4>1
        <4> QED
          BY <1>3, <1>6, <1>8, <4>1, <4>2
      <3> QED
        BY <3>1, <3>2
    <2>2. lastseq <= hi'[w]
      BY <1>3, <1>6, <1>8
    <2> QED
      BY <1>2, <1>6, <1>7, <2>1, <2>2 DEF GroupNumbers, Formed
  <1>12. OldNumbers'
    BY <1>2, <1>8, <1>9, <1>10 DEF SeqInv, OldNumbers
  <1>13. FreshUnnumbered'
    <2> SUFFICES ASSUME NEW u \in Writer,
                        pc[u] = "idle" \/ call[u].batch = NULL \/ (Waiting(u)' /\ ~InGroup(u, Formed)')
                 PROVE  seqs'[u] = {}
      BY <1>2 DEF FreshUnnumbered
    <2>0. Waiting(u)' = Waiting(u)
      BY <1>2 DEF Waiting
    <2>1. CASE u = v
      BY <1>1, <1>8, <1>10, <2>1
    <2>2. CASE u # v
      BY <1>8, <1>9, <2>0, <2>2 DEF SeqInv, FreshUnnumbered
    <2> QED
      BY <2>1, <2>2
  <1>14. SequenceUnique'
    <2>1. ASSUME NEW u \in Writer \ {v} PROVE seqs[u] \cap seqs'[v] = {}
      <3>1. seqs[u] \subseteq 1..hi[w]
        <4>1. CASE InGroup(u, Busy)
          <5>1. u \in Popped(w)
            BY <1>7, <4>1 DEF InGroup, Formed
          <5> QED
            BY <1>3, <1>6, <5>1
        <4>2. CASE ~InGroup(u, Busy)
          BY <1>3, <1>6, <4>2 DEF SeqInv, OldNumbers
        <4> QED
          BY <4>1, <4>2
      <3> QED
        BY <1>3, <1>8, <3>1
    <2> QED
      BY <1>8, <2>1 DEF SeqInv, SequenceUnique
  <1> QED
    BY <1>11, <1>12, <1>13, <1>14 DEF SeqInv

(* last_sequence moves past the group. *)
LEMMA CommitSeq ==
  ASSUME TypeOK, QueueInv, SeqInv, NEW w \in Writer, Commit(w)
  PROVE  SeqInv'
  <1>0. /\ pc \in [Thread -> PCs] /\ w \in Thread /\ Writer \subseteq Thread
        /\ lastseq \in Nat /\ hi[w] \in Nat
    BY DEF TypeOK, ThreadsOK, QueueOK, StoreOK, Thread
  <1>1. /\ pc[w] = "commit" /\ pc' = [pc EXCEPT ![w] = "finish"] /\ lastseq' = hi[w]
        /\ UNCHANGED <<writers, call, done, last, hi, seqs>>
    BY DEF Commit, Holds, NewLastSequence, queue, group
  <1>2. pc'[w] = "finish" /\ \A v \in Writer \ {w} : pc'[v] = pc[v]
    BY <1>0, <1>1
  <1>3. pc[w] \in Busy /\ pc[w] \in Leading
    BY <1>1 DEF Busy, Leading
  <1>4. \A v \in Writer : pc[v] \in Formed => v = w
    BY <1>3, OnlyLeader DEF Formed, Busy, Leading, Unlocked
  <1>5. \A v \in Writer : pc'[v] \notin Busy
    BY <1>2, <1>4 DEF Formed, Busy
  <1>6. \A v \in Writer : /\ pc'[v] \in Formed <=> pc[v] \in Formed
                          /\ pc'[v] = "idle" <=> pc[v] = "idle"
                          /\ Waiting(v)' <=> Waiting(v)
                          /\ Popped(v)' = Popped(v)
    BY <1>1, <1>2, <1>3 DEF Formed, Busy, Waiting, Leading, Unlocked, Popped
  <1>7. \A v \in Writer : InGroup(v, Formed)' = InGroup(v, Formed)
    BY <1>6 DEF InGroup
  <1>8. /\ lastseq <= hi[w]
        /\ \A v \in Popped(w) : seqs[v] \subseteq (lastseq + 1)..hi[w]
    BY <1>3 DEF SeqInv, GroupNumbers
  <1>9. ASSUME NEW v \in Writer PROVE seqs[v] \subseteq 1..hi[w]
    <2>1. CASE InGroup(v, Busy)
      <3>1. v \in Popped(w)
        BY <1>4, <2>1 DEF InGroup, Formed
      <3> QED
        BY <1>0, <1>8, <3>1
    <2>2. CASE ~InGroup(v, Busy)
      BY <1>0, <1>8, <2>2 DEF SeqInv, OldNumbers
    <2> QED
      BY <2>1, <2>2
  <1>10. GroupNumbers' /\ OldNumbers'
    BY <1>1, <1>5, <1>9 DEF GroupNumbers, OldNumbers
  <1>11. FreshUnnumbered' /\ SequenceUnique'
    BY <1>1, <1>6, <1>7 DEF SeqInv, FreshUnnumbered, SequenceUnique
  <1> QED
    BY <1>10, <1>11 DEF SeqInv

(* The group is popped. *)
LEMMA FinishSeq ==
  ASSUME TypeOK, QueueInv, SeqInv, NEW w \in Writer, Finish(w)
  PROVE  SeqInv'
  <1>0. pc \in [Thread -> PCs] /\ w \in Thread /\ Writer \subseteq Thread /\ done \in [Writer -> BOOLEAN]
    BY DEF TypeOK, ThreadsOK, QueueOK, Thread
  <1>1. /\ pc[w] = "finish" /\ pc' = [pc EXCEPT ![w] = AfterWrite(w, status[w])]
        /\ done' = [v \in Writer |-> done[v] \/ v \in Popped(w) \ {w}]
        /\ UNCHANGED <<call, hi, seqs, lastseq>>
    BY DEF Finish, Holds, group, store
  <1>2. pc'[w] \in {"immwait", "done"} /\ \A v \in Writer \ {w} : pc'[v] = pc[v]
    BY <1>0, <1>1 DEF AfterWrite
  <1>3. pc[w] \in Leading
    BY <1>1 DEF Leading
  <1>4. \A v \in Writer : pc[v] \in Leading => v = w
    BY <1>3, OnlyLeader
  <1>5. \A v \in Writer : pc[v] \notin Busy /\ pc'[v] \notin Formed
    BY <1>1, <1>2, <1>4 DEF Formed, Busy, Leading, Unlocked
  <1>6. \A v \in Writer : ~InGroup(v, Busy) /\ ~InGroup(v, Busy)'
    BY <1>5 DEF InGroup, Formed
  <1>7. GroupNumbers' /\ OldNumbers' /\ SequenceUnique'
    BY <1>1, <1>5, <1>6 DEF SeqInv, GroupNumbers, OldNumbers, SequenceUnique, Formed
  <1>8. FreshUnnumbered'
    <2> SUFFICES ASSUME NEW v \in Writer, pc'[v] = "idle" \/ call[v].batch = NULL \/ Waiting(v)'
                 PROVE  seqs[v] = {}
      BY <1>1 DEF FreshUnnumbered
    <2>1. CASE pc'[v] = "idle" \/ call[v].batch = NULL
      BY <1>2, <2>1 DEF SeqInv, FreshUnnumbered
    <2>2. CASE Waiting(v)'
      <3>1. v # w /\ pc'[v] = pc[v] /\ pc[v] = "check" /\ ~done'[v]
        BY <1>2, <1>4, <2>2 DEF Waiting, Leading, Unlocked
      <3>2. v \notin Popped(w) /\ Waiting(v)
        BY <1>0, <1>1, <3>1 DEF Waiting
      <3>3. ~InGroup(v, Formed)
        BY <1>4, <3>2 DEF InGroup, Formed, Busy, Leading, Unlocked
      <3> QED
        BY <3>2, <3>3 DEF SeqInv, FreshUnnumbered
    <2> QED
      BY <2>1, <2>2
  <1> QED
    BY <1>7, <1>8 DEF SeqInv

-----------------------------------------------------------------------------
(* The steps of readers, manual compactions, the background thread and the *)
(* destructor, and the acquisition of mutex_.                              *)
OtherStep ==
    \/ \E p \in Thread : Lock(p)
    \/ \E r \in Reader : Get(r) \/ GetDone(r)
    \/ \E m \in Manual : CompactRange(m) \/ ManualStep(m)
    \/ Close \/ CloserStep \/ BgStep \/ Terminated

(* The locals of the writers, and the entries they have written. *)
written == <<writers, call, done, status, last, hi, next, syncerr, seqs, lastseq,
             logged, synced, memt>>

(* Steps of others leave all that belongs to the writers alone, and record *)
(* an error only while no writer has the mutex.                            *)
LEMMA OtherEffect ==
  ASSUME TypeOK, OtherStep
  PROVE  /\ UNCHANGED written /\ logno' = logno
         /\ \A w \in Writer : pc'[w] = pc[w]
         /\ bgerr => bgerr'
         /\ mutex \in Writer => mutex' = mutex /\ bgerr' = bgerr
  <1>0. /\ pc \in [Thread -> PCs] /\ Writer \subseteq Thread /\ NULL \notin Thread
        /\ BG \notin Writer /\ Closer \notin Writer
        /\ Writer \cap Reader = {} /\ Writer \cap Manual = {}
        /\ bgerr \in BOOLEAN
    BY ThreadAssumption DEF TypeOK, ThreadsOK, ControlOK, Thread
  <1> USE DEF queue, group, store, control, written
  <1>1. ASSUME NEW p \in Thread, Lock(p)
        PROVE  /\ UNCHANGED <<written, logno, bgerr, pc>>
               /\ mutex \notin Writer
    BY <1>0, <1>1 DEF Lock
  <1>2. ASSUME NEW r \in Reader, Get(r) \/ GetDone(r)
        PROVE  /\ UNCHANGED <<written, logno, bgerr>> /\ mutex \notin Writer
               /\ \A w \in Writer : pc'[w] = pc[w]
    <2>1. CASE Get(r)
      BY <1>0, <2>1 DEF Get
    <2>2. CASE GetDone(r)
      BY <1>0, <2>2 DEF GetDone, MaybeScheduleCompaction
    <2> QED
      BY <1>2, <2>1, <2>2
  <1>3. ASSUME NEW m \in Manual, CompactRange(m) \/ ManualStep(m)
        PROVE  /\ UNCHANGED <<written, logno, bgerr>> /\ mutex \notin Writer
               /\ \A w \in Writer : pc'[w] = pc[w]
    <2>1. CASE CompactRange(m)
      BY <1>0, <2>1 DEF CompactRange
    <2>2. CASE ManualSubmit(m)
      BY <1>0, <2>2 DEF ManualSubmit, MaybeScheduleCompaction, Holds
    <2>3. CASE ManualWait(m)
      BY <1>0, <2>3 DEF ManualWait, WaitOnBg, Holds
    <2>4. CASE ManualReturn(m)
      BY <1>0, <2>4 DEF ManualReturn, Holds
    <2> QED
      BY <1>3, <2>1, <2>2, <2>3, <2>4 DEF ManualStep
  <1>4. CASE Close \/ CloserStep
    <2>1. /\ UNCHANGED <<written, logno, bgerr>> /\ mutex \notin Writer
          /\ \A w \in Writer : pc'[w] = pc[w]
      BY <1>0, <1>4 DEF Close, CloserStep, CloseWait, CloseDone, WaitOnBg, Holds
    <2> QED
      BY <2>1
  <1>5. CASE BgStep
    <2>1. \A w \in Writer : pc'[w] = pc[w]
      BY <1>0, <1>5, BgEffect
    <2>2. CASE BgSkip \/ BgFlush \/ BgManualEmpty \/ BgManualWork \/ BgPick
      <3>1. UNCHANGED <<written, logno, bgerr>> /\ mutex = BG
        BY <2>2 DEF BgSkip, BgFlush, BgManualEmpty, BgManualWork, BgPick, MayCompact, Holds
      <3> QED
        BY <1>0, <2>1, <3>1
    <2>3. CASE BgBuild \/ BgApply \/ BgInstall \/ BgWorkEnd
      <3>1. UNCHANGED <<written, logno, bgerr, mutex>>
        BY <2>3 DEF BgBuild, BgApply, BgInstall, BgIO, BgWorkEnd
      <3> QED
        BY <1>0, <2>1, <3>1
    <2>4. CASE BgWorkImm
      <3>1. UNCHANGED <<written, logno, bgerr, mutex>>
        BY <2>4 DEF BgWorkImm
      <3> QED
        BY <1>0, <2>1, <3>1
    <2>5. CASE BgBuilt \/ BgInstallStart \/ BgManualEnd \/ BgEnd
      <3>1. UNCHANGED <<written, logno, bgerr>> /\ mutex = BG
        BY <2>5 DEF BgBuilt, BgInstallStart, BgManualEnd, BgEnd, Holds
      <3> QED
        BY <1>0, <2>1, <3>1
    <2>6. CASE BgFlushFails \/ BgFlushed
      <3>1. UNCHANGED <<written, logno>> /\ mutex = BG /\ (bgerr => bgerr')
        BY <1>0, <2>6 DEF BgFlushFails, BgFlushed, FlushReturns, Holds
      <3> QED
        BY <1>0, <2>1, <3>1
    <2>7. CASE BgCompactFails \/ BgCompacted
      <3>1. UNCHANGED <<written, logno>> /\ mutex = BG /\ (bgerr => bgerr')
        BY <1>0, <2>7 DEF BgCompactFails, RecordBackgroundError, BgCompacted, Holds
      <3> QED
        BY <1>0, <2>1, <3>1
    <2> QED
      BY <1>5, <2>2, <2>3, <2>4, <2>5, <2>6, <2>7 DEF BgStep
  <1>6. CASE Terminated
    BY <1>6 DEF Terminated, vars, threads
  <1> HIDE DEF queue, group, store, control, written
  <1> QED
    BY <1>0, <1>1, <1>2, <1>3, <1>4, <1>5, <1>6 DEF OtherStep

(* Steps of a writer that only wait, or switch memtables. *)
WaitStep(w) == AwaitTurn(w) \/ RoomDelay(w) \/ RoomWait(w) \/ RoomSwitch(w) \/ AwaitImm(w)

(* A writer that waits for its turn, for room or for imm_ leaves the queue *)
(* and the data alone.                                                     *)
LEMMA WaitEffect ==
  ASSUME TypeOK, NEW w \in Writer, WaitStep(w)
  PROVE  /\ UNCHANGED <<written, bgerr>>
         /\ \A v \in Writer : pc'[v] = pc[v]
         /\ mutex = w /\ pc[w] \in {"check", "room", "immwait"}
         /\ logno' = logno \/ RoomSwitch(w)
  <1>0. /\ pc \in [Thread -> PCs] /\ Writer \subseteq Thread /\ BG \notin Writer
    BY ThreadAssumption DEF TypeOK, ThreadsOK, Thread
  <1> USE DEF queue, group, store, control, written, Holds
  <1>1. CASE AwaitTurn(w)
    BY <1>1 DEF AwaitTurn
  <1>2. CASE RoomDelay(w)
    BY <1>2 DEF RoomDelay
  <1>3. CASE RoomWait(w)
    BY <1>3 DEF RoomWait, WaitOnBg
  <1>4. CASE RoomSwitch(w)
    BY <1>0, <1>4 DEF RoomSwitch, MaybeScheduleCompaction
  <1>5. CASE AwaitImm(w)
    BY <1>5 DEF AwaitImm, WaitOnBg
  <1> QED
    BY <1>1, <1>2, <1>3, <1>4, <1>5 DEF WaitStep

(* The kinds of steps. *)
LEMMA StepKinds ==
  ASSUME [Next]_vars
  PROVE  \/ \E w \in Writer, sy \in BOOLEAN, b \in Counts \cup {NULL} : Write(w, sy, b)
         \/ \E w \in Writer :
               \/ WaitStep(w) \/ TakeTurn(w) \/ ReturnDone(w)
               \/ RoomError(w) \/ RoomSwitchFail(w) \/ RoomFound(w)
               \/ GroupJoin(w) \/ GroupClose(w)
               \/ AddRecord(w) \/ AddRecordFail(w) \/ SyncLog(w) \/ SyncLogFail(w)
               \/ InsertEntry(w) \/ InsertDone(w) \/ Commit(w) \/ Finish(w)
               \/ ReturnImm(w)
         \/ OtherStep
         \/ UNCHANGED vars
  BY DEF Next, WriterStep, WaitStep, OtherStep

(* Every step keeps the numbers in order. *)
LEMMA NextSeq ==
  ASSUME TypeOK, QueueInv, SeqInv, [Next]_vars
  PROVE  SeqInv'
  <1>0. /\ pc \in [Thread -> PCs] /\ Writer \subseteq Thread
    BY DEF TypeOK, ThreadsOK, Thread
  <1> USE DEF queue, group, store
  <1>1. ASSUME NEW w \in Writer, NEW sy, NEW b, Write(w, sy, b) PROVE SeqInv'
    BY <1>1, WriteSeq
  <1>2. ASSUME NEW w \in Writer, WaitStep(w) PROVE SeqInv'
    BY <1>2, WaitEffect, SeqFrame DEF written
  <1>3. ASSUME NEW w \in Writer, TakeTurn(w) PROVE SeqInv'
    <2>1. /\ pc[w] = "check" /\ ~done[w] /\ pc'[w] = "room"
          /\ UNCHANGED <<writers, call, done, last, hi, seqs, lastseq>>
          /\ \A v \in Writer \ {w} : pc'[v] = pc[v]
      BY <1>0, <1>3 DEF TakeTurn, Holds
    <2>2. Waiting(w) /\ pc[w] \notin Formed /\ pc'[w] \notin Busy \cup {"idle"}
      BY <2>1 DEF Waiting, Formed, Busy
    <2> QED
      BY <2>1, <2>2, SeqMove
  <1>4. ASSUME NEW w \in Writer, ReturnDone(w) \/ ReturnImm(w) PROVE SeqInv'
    <2>1. /\ pc[w] \in {"check", "immwait"} /\ pc'[w] \in {"immwait", "done"}
          /\ UNCHANGED <<writers, call, done, last, hi, seqs, lastseq>>
          /\ \A v \in Writer \ {w} : pc'[v] = pc[v]
      BY <1>0, <1>4 DEF ReturnDone, ReturnImm, AfterWrite, Holds
    <2>2. ~Waiting(w)' /\ pc[w] \notin Formed /\ pc'[w] \notin Busy \cup {"idle"}
      BY <2>1 DEF Waiting, Formed, Busy, Leading, Unlocked
    <2> QED
      BY <2>1, <2>2, SeqMove
  <1>5. ASSUME NEW w \in Writer,
               RoomError(w) \/ RoomSwitchFail(w) \/ (RoomFound(w) /\ call[w].batch = NULL)
        PROVE  SeqInv'
    <2>1. /\ pc[w] = "room" /\ pc'[w] = "finish"
          /\ UNCHANGED <<writers, call, done, last, hi, seqs, lastseq>>
          /\ \A v \in Writer \ {w} : pc'[v] = pc[v]
      BY <1>0, <1>5 DEF RoomError, RoomSwitchFail, RoomFound, Holds
    <2>2. Waiting(w) /\ pc[w] \notin Formed /\ pc'[w] \notin Busy \cup {"idle"}
      BY <2>1 DEF Waiting, Formed, Busy, Leading
    <2> QED
      BY <2>1, <2>2, SeqMove
  <1>6. ASSUME NEW w \in Writer, RoomFound(w) PROVE SeqInv'
    BY <1>5, <1>6, FoundSeq
  <1>7. ASSUME NEW w \in Writer, GroupJoin(w) PROVE SeqInv'
    BY <1>7, JoinSeq
  <1>8. ASSUME NEW w \in Writer,
               \/ GroupClose(w) \/ AddRecord(w) \/ AddRecordFail(w) \/ SyncLog(w) \/ SyncLogFail(w)
               \/ InsertEntry(w) \/ InsertDone(w)
        PROVE  SeqInv'
    <2>1. /\ pc[w] \in Busy /\ pc'[w] \in Busy
          /\ UNCHANGED <<writers, call, done, last, hi, seqs, lastseq>>
          /\ \A v \in Writer \ {w} : pc'[v] = pc[v]
      <3> USE DEF Busy
      <3>1. CASE GroupClose(w)
        BY <1>0, <3>1 DEF GroupClose, Holds
      <3>2. CASE AddRecord(w) \/ AddRecordFail(w)
        BY <1>0, <3>2 DEF AddRecord, AddRecordFail
      <3>3. CASE SyncLog(w) \/ SyncLogFail(w)
        BY <1>0, <3>3 DEF SyncLog, SyncLogFail
      <3>4. CASE InsertEntry(w) \/ InsertDone(w)
        BY <1>0, <3>4 DEF InsertEntry, InsertDone, threads
      <3> QED
        BY <1>8, <3>1, <3>2, <3>3, <3>4
    <2> QED
      BY <2>1, SeqFrame
  <1>9. ASSUME NEW w \in Writer, Commit(w) PROVE SeqInv'
    BY <1>9, CommitSeq
  <1>10. ASSUME NEW w \in Writer, Finish(w) PROVE SeqInv'
    BY <1>10, FinishSeq
  <1>11. CASE OtherStep
    BY <1>11, OtherEffect, SeqFrame DEF written
  <1>12. CASE UNCHANGED vars
    BY <1>12, SeqFrame DEF vars, threads
  <1> HIDE DEF queue, group, store
  <1> QED
    BY <1>1, <1>2, <1>3, <1>4, <1>5, <1>6, <1>7, <1>8, <1>9, <1>10, <1>11, <1>12, StepKinds

(* No batch is numbered at first. *)
LEMMA InitSeq == Init => SeqInv
  <1> SUFFICES ASSUME Init PROVE SeqInv
    OBVIOUS
  <1>1. \A w \in Writer : pc[w] = "idle" /\ seqs[w] = {}
    BY ThreadAssumption DEF Init, AfterOpen, MaybeScheduleCompaction, Thread
  <1> QED
    BY <1>1 DEF SeqInv, GroupNumbers, OldNumbers, FreshUnnumbered, SequenceUnique, Busy

(* The numbers of every reachable state. *)
LEMMA SeqInductive == Spec => []SeqInv
  <1>1. TypeOK /\ QueueInv /\ SeqInv /\ [Next]_vars => SeqInv'
    BY NextSeq
  <1> QED
    BY <1>1, InitSeq, TypeCorrect, Inductive, PTL DEF Spec

(* For any number of writers and failures no two batches share a sequence  *)
(* number: Write moves last_sequence past a group whether or not the group *)
(* was written, and BuildBatchGroup numbers only what is in the queue.     *)
THEOREM SequencesUnique == Spec => []SequenceUnique
  <1>1. SeqInv => SequenceUnique
    BY DEF SeqInv
  <1> QED
    BY <1>1, SeqInductive, PTL

-----------------------------------------------------------------------------
(* What a Write returns and what a Get finds. *)

(* An error that a caller of Write could have met is recorded, or will be  *)
(* by the leader that has the mutex next.                                  *)
LateKnown ==
    /\ \A w \in Writer : call[w].late => bgerr \/ \E v \in Writer : pc[v] = "commit" /\ syncerr[v]
    /\ \A w \in Writer : syncerr[w] => bgerr \/ pc[w] = "commit"

(* BuildBatchGroup runs with the mutex and without a recorded error, so no *)
(* late call joins a group.                                                *)
GroupInTime ==
    /\ \A w \in Writer : pc[w] = "group" => mutex = w /\ ~bgerr
    /\ \A w \in Writer : pc[w] \in Busy => \A v \in Popped(w) : ~call[v].late
    /\ \A w \in Writer : pc[w] = "finish" /\ status[w] => \A v \in Popped(w) : ~call[v].late

(* TEST_CompactMemTable waits for imm_ only after its Write returned OK.   *)
ForcedOK == \A w \in Writer : pc[w] = "immwait" => status[w] /\ call[w].batch = NULL

LateInv == LateKnown /\ GroupInTime /\ ForcedOK /\ FutureWritesFail

-----------------------------------------------------------------------------
(* Groups of leaders are in the queue. *)
LEMMA BusyLeads ==
  \A w \in Writer : pc[w] \in Formed => pc[w] \in Leading
  BY DEF Formed, Busy, Leading, Unlocked

(* Nothing happens to the calls, and no error is recorded under a leader   *)
(* that forms its group.                                                   *)
LEMMA LateFrame ==
  ASSUME LateInv, UNCHANGED <<writers, call, done, status, last, syncerr>>,
         \A v \in Writer : pc'[v] = pc[v],
         bgerr => bgerr',
         \A v \in Writer : pc[v] = "group" => mutex' = mutex /\ bgerr' = bgerr
  PROVE  LateInv'
  <1>1. \A v \in Writer : Popped(v)' = Popped(v) /\ Settled(v)' = Settled(v)
    BY DEF Popped, Settled
  <1>2. LateKnown'
    BY DEF LateInv, LateKnown
  <1>3. GroupInTime'
    BY <1>1 DEF LateInv, GroupInTime
  <1>4. ForcedOK' /\ FutureWritesFail'
    BY <1>1 DEF LateInv, ForcedOK, FutureWritesFail
  <1> QED
    BY <1>2, <1>3, <1>4 DEF LateInv

(* A writer moves on; a leader that gives up before it has a group fails.  *)
LEMMA LateMove ==
  ASSUME LateInv, NEW w \in Writer,
         UNCHANGED <<writers, call, done, last, bgerr>>,
         \A v \in Writer \ {w} : /\ pc'[v] = pc[v] /\ status'[v] = status[v]
                                 /\ syncerr'[v] = syncerr[v] /\ pc[v] # "group",
         pc[w] # "commit", pc'[w] # "group",
         syncerr[w] => syncerr'[w], syncerr'[w] => syncerr[w] \/ pc'[w] = "commit",
         pc'[w] \in Busy => pc[w] \in Busy,
         pc'[w] = "finish" => ~status'[w],
         pc'[w] = "immwait" => status'[w] /\ call[w].batch = NULL,
         (done[w] \/ pc'[w] \in {"done", "immwait"}) /\ call[w].late => ~status'[w]
  PROVE  LateInv'
  <1>1. \A v \in Writer : Popped(v)' = Popped(v)
    BY DEF Popped
  <1>2. LateKnown'
    BY DEF LateInv, LateKnown
  <1>3. GroupInTime'
    BY <1>1 DEF LateInv, GroupInTime
  <1>4. ForcedOK' /\ FutureWritesFail'
    BY DEF LateInv, ForcedOK, FutureWritesFail, Settled
  <1> QED
    BY <1>2, <1>3, <1>4 DEF LateInv

(* A call made after an error knows of it, and joins no group that exists. *)
LEMMA WriteLate ==
  ASSUME TypeOK, QueueInv, LateInv, NEW w \in Writer, NEW sy, NEW b, Write(w, sy, b)
  PROVE  LateInv'
  <1>0. /\ pc \in [Thread -> PCs] /\ w \in Thread /\ Writer \subseteq Thread
        /\ call \in [Writer -> [sync : BOOLEAN, batch : Counts \cup {NULL}, late : BOOLEAN, asof : Nat]]
    BY DEF TypeOK, ThreadsOK, QueueOK, Thread
  <1>1. /\ pc[w] = "idle" /\ pc' = [pc EXCEPT ![w] = "check"] /\ mutex = NULL
        /\ UNCHANGED <<done, status, last, syncerr, bgerr>>
        /\ call' = [call EXCEPT ![w] = [sync |-> sy, batch |-> b, asof |-> lastseq,
                                        late |-> bgerr \/ \E v \in Writer : syncerr[v]]]
    BY DEF Write, group, control
  <1>2. /\ pc'[w] = "check" /\ \A v \in Writer \ {w} : pc'[v] = pc[v] /\ call'[v] = call[v]
    BY <1>0, <1>1
  <1>3. call'[w].late = (bgerr \/ \E v \in Writer : syncerr[v])
    BY <1>0, <1>1
  <1>4. ~done[w]
    BY <1>1 DEF QueueInv, DoneCalls
  <1>5. w # NULL /\ \A v \in Writer : pc[v] # "group"
    BY <1>1, ThreadAssumption DEF LateInv, GroupInTime, Thread
  <1>6. LateKnown'
    BY <1>1, <1>2, <1>3 DEF LateInv, LateKnown
  <1>7. ASSUME NEW u \in Writer, pc'[u] \in Formed
        PROVE  pc[u] \in Formed /\ pc'[u] = pc[u] /\ Popped(u)' = Popped(u)
               /\ \A v \in Popped(u) : call'[v] = call[v]
    <2>1. u # w /\ pc'[u] = pc[u]
      BY <1>2, <1>7 DEF Formed, Busy
    <2>2. pc[u] \in Leading
      BY <1>7, <2>1, BusyLeads
    <2>3. w \notin Popped(u) /\ Popped(u)' = Popped(u) /\ Popped(u) \subseteq Writer
      BY <2>2, AppendGroup, GroupMembers
    <2> QED
      BY <1>2, <1>7, <2>1, <2>3
  <1>8. GroupInTime'
    <2>1. \A v \in Writer : pc'[v] # "group"
      BY <1>2, <1>5
    <2>2. ASSUME NEW u \in Writer, pc'[u] \in Busy, NEW v \in Popped(u)' PROVE ~call'[v].late
      BY <1>7, <2>2 DEF LateInv, GroupInTime, Formed
    <2>3. ASSUME NEW u \in Writer, pc'[u] = "finish", status'[u], NEW v \in Popped(u)'
          PROVE  ~call'[v].late
      BY <1>1, <1>7, <2>3 DEF LateInv, GroupInTime, Formed
    <2> QED
      BY <2>1, <2>2, <2>3 DEF GroupInTime
  <1>9. ForcedOK' /\ FutureWritesFail'
    BY <1>1, <1>2, <1>4 DEF LateInv, ForcedOK, FutureWritesFail, Settled
  <1> QED
    BY <1>6, <1>8, <1>9 DEF LateInv

(* A leader that finds room has met no error. *)
LEMMA FoundLate ==
  ASSUME TypeOK, QueueInv, LateInv, NEW w \in Writer, RoomFound(w)
  PROVE  LateInv'
  <1>0. pc \in [Thread -> PCs] /\ w \in Thread /\ Writer \subseteq Thread /\ last \in [Writer -> Nat]
    BY DEF TypeOK, ThreadsOK, QueueOK, Thread
  <1>1. /\ pc[w] = "room" /\ mutex = w /\ ~bgerr
        /\ UNCHANGED <<mutex, writers, call, done, status, syncerr, bgerr>>
        /\ last' = last \/ last' = [last EXCEPT ![w] = 1]
        /\ pc' = [pc EXCEPT ![w] = "finish"] \/ pc' = [pc EXCEPT ![w] = "group"]
    BY DEF RoomFound, Holds, control, group
  <1>2. pc'[w] \in {"finish", "group"} /\ \A v \in Writer \ {w} : pc'[v] = pc[v]
    BY <1>0, <1>1
  <1>3. pc[w] \in Leading /\ last[w] = 1 /\ last' = last
    BY <1>0, <1>1 DEF Leading, QueueInv, LeaderGroup
  <1>4. \A v \in Writer : pc[v] \in Leading => v = w
    BY <1>3, OnlyLeader
  <1>5. \A v \in Writer \ {w} : pc'[v] \notin Formed /\ pc[v] # "commit"
    BY <1>2, <1>4 DEF Formed, Busy, Leading, Unlocked
  <1>6. \A v \in Writer : ~call[v].late
    BY <1>1, <1>5 DEF LateInv, LateKnown
  <1>7. Popped(w)' = {w}
    <2>1. last'[w] = 1 /\ writers'[1] = w
      BY <1>1, <1>3, GroupMembers
    <2> QED
      BY <2>1 DEF Popped
  <1>8. LateKnown'
    BY <1>1, <1>2, <1>6 DEF LateInv, LateKnown
  <1>9. GroupInTime'
    BY <1>1, <1>2, <1>5, <1>6, <1>7 DEF GroupInTime, Formed, Busy
  <1>10. ForcedOK' /\ FutureWritesFail'
    BY <1>1, <1>2, <1>6 DEF LateInv, ForcedOK, FutureWritesFail
  <1> QED
    BY <1>8, <1>9, <1>10 DEF LateInv

(* Who joins a group is not late. *)
LEMMA JoinLate ==
  ASSUME TypeOK, QueueInv, SeqInv, LateInv, NEW w \in Writer, GroupJoin(w)
  PROVE  LateInv'
  <1>1. /\ pc[w] = "group" /\ UNCHANGED <<mutex, pc, writers, call, done, status, syncerr, bgerr>>
    BY DEF GroupJoin, Holds, threads, control
  <1>2. pc[w] \in Leading /\ Popped(w)' = Popped(w) \cup {writers[last[w] + 1]} /\ writers[last[w] + 1] \in Writer
    BY JoinMember
  <1>3. \A v \in Writer : pc[v] \in Formed => v = w
    BY <1>2, OnlyLeader, BusyLeads
  <1>4. Popped(w) \subseteq Writer
    BY <1>2, GroupMembers
  <1>5. mutex = w /\ ~bgerr /\ \A v \in Writer : pc[v] # "commit"
    BY <1>1, <1>3 DEF LateInv, GroupInTime, Formed, Busy
  <1>6. \A v \in Writer : ~call[v].late
    BY <1>5 DEF LateInv, LateKnown
  <1>7. LateKnown'
    BY <1>1 DEF LateInv, LateKnown
  <1>8. GroupInTime'
    BY <1>1, <1>2, <1>3, <1>4, <1>5, <1>6 DEF LateInv, GroupInTime, Formed, Busy
  <1>9. ForcedOK' /\ FutureWritesFail'
    BY <1>1, <1>6 DEF LateInv, ForcedOK, FutureWritesFail
  <1> QED
    BY <1>7, <1>8, <1>9 DEF LateInv

(* The leader records the error of its Sync with the mutex. *)
LEMMA CommitLate ==
  ASSUME TypeOK, QueueInv, LateInv, NEW w \in Writer, Commit(w)
  PROVE  LateInv'
  <1>0. pc \in [Thread -> PCs] /\ w \in Thread /\ Writer \subseteq Thread
    BY DEF TypeOK, ThreadsOK, Thread
  <1>1. /\ pc[w] = "commit" /\ pc' = [pc EXCEPT ![w] = "finish"]
        /\ bgerr' = (bgerr \/ syncerr[w])
        /\ UNCHANGED <<writers, call, done, status, last, syncerr>>
    BY DEF Commit, Holds, RecordBackgroundError, queue, group
  <1>2. pc'[w] = "finish" /\ \A v \in Writer \ {w} : pc'[v] = pc[v]
    BY <1>0, <1>1
  <1>3. pc[w] \in Leading /\ pc[w] \in Busy
    BY <1>1 DEF Leading, Busy
  <1>4. \A v \in Writer : pc[v] \in Formed => v = w
    BY <1>3, OnlyLeader, BusyLeads
  <1>5. \A v \in Writer \ {w} : pc'[v] \notin Formed /\ pc[v] # "commit"
    BY <1>2, <1>4 DEF Formed, Busy
  <1>6. LateKnown'
    BY <1>1, <1>2, <1>5 DEF LateInv, LateKnown
  <1>7. GroupInTime'
    BY <1>1, <1>2, <1>3, <1>5 DEF LateInv, GroupInTime, Formed, Busy, Popped
  <1>8. ForcedOK' /\ FutureWritesFail'
    BY <1>1, <1>2 DEF LateInv, ForcedOK, FutureWritesFail, Settled
  <1> QED
    BY <1>6, <1>7, <1>8 DEF LateInv

(* The members of a group get the status of their leader. *)
LEMMA FinishLate ==
  ASSUME TypeOK, QueueInv, LateInv, NEW w \in Writer, Finish(w)
  PROVE  LateInv'
  <1>0. /\ pc \in [Thread -> PCs] /\ w \in Thread /\ Writer \subseteq Thread
        /\ done \in [Writer -> BOOLEAN] /\ status \in [Writer -> BOOLEAN]
    BY DEF TypeOK, ThreadsOK, QueueOK, Thread
  <1>1. /\ pc[w] = "finish" /\ pc' = [pc EXCEPT ![w] = AfterWrite(w, status[w])]
        /\ done' = [v \in Writer |-> done[v] \/ v \in Popped(w) \ {w}]
        /\ status' = [v \in Writer |-> GroupStatus(w, v)]
        /\ UNCHANGED <<call, syncerr, bgerr>>
    BY DEF Finish, Holds, group, control
  <1>2. /\ pc'[w] \in {"immwait", "done"} /\ \A v \in Writer \ {w} : pc'[v] = pc[v]
        /\ pc'[w] = "immwait" => status[w] /\ call[w].batch = NULL
    BY <1>0, <1>1 DEF AfterWrite
  <1>3. pc[w] \in Leading
    BY <1>1 DEF Leading
  <1>4. \A v \in Writer : pc'[v] \notin Formed /\ pc[v] # "commit"
    BY <1>1, <1>2, <1>3, OnlyLeader, BusyLeads DEF Formed, Busy
  <1>5. w \in Popped(w) /\ (\A v \in Popped(w) : v \in Writer /\ Waiting(v))
    BY <1>3, GroupMembers
  <1>6. \A v \in Writer : status'[v] = IF v \in Popped(w) THEN status[w] ELSE status[v]
    BY <1>1 DEF GroupStatus
  <1>7. LateKnown'
    BY <1>1, <1>4 DEF LateInv, LateKnown
  <1>8. GroupInTime'
    BY <1>4 DEF GroupInTime, Formed, Busy
  <1>9. ForcedOK'
    <2> SUFFICES ASSUME NEW v \in Writer, pc'[v] = "immwait" PROVE status'[v] /\ call[v].batch = NULL
      BY <1>1 DEF ForcedOK
    <2>1. CASE v = w
      BY <1>2, <1>5, <1>6, <2>1
    <2>2. CASE v # w
      <3>1. pc[v] = "immwait"
        BY <1>2, <2>2
      <3>2. v \notin Popped(w)
        BY <1>5, <3>1 DEF Waiting, Leading, Unlocked
      <3> QED
        BY <1>6, <3>1, <3>2 DEF LateInv, ForcedOK
    <2> QED
      BY <2>1, <2>2
  <1>10. FutureWritesFail'
    <2> SUFFICES ASSUME NEW v \in Writer, Settled(v)', call[v].late PROVE ~status'[v]
      BY <1>1 DEF FutureWritesFail
    <2>1. CASE v \in Popped(w)
      BY <1>1, <1>6, <2>1 DEF LateInv, GroupInTime
    <2>2. CASE v \notin Popped(w)
      <3>1. Settled(v)
        BY <1>1, <1>2, <1>5, <2>2 DEF Settled
      <3> QED
        BY <1>6, <2>2, <3>1 DEF LateInv, FutureWritesFail
    <2> QED
      BY <2>1, <2>2
  <1> QED
    BY <1>7, <1>8, <1>9, <1>10 DEF LateInv

(* The leader goes on with its group, or gives up before it has one. *)
LEMMA LeaderEffect ==
  ASSUME TypeOK, NEW w \in Writer,
         \/ RoomError(w) \/ RoomSwitchFail(w) \/ GroupClose(w)
         \/ AddRecord(w) \/ AddRecordFail(w) \/ SyncLog(w) \/ SyncLogFail(w)
         \/ InsertEntry(w) \/ InsertDone(w)
  PROVE  /\ UNCHANGED <<writers, call, done, last, hi, seqs, lastseq, bgerr, logno, imm, version, pin>>
         /\ \A v \in Thread \ {w} : pc'[v] = pc[v]
         /\ \A v \in Writer \ {w} : status'[v] = status[v] /\ syncerr'[v] = syncerr[v] /\ next'[v] = next[v]
         /\ \/ pc[w] = "room" /\ pc'[w] = "finish" /\ ~status'[w] /\ UNCHANGED <<syncerr, next>>
            \/ pc[w] \in Busy \ {"commit"} /\ pc'[w] \in Busy \ {"group"}
         /\ syncerr[w] => syncerr'[w]
         /\ syncerr'[w] => syncerr[w] \/ pc'[w] = "commit"
  <1>0. /\ pc \in [Thread -> PCs] /\ w \in Thread
        /\ syncerr \in [Writer -> BOOLEAN] /\ status \in [Writer -> BOOLEAN] /\ next \in [Writer -> Nat]
    BY DEF TypeOK, ThreadsOK, QueueOK, Thread
  <1> USE <1>0 DEF queue, group, store, control, Busy
  <1>1. CASE RoomError(w)
    BY <1>1 DEF RoomError, Holds
  <1>2. CASE RoomSwitchFail(w)
    BY <1>2 DEF RoomSwitchFail, Holds
  <1>3. CASE GroupClose(w)
    BY <1>3 DEF GroupClose, Holds
  <1>4. CASE AddRecord(w)
    BY <1>4 DEF AddRecord
  <1>5. CASE AddRecordFail(w)
    BY <1>5 DEF AddRecordFail
  <1>6. CASE SyncLog(w)
    BY <1>6 DEF SyncLog
  <1>7. CASE SyncLogFail(w)
    BY <1>7 DEF SyncLogFail
  <1>8. CASE InsertEntry(w)
    BY <1>8 DEF InsertEntry, threads
  <1>9. CASE InsertDone(w)
    BY <1>9 DEF InsertDone
  <1> QED
    BY <1>1, <1>2, <1>3, <1>4, <1>5, <1>6, <1>7, <1>8, <1>9

(* Every step keeps LateInv. *)
LEMMA NextLate ==
  ASSUME TypeOK, QueueInv, SeqInv, LateInv, [Next]_vars
  PROVE  LateInv'
  <1>0. /\ pc \in [Thread -> PCs] /\ Writer \subseteq Thread /\ status \in [Writer -> BOOLEAN]
    BY DEF TypeOK, ThreadsOK, QueueOK, Thread
  <1>g. ASSUME NEW w \in Writer, mutex = w \/ pc[w] \in Leading, NEW v \in Writer \ {w}
        PROVE  pc[v] # "group"
    <2>1. pc[v] = "group" => mutex = v /\ pc[v] \in Leading
      BY DEF LateInv, GroupInTime, Leading
    <2> QED
      BY <1>g, <2>1, OnlyLeader
  <1>1. ASSUME NEW w \in Writer, NEW sy, NEW b, Write(w, sy, b) PROVE LateInv'
    BY <1>1, WriteLate
  <1>2. ASSUME NEW w \in Writer, WaitStep(w) PROVE LateInv'
    <2>1. /\ UNCHANGED <<writers, call, done, status, last, syncerr, bgerr>>
          /\ (\A v \in Writer : pc'[v] = pc[v]) /\ mutex = w /\ pc[w] \in {"check", "room", "immwait"}
      BY <1>2, WaitEffect DEF written
    <2>2. \A v \in Writer : pc[v] # "group"
      BY <1>g, <2>1
    <2> QED
      BY <2>1, <2>2, LateFrame
  <1>3. ASSUME NEW w \in Writer, TakeTurn(w) PROVE LateInv'
    <2>1. /\ pc[w] = "check" /\ mutex = w /\ pc'[w] = "room" /\ ~done[w]
          /\ UNCHANGED <<writers, call, done, status, last, bgerr, syncerr>>
          /\ \A v \in Writer \ {w} : pc'[v] = pc[v]
      BY <1>0, <1>3 DEF TakeTurn, Holds, group, control
    <2> QED
      BY <1>g, <2>1, LateMove DEF Busy
  <1>4. ASSUME NEW w \in Writer, ReturnDone(w) PROVE LateInv'
    <2>1. /\ pc[w] = "check" /\ mutex = w /\ pc'[w] = AfterWrite(w, status[w]) /\ done[w]
          /\ UNCHANGED <<writers, call, done, status, last, bgerr, syncerr>>
          /\ \A v \in Writer \ {w} : pc'[v] = pc[v]
      BY <1>0, <1>4 DEF ReturnDone, Holds, queue, group, control
    <2>2. /\ pc'[w] \in {"immwait", "done"} /\ (pc'[w] = "immwait" => status[w] /\ call[w].batch = NULL)
      BY <2>1 DEF AfterWrite
    <2>3. call[w].late => ~status[w]
      BY <2>1 DEF LateInv, FutureWritesFail, Settled
    <2> QED
      BY <1>g, <2>1, <2>2, <2>3, LateMove DEF Busy
  <1>5. ASSUME NEW w \in Writer, ReturnImm(w) PROVE LateInv'
    <2>1. /\ pc[w] = "immwait" /\ mutex = w /\ pc'[w] = "done"
          /\ UNCHANGED <<writers, call, done, last, bgerr, syncerr>>
          /\ \A v \in Writer \ {w} : pc'[v] = pc[v] /\ status'[v] = status[v]
      BY <1>0, <1>5 DEF ReturnImm, Holds, group, control
    <2>2. ~call[w].late
      BY <2>1 DEF LateInv, FutureWritesFail, ForcedOK, Settled
    <2> QED
      BY <1>g, <2>1, <2>2, LateMove DEF Busy
  <1>6. ASSUME NEW w \in Writer,
               \/ RoomError(w) \/ RoomSwitchFail(w) \/ GroupClose(w)
               \/ AddRecord(w) \/ AddRecordFail(w) \/ SyncLog(w) \/ SyncLogFail(w)
               \/ InsertEntry(w) \/ InsertDone(w)
        PROVE  LateInv'
    <2>1. /\ UNCHANGED <<writers, call, done, last, bgerr>>
          /\ \A v \in Writer \ {w} : /\ pc'[v] = pc[v] /\ status'[v] = status[v]
                                     /\ syncerr'[v] = syncerr[v]
          /\ \/ pc[w] = "room" /\ pc'[w] = "finish" /\ ~status'[w]
             \/ pc[w] \in Busy \ {"commit"} /\ pc'[w] \in Busy \ {"group"}
          /\ syncerr[w] => syncerr'[w]
          /\ syncerr'[w] => syncerr[w] \/ pc'[w] = "commit"
      BY <1>0, <1>6, LeaderEffect
    <2>2. pc[w] \in Leading /\ ~done[w]
      BY <2>1 DEF Busy, Leading, Unlocked, QueueInv, DoneCalls
    <2> QED
      BY <1>g, <2>1, <2>2, LateMove DEF Busy
  <1>7. ASSUME NEW w \in Writer, RoomFound(w) PROVE LateInv'
    BY <1>7, FoundLate
  <1>8. ASSUME NEW w \in Writer, GroupJoin(w) PROVE LateInv'
    BY <1>8, JoinLate
  <1>9. ASSUME NEW w \in Writer, Commit(w) PROVE LateInv'
    BY <1>9, CommitLate
  <1>10. ASSUME NEW w \in Writer, Finish(w) PROVE LateInv'
    BY <1>10, FinishLate
  <1>11. CASE OtherStep
    <2>1. /\ UNCHANGED <<writers, call, done, status, last, syncerr>>
          /\ (\A v \in Writer : pc'[v] = pc[v]) /\ (bgerr => bgerr')
          /\ (mutex \in Writer => mutex' = mutex /\ bgerr' = bgerr)
      BY <1>11, OtherEffect DEF written
    <2>2. \A v \in Writer : pc[v] = "group" => mutex' = mutex /\ bgerr' = bgerr
      BY <2>1 DEF LateInv, GroupInTime
    <2> QED
      BY <2>1, <2>2, LateFrame
  <1>12. CASE UNCHANGED vars
    BY <1>12, LateFrame DEF vars, threads, queue, group, control
  <1> QED
    BY <1>1, <1>2, <1>3, <1>4, <1>5, <1>6, <1>7, <1>8, <1>9, <1>10, <1>11, <1>12, StepKinds

(* No error and no call at first. *)
LEMMA InitLate == Init => LateInv
  <1> SUFFICES ASSUME Init PROVE LateInv
    OBVIOUS
  <1>1. \A w \in Writer : pc[w] = "idle" /\ ~call[w].late /\ ~syncerr[w]
    BY ThreadAssumption DEF Init, AfterOpen, MaybeScheduleCompaction, Thread
  <1> QED
    BY <1>1 DEF LateInv, LateKnown, GroupInTime, ForcedOK, FutureWritesFail, Busy

(* The calls and errors of every reachable state. *)
LEMMA LateInductive == Spec => []LateInv
  <1>1. TypeOK /\ QueueInv /\ SeqInv /\ LateInv /\ [Next]_vars => LateInv'
    BY NextLate
  <1> QED
    BY <1>1, InitLate, TypeCorrect, Inductive, SeqInductive, PTL DEF Spec

-----------------------------------------------------------------------------
(* A leader that logged, and synced if asked, and inserted its group. *)
Written(w) == pc[w] = "commit" /\ status[w]

(* How far a leader is with its group: what has been logged, synced and    *)
(* inserted, in that order, in the log and the memtable in use.            *)
Progress(w) ==
    /\ lastseq < next[w] /\ next[w] <= hi[w] + 1
    /\ pc[w] # "commit" => status[w]
    /\ pc[w] \in {"group", "append", "sync"} \/ (pc[w] = "commit" /\ ~status[w])
         => next[w] = lastseq + 1
    /\ Written(w) => next[w] = hi[w] + 1
    /\ pc[w] \in {"sync", "insert"} \/ Written(w)
         => \A s \in (lastseq + 1)..hi[w] : <<logno, s>> \in logged
    /\ (pc[w] = "insert" \/ Written(w)) /\ call[w].sync => (lastseq + 1)..hi[w] \subseteq synced
    /\ \A s \in (lastseq + 1)..(next[w] - 1) : <<logno, s>> \in memt
    /\ \A v \in Popped(w) : call[v].sync => call[w].sync

LeaderProgress == \A w \in Writer : pc[w] \in Busy => Progress(w)

(* Every entry was logged in the log of its memtable, and its memtable is  *)
(* in use, being flushed, or in a table; tables hold only such entries.    *)
EntriesKept ==
    /\ memt \subseteq logged
    /\ \A e \in memt : e[1] = logno \/ e[1] = imm \/ e[2] \in version
    /\ \A s \in version : \E e \in memt : e[2] = s

(* Entries above last_sequence are those the leader is inserting. *)
EntriesBelow ==
    \A e \in memt : e[2] <= lastseq \/ \E w \in Writer : pc[w] \in Busy /\ e[2] < next[w]

EntryInv == LeaderProgress /\ EntriesKept /\ EntriesBelow

(* While a group is under way all entries lie below its next one. *)
LEMMA BelowNext ==
  ASSUME TypeOK, QueueInv, EntryInv, NEW w \in Writer, pc[w] \in Busy
  PROVE  \A e \in memt : e[2] \in Nat /\ e[2] < next[w]
  <1>1. \A v \in Writer : pc[v] \in Busy => v = w
    BY OnlyLeader, BusyLeads DEF Formed
  <1>2. lastseq \in Nat /\ next[w] \in Nat /\ \A e \in memt : e[2] \in Nat
    BY DEF TypeOK, QueueOK, StoreOK, Entry
  <1>3. lastseq < next[w]
    BY DEF EntryInv, LeaderProgress, Progress
  <1> QED
    BY <1>1, <1>2, <1>3 DEF EntryInv, EntriesBelow

(* A step that leaves leaders with a group, and the entries, alone. *)
LEMMA EntryFrame ==
  ASSUME TypeOK, QueueInv, EntryInv,
         UNCHANGED <<lastseq, logno, logged, synced, memt, imm, version>>,
         \A u \in Writer : pc'[u] \in Busy <=> pc[u] \in Busy,
         \A u \in Writer : pc[u] \in Busy =>
            /\ pc'[u] = pc[u] /\ status'[u] = status[u] /\ next'[u] = next[u] /\ hi'[u] = hi[u]
            /\ Popped(u)' = Popped(u)
            /\ \A v \in Popped(u) : call'[v] = call[v]
  PROVE  EntryInv'
  <1>1. LeaderProgress'
    <2> SUFFICES ASSUME NEW u \in Writer, pc[u] \in Busy PROVE Progress(u)'
      BY DEF LeaderProgress
    <2>1. Progress(u) /\ u \in Popped(u)
      BY GroupMembers, BusyLeads DEF EntryInv, LeaderProgress, Formed
    <2> QED
      BY <2>1 DEF Progress, Written
  <1>2. EntriesKept' /\ EntriesBelow'
    BY DEF EntryInv, EntriesKept, EntriesBelow
  <1> QED
    BY <1>1, <1>2 DEF EntryInv

(* The leader starts a group. *)
LEMMA FoundEntry ==
  ASSUME TypeOK, QueueInv, EntryInv, NEW w \in Writer, RoomFound(w), call[w].batch # NULL,
         status[w]
  PROVE  EntryInv'
  <1>0. /\ pc \in [Thread -> PCs] /\ w \in Thread /\ Writer \subseteq Thread
        /\ lastseq \in Nat /\ call[w].batch \in Nat
        /\ hi \in [Writer -> Nat] /\ next \in [Writer -> Nat] /\ last \in [Writer -> Nat]
        /\ \A e \in memt : e[2] \in Nat
    BY BatchSize DEF TypeOK, ThreadsOK, QueueOK, StoreOK, Thread, Entry
  <1>1. /\ pc[w] = "room" /\ pc' = [pc EXCEPT ![w] = "group"]
        /\ last' = [last EXCEPT ![w] = 1]
        /\ hi' = [hi EXCEPT ![w] = lastseq + call[w].batch]
        /\ next' = [next EXCEPT ![w] = lastseq + 1]
        /\ UNCHANGED <<writers, call, status, lastseq, logno, logged, synced, memt, imm, version>>
    BY DEF RoomFound, Holds, store
  <1>2. pc'[w] = "group" /\ (\A v \in Writer \ {w} : pc'[v] = pc[v])
        /\ hi'[w] = lastseq + call[w].batch /\ next'[w] = lastseq + 1 /\ last'[w] = 1
    BY <1>0, <1>1
  <1>3. pc[w] \in Leading
    BY <1>1 DEF Leading
  <1>4. \A v \in Writer : pc[v] \notin Busy /\ (v # w => pc'[v] \notin Busy)
    BY <1>1, <1>2, <1>3, OnlyLeader, BusyLeads DEF Formed, Busy
  <1>5. Popped(w)' = {w}
    <2>1. writers'[1] = w
      BY <1>1, <1>3, GroupMembers
    <2> QED
      BY <1>2, <2>1 DEF Popped
  <1>6. Progress(w)'
    BY <1>0, <1>1, <1>2, <1>5 DEF Progress, Written
  <1>7. LeaderProgress'
    BY <1>4, <1>6 DEF LeaderProgress
  <1>8. EntriesKept'
    BY <1>1 DEF EntryInv, EntriesKept
  <1>9. EntriesBelow'
    BY <1>1, <1>4 DEF EntryInv, EntriesBelow
  <1> QED
    BY <1>7, <1>8, <1>9 DEF EntryInv

(* A member that asked for sync joins only a leader that syncs. *)
LEMMA JoinEntry ==
  ASSUME TypeOK, QueueInv, SeqInv, EntryInv, NEW w \in Writer, GroupJoin(w)
  PROVE  EntryInv'
  <1>0. /\ hi \in [Writer -> Nat] /\ next[w] \in Nat
    BY DEF TypeOK, QueueOK
  <1>1. /\ pc[w] = "group" /\ MayJoin(w, writers[last[w] + 1])
        /\ UNCHANGED <<pc, writers, call, status, next, lastseq, logno, logged, synced, memt, imm, version>>
        /\ hi' = hi \/ (call[writers[last[w] + 1]].batch # NULL
                        /\ hi' = [hi EXCEPT ![w] = @ + call[writers[last[w] + 1]].batch])
    BY DEF GroupJoin, Holds, threads, store
  <1>2. /\ writers[last[w] + 1] \in Writer /\ pc[w] \in Leading
        /\ Popped(w)' = Popped(w) \cup {writers[last[w] + 1]}
    BY JoinMember
  <1>3. hi'[w] \in Nat /\ hi[w] <= hi'[w]
    BY <1>0, <1>1, <1>2, BatchSize DEF TypeOK
  <1>4. \A v \in Writer : pc[v] \in Busy => v = w
    BY <1>2, OnlyLeader, BusyLeads DEF Formed
  <1>5. pc[w] \in Busy /\ Progress(w)
    BY <1>1 DEF Busy, EntryInv, LeaderProgress
  <1>6. Progress(w)'
    <2>1. \A v \in Popped(w)' : call'[v].sync => call'[w].sync
      BY <1>1, <1>2, <1>5 DEF Progress, MayJoin
    <2>2. next'[w] <= hi'[w] + 1
      BY <1>0, <1>1, <1>3, <1>5 DEF Progress
    <2> QED
      BY <1>1, <1>5, <2>1, <2>2 DEF Progress, Written
  <1>7. LeaderProgress'
    BY <1>1, <1>4, <1>6 DEF LeaderProgress
  <1>8. EntriesKept' /\ EntriesBelow'
    BY <1>1 DEF EntryInv, EntriesKept, EntriesBelow
  <1> QED
    BY <1>7, <1>8 DEF EntryInv

(* The leader goes on with its group. *)
LEMMA LeadEntry ==
  ASSUME TypeOK, QueueInv, EntryInv, NEW w \in Writer,
         \/ GroupClose(w) \/ AddRecord(w) \/ AddRecordFail(w) \/ SyncLog(w) \/ SyncLogFail(w)
         \/ InsertEntry(w) \/ InsertDone(w)
  PROVE  EntryInv'
  <1>0. /\ pc \in [Thread -> PCs] /\ w \in Thread /\ status \in [Writer -> BOOLEAN]
        /\ lastseq \in Nat /\ hi[w] \in Nat /\ next[w] \in Nat /\ next \in [Writer -> Nat]
        /\ logno \in Nat /\ logged \subseteq Nat \X Nat
    BY DEF TypeOK, ThreadsOK, QueueOK, StoreOK, Thread, Entry
  <1>1. /\ UNCHANGED <<writers, call, last, hi, lastseq, logno, imm, version>>
        /\ \A v \in Writer \ {w} : pc'[v] = pc[v] /\ next'[v] = next[v]
        /\ pc[w] \in Busy /\ pc'[w] \in Busy
    <2>1. pc[w] # "room"
      BY DEF GroupClose, AddRecord, AddRecordFail, SyncLog, SyncLogFail, InsertEntry, InsertDone, Holds
    <2>2. Writer \subseteq Thread
      BY DEF Thread
    <2> QED
      BY <2>1, <2>2, LeaderEffect
  <1>2. \A v \in Writer : pc[v] \in Busy => v = w
    BY <1>1, OnlyLeader, BusyLeads DEF Formed
  <1>3. Progress(w) /\ Popped(w)' = Popped(w)
    BY <1>1 DEF EntryInv, LeaderProgress, Popped
  <1>4. \A e \in memt : e[2] \in Nat /\ e[2] < next[w]
    BY <1>1, BelowNext
  <1>5. SUFFICES Progress(w)' /\ EntriesKept' /\ \A e \in memt' : e[2] < next'[w]
    BY <1>1, <1>2 DEF EntryInv, LeaderProgress, EntriesBelow
  <1> USE DEF queue, group, store
  <1>6. CASE GroupClose(w)
    <2>1. /\ pc[w] = "group" /\ pc'[w] = "append" /\ UNCHANGED <<status, next, logged, synced, memt>>
      BY <1>0, <1>6 DEF GroupClose, Holds
    <2>2. Progress(w)'
      BY <1>1, <1>3, <2>1 DEF Progress, Written
    <2> QED
      BY <1>1, <1>4, <2>1, <2>2 DEF EntryInv, EntriesKept
  <1>7. CASE AddRecord(w)
    <2>1. /\ pc[w] = "append" /\ pc'[w] = (IF call[w].sync THEN "sync" ELSE "insert")
          /\ UNCHANGED <<status, next, synced, memt>>
          /\ logged' = logged \cup {<<logno, s>> : s \in next[w]..hi[w]}
      BY <1>0, <1>7 DEF AddRecord
    <2>2. next[w] = lastseq + 1
      BY <1>3, <2>1 DEF Progress
    <2>3. Progress(w)'
      BY <1>1, <1>3, <2>1, <2>2 DEF Progress, Written
    <2>4. logged \subseteq logged'
      BY <2>1
    <2> QED
      BY <1>1, <1>4, <2>1, <2>3, <2>4 DEF EntryInv, EntriesKept
  <1>8. CASE AddRecordFail(w) \/ SyncLogFail(w)
    <2>1. /\ pc[w] \in {"append", "sync"} /\ pc'[w] = "commit" /\ ~status'[w]
          /\ UNCHANGED <<next, logged, synced, memt>>
      BY <1>0, <1>8 DEF AddRecordFail, SyncLogFail
    <2>2. Progress(w)'
      BY <1>1, <1>3, <2>1 DEF Progress, Written
    <2> QED
      BY <1>1, <1>4, <2>1, <2>2 DEF EntryInv, EntriesKept
  <1>9. CASE SyncLog(w)
    <2>1. /\ pc[w] = "sync" /\ pc'[w] = "insert" /\ UNCHANGED <<status, next, logged, memt>>
          /\ synced' = synced \cup {e[2] : e \in {x \in logged : x[1] = logno}}
      BY <1>0, <1>9 DEF SyncLog
    <2>2. (lastseq + 1)..hi[w] \subseteq synced'
      <3> SUFFICES ASSUME NEW s \in (lastseq + 1)..hi[w] PROVE s \in synced'
        OBVIOUS
      <3>1. <<logno, s>> \in {x \in logged : x[1] = logno}
        BY <1>3, <2>1 DEF Progress
      <3>2. <<logno, s>>[2] = s
        OBVIOUS
      <3> QED
        BY <2>1, <3>1, <3>2
    <2>3. Progress(w)'
      BY <1>1, <1>3, <2>1, <2>2 DEF Progress, Written
    <2> QED
      BY <1>1, <1>4, <2>1, <2>3 DEF EntryInv, EntriesKept
  <1>10. CASE InsertEntry(w)
    <2>1. /\ pc[w] = "insert" /\ pc' = pc /\ next[w] <= hi[w] /\ UNCHANGED <<status, logged, synced>>
          /\ memt' = memt \cup {<<logno, next[w]>>} /\ next' = [next EXCEPT ![w] = @ + 1]
      BY <1>10 DEF InsertEntry, threads
    <2>2. next'[w] = next[w] + 1
      BY <1>0, <2>1
    <2>3. lastseq < next[w]
      BY <1>3 DEF Progress
    <2>4. <<logno, next[w]>> \in logged
      BY <1>0, <1>3, <2>1, <2>3 DEF Progress
    <2>5. ASSUME NEW s \in (lastseq + 1)..(next'[w] - 1) PROVE <<logno, s>> \in memt'
      <3>1. s = next[w] \/ s \in (lastseq + 1)..(next[w] - 1)
        BY <1>0, <2>2
      <3> QED
        BY <1>3, <2>1, <3>1 DEF Progress
    <2>6. lastseq < next'[w] /\ next'[w] <= hi[w] + 1
      BY <1>0, <2>1, <2>2, <2>3
    <2>7. Progress(w)'
      BY <1>1, <1>3, <2>1, <2>5, <2>6 DEF Progress, Written
    <2>8. \A e \in memt' : e[2] < next'[w]
      BY <1>0, <1>4, <2>1, <2>2
    <2>9. EntriesKept'
      BY <1>1, <2>1, <2>4 DEF EntryInv, EntriesKept
    <2> QED
      BY <2>7, <2>8, <2>9
  <1>11. CASE InsertDone(w)
    <2>1. /\ pc[w] = "insert" /\ pc'[w] = "commit" /\ next[w] > hi[w]
          /\ UNCHANGED <<status, next, logged, synced, memt>>
      BY <1>0, <1>11 DEF InsertDone
    <2>2. next[w] = hi[w] + 1 /\ status[w]
      BY <1>0, <1>3, <2>1 DEF Progress
    <2>3. Progress(w)'
      BY <1>1, <1>3, <2>1, <2>2 DEF Progress, Written
    <2> QED
      BY <1>1, <1>4, <2>1, <2>3 DEF EntryInv, EntriesKept
  <1> QED
    BY <1>6, <1>7, <1>8, <1>9, <1>10, <1>11

(* last_sequence moves past the group and its entries. *)
LEMMA CommitEntry ==
  ASSUME TypeOK, QueueInv, SeqInv, EntryInv, NEW w \in Writer, Commit(w)
  PROVE  EntryInv'
  <1>0. /\ pc \in [Thread -> PCs] /\ w \in Thread /\ Writer \subseteq Thread
        /\ lastseq \in Nat /\ hi[w] \in Nat /\ next[w] \in Nat
    BY DEF TypeOK, ThreadsOK, QueueOK, StoreOK, Thread
  <1>1. /\ pc[w] = "commit" /\ pc' = [pc EXCEPT ![w] = "finish"] /\ lastseq' = hi[w]
        /\ UNCHANGED <<logno, logged, memt, imm, version>>
    BY DEF Commit, Holds, NewLastSequence
  <1>2. pc[w] \in Busy /\ pc[w] \in Leading
    BY <1>1 DEF Busy, Leading
  <1>3. \A v \in Writer : pc'[v] \notin Busy
    BY <1>0, <1>1, <1>2, OnlyLeader, BusyLeads DEF Formed, Busy
  <1>4. next[w] <= hi[w] + 1
    BY <1>2 DEF EntryInv, LeaderProgress, Progress
  <1>5. \A e \in memt : e[2] \in Nat /\ e[2] < next[w]
    BY <1>2, BelowNext
  <1>6. \A e \in memt : e[2] <= hi[w]
    BY <1>0, <1>4, <1>5
  <1>7. EntriesKept'
    BY <1>1 DEF EntryInv, EntriesKept
  <1> QED
    BY <1>1, <1>3, <1>6, <1>7 DEF EntryInv, LeaderProgress, EntriesBelow

(* mem_ becomes imm_; nobody writes to it. *)
LEMMA SwitchEntry ==
  ASSUME TypeOK, QueueInv, EntryInv, NEW w \in Writer, RoomSwitch(w)
  PROVE  EntryInv'
  <1>1. /\ pc[w] = "room" /\ imm = NULL /\ imm' = logno
        /\ UNCHANGED <<lastseq, logged, memt, version>>
    BY DEF RoomSwitch, Holds, MustWait
  <1>2. \A v \in Writer : pc'[v] = pc[v]
    BY WaitEffect DEF WaitStep
  <1>3. pc[w] \in Leading /\ pc[w] \notin Busy
    BY <1>1 DEF Leading, Busy
  <1>4. \A v \in Writer : pc[v] \notin Busy
    BY <1>3, OnlyLeader, BusyLeads DEF Formed
  <1>5. \A e \in memt : e[1] # NULL
    BY ThreadAssumption DEF TypeOK, StoreOK, Entry
  <1>6. EntriesKept'
    BY <1>1, <1>5 DEF EntryInv, EntriesKept
  <1> QED
    BY <1>1, <1>2, <1>4, <1>6 DEF EntryInv, LeaderProgress, EntriesBelow

(* The table of imm_ holds all its entries. *)
LEMMA FlushedEntry ==
  ASSUME TypeOK, QueueInv, EntryInv, BgFlushed
  PROVE  EntryInv'
  <1>1. /\ version' = version \cup {e[2] : e \in {x \in memt : x[1] = imm}}
        /\ UNCHANGED <<writers, call, status, last, hi, next, lastseq, logno, logged, synced, memt>>
    BY DEF BgFlushed, queue, group
  <1>2. \A v \in Writer : pc'[v] = pc[v]
    BY OtherEffect DEF OtherStep, BgStep
  <1>3. \A e \in memt : e[1] = imm => e[2] \in version'
    BY <1>1
  <1>4. \A s \in version' : s \in version \/ \E e \in memt : e[2] = s
    BY <1>1
  <1>5. EntriesKept'
    BY <1>1, <1>3, <1>4 DEF EntryInv, EntriesKept
  <1>6. EntriesBelow'
    BY <1>1, <1>2 DEF EntryInv, EntriesBelow
  <1>7. LeaderProgress'
    BY <1>1, <1>2 DEF EntryInv, LeaderProgress, Progress, Written, Popped
  <1> QED
    BY <1>5, <1>6, <1>7 DEF EntryInv

(* Of the steps of others only the end of a flush changes what is where,   *)
(* and only Get references it.                                             *)
LEMMA OtherFiles ==
  ASSUME OtherStep
  PROVE  /\ UNCHANGED <<imm, version>> \/ BgFlushed
         /\ pin' = pin \/ \E r \in Reader : Get(r)
  <1> USE DEF store
  <1>1. ASSUME NEW p \in Thread, Lock(p) PROVE UNCHANGED <<imm, version, pin>>
    BY <1>1 DEF Lock
  <1>2. ASSUME NEW r \in Reader, Get(r) PROVE UNCHANGED <<imm, version>>
    BY <1>2 DEF Get
  <1>3. ASSUME NEW r \in Reader, GetDone(r) PROVE UNCHANGED <<imm, version, pin>>
    BY <1>3 DEF GetDone
  <1>4. ASSUME NEW m \in Manual, CompactRange(m) \/ ManualStep(m) PROVE UNCHANGED <<imm, version, pin>>
    BY <1>4 DEF CompactRange, ManualStep, ManualSubmit, ManualWait, ManualReturn
  <1>5. CASE Close \/ CloserStep
    <2>1. UNCHANGED <<imm, version, pin>>
      BY <1>5 DEF Close, CloserStep, CloseWait, CloseDone
    <2> QED
      BY <2>1
  <1>6. CASE BgStep
    <2>1. CASE BgSkip \/ BgFlush \/ BgManualEmpty \/ BgManualWork \/ BgPick
      BY <2>1 DEF BgSkip, BgFlush, BgManualEmpty, BgManualWork, BgPick
    <2>2. CASE BgBuild \/ BgApply \/ BgInstall \/ BgWorkEnd \/ BgWorkImm
      BY <2>2 DEF BgBuild, BgApply, BgInstall, BgIO, BgWorkEnd, BgWorkImm
    <2>3. CASE BgBuilt \/ BgInstallStart \/ BgManualEnd \/ BgEnd
      BY <2>3 DEF BgBuilt, BgInstallStart, BgManualEnd, BgEnd
    <2>4. CASE BgFlushFails \/ BgCompactFails \/ BgCompacted
      BY <2>4 DEF BgFlushFails, BgCompactFails, BgCompacted
    <2>5. CASE BgFlushed
      BY <2>5 DEF BgFlushed
    <2> QED
      BY <1>6, <2>1, <2>2, <2>3, <2>4, <2>5 DEF BgStep
  <1>7. CASE Terminated
    BY <1>7 DEF Terminated, vars
  <1> HIDE DEF store
  <1> QED
    BY <1>1, <1>2, <1>3, <1>4, <1>5, <1>6, <1>7 DEF OtherStep

-----------------------------------------------------------------------------
(* A call that has met no error yet has status OK. *)
FreshOK ==
    \A w \in Writer :
        pc[w] \in {"idle", "room"} \/ (pc[w] = "check" /\ ~done[w]) => status[w]

(* Every step keeps FreshOK. *)
LEMMA NextFresh ==
  ASSUME TypeOK, QueueInv, FreshOK, [Next]_vars
  PROVE  FreshOK'
  <1>0. /\ pc \in [Thread -> PCs] /\ Writer \subseteq Thread
        /\ status \in [Writer -> BOOLEAN] /\ done \in [Writer -> BOOLEAN]
    BY DEF TypeOK, ThreadsOK, QueueOK, Thread
  <1>1. ASSUME NEW w \in Writer, NEW sy, NEW b, Write(w, sy, b) PROVE FreshOK'
    <2>1. pc[w] = "idle" /\ pc' = [pc EXCEPT ![w] = "check"] /\ UNCHANGED <<done, status>>
      BY <1>1 DEF Write
    <2> QED
      BY <1>0, <2>1 DEF FreshOK
  <1>2. ASSUME NEW w \in Writer, WaitStep(w) PROVE FreshOK'
    BY <1>2, WaitEffect DEF written, FreshOK
  <1>3. ASSUME NEW w \in Writer, TakeTurn(w) \/ ReturnDone(w) \/ RoomFound(w) \/ GroupJoin(w) \/ Commit(w)
        PROVE  FreshOK'
    <2>1. /\ UNCHANGED <<done, status>> /\ \A v \in Writer \ {w} : pc'[v] = pc[v]
          /\ \/ pc[w] = "check" /\ ~done[w]
             \/ pc'[w] \notin {"idle", "room", "check"}
      <3> USE DEF queue, group, Holds
      <3>1. CASE TakeTurn(w)
        BY <1>0, <3>1 DEF TakeTurn
      <3>2. CASE ReturnDone(w)
        BY <1>0, <3>2 DEF ReturnDone, AfterWrite
      <3>3. CASE RoomFound(w)
        BY <1>0, <3>3 DEF RoomFound
      <3>4. CASE GroupJoin(w)
        BY <1>0, <3>4 DEF GroupJoin, threads
      <3>5. CASE Commit(w)
        BY <1>0, <3>5 DEF Commit
      <3> QED
        BY <1>3, <3>1, <3>2, <3>3, <3>4, <3>5
    <2> QED
      BY <2>1 DEF FreshOK
  <1>4. ASSUME NEW w \in Writer,
               \/ RoomError(w) \/ RoomSwitchFail(w) \/ GroupClose(w)
               \/ AddRecord(w) \/ AddRecordFail(w) \/ SyncLog(w) \/ SyncLogFail(w)
               \/ InsertEntry(w) \/ InsertDone(w)
        PROVE  FreshOK'
    <2>1. /\ UNCHANGED done
          /\ \A v \in Writer \ {w} : pc'[v] = pc[v] /\ status'[v] = status[v]
          /\ pc'[w] \in Formed
      BY <1>0, <1>4, LeaderEffect DEF Formed
    <2> QED
      BY <2>1 DEF FreshOK, Formed, Busy
  <1>5. ASSUME NEW w \in Writer, Finish(w) PROVE FreshOK'
    <2>1. /\ pc[w] = "finish" /\ pc'[w] \in {"immwait", "done"}
          /\ \A v \in Writer \ {w} : pc'[v] = pc[v]
          /\ \A v \in Writer : done'[v] = (done[v] \/ v \in Popped(w) \ {w})
          /\ \A v \in Writer : v \notin Popped(w) => status'[v] = status[v]
      BY <1>0, <1>5 DEF Finish, Holds, AfterWrite, GroupStatus
    <2>2. pc[w] \in Leading
      BY <2>1 DEF Leading
    <2>3. \A v \in Popped(w) : v # w => pc[v] = "check"
      BY <2>2, GroupMembers, OnlyLeader DEF Waiting
    <2> QED
      BY <2>1, <2>3 DEF FreshOK
  <1>6. ASSUME NEW w \in Writer, ReturnImm(w) PROVE FreshOK'
    <2>1. /\ pc'[w] = "done" /\ UNCHANGED done
          /\ \A v \in Writer \ {w} : pc'[v] = pc[v] /\ status'[v] = status[v]
      BY <1>0, <1>6 DEF ReturnImm
    <2> QED
      BY <2>1 DEF FreshOK
  <1>7. CASE OtherStep
    BY <1>7, OtherEffect DEF written, FreshOK
  <1>8. CASE UNCHANGED vars
    BY <1>8 DEF vars, threads, queue, FreshOK
  <1> QED
    BY <1>1, <1>2, <1>3, <1>4, <1>5, <1>6, <1>7, <1>8, StepKinds

(* FreshOK in every reachable state. *)
LEMMA FreshInductive == Spec => []FreshOK
  <1>1. Init => FreshOK
    BY DEF Init, AfterOpen, FreshOK
  <1>2. TypeOK /\ QueueInv /\ FreshOK /\ [Next]_vars => FreshOK'
    BY NextFresh
  <1> QED
    BY <1>1, <1>2, TypeCorrect, Inductive, PTL DEF Spec

-----------------------------------------------------------------------------
(* A writer that has no group moves on and touches no entry. *)
IdleStep(w) ==
    TakeTurn(w) \/ ReturnDone(w) \/ ReturnImm(w) \/ RoomError(w) \/ RoomSwitchFail(w)
      \/ (RoomFound(w) /\ call[w].batch = NULL)

(* Such a step changes the pc and the status of the writer only. *)
LEMMA IdleEffect ==
  ASSUME TypeOK, NEW w \in Writer, IdleStep(w)
  PROVE  /\ UNCHANGED <<writers, call, done, last, hi, next, seqs, store, pin>>
         /\ \A v \in Thread \ {w} : pc'[v] = pc[v]
         /\ \A v \in Writer \ {w} : status'[v] = status[v]
         /\ pc[w] \in {"check", "room", "immwait"} /\ pc'[w] \in {"room", "finish", "immwait", "done"}
         /\ pc[w] = "check" /\ pc'[w] # "room" => done[w]
         /\ pc'[w] = "finish" => pc[w] = "room" /\ (~status'[w] \/ call[w].batch = NULL)
         /\ pc[w] = "check" => status'[w] = status[w]
         /\ pc[w] \in {"check", "immwait"} => pc'[w] # "finish"
         /\ pc[w] = "immwait" => pc'[w] = "done"
         /\ pc[w] = "room" => pc'[w] = "finish"
  <1>0. pc \in [Thread -> PCs] /\ w \in Thread /\ status \in [Writer -> BOOLEAN]
    BY DEF TypeOK, ThreadsOK, QueueOK, Thread
  <1> USE <1>0 DEF queue, group, Holds
  <1>1. CASE TakeTurn(w)
    BY <1>1 DEF TakeTurn
  <1>2. CASE ReturnDone(w)
    BY <1>2 DEF ReturnDone, AfterWrite
  <1>3. CASE ReturnImm(w)
    BY <1>3 DEF ReturnImm
  <1>4. CASE RoomError(w)
    BY <1>4 DEF RoomError
  <1>5. CASE RoomSwitchFail(w)
    BY <1>5 DEF RoomSwitchFail
  <1>6. CASE RoomFound(w) /\ call[w].batch = NULL
    BY <1>6 DEF RoomFound
  <1> QED
    BY <1>1, <1>2, <1>3, <1>4, <1>5, <1>6 DEF IdleStep

(* The steps, by what they do to the entries. *)
LEMMA EntryKinds ==
  ASSUME [Next]_vars
  PROVE  \/ \E w \in Writer, sy \in BOOLEAN, b \in Counts \cup {NULL} : Write(w, sy, b)
         \/ \E w \in Writer :
               \/ IdleStep(w) \/ RoomSwitch(w)
               \/ WaitStep(w) /\ ~RoomSwitch(w)
               \/ RoomFound(w) /\ call[w].batch # NULL
               \/ GroupJoin(w)
               \/ GroupClose(w) \/ AddRecord(w) \/ AddRecordFail(w) \/ SyncLog(w) \/ SyncLogFail(w)
               \/ InsertEntry(w) \/ InsertDone(w)
               \/ Commit(w) \/ Finish(w)
         \/ BgFlushed
         \/ OtherStep /\ ~BgFlushed
         \/ UNCHANGED vars
  BY StepKinds DEF IdleStep

(* A wait leaves the entries where they are. *)
LEMMA WaitEntry ==
  ASSUME TypeOK, NEW w \in Writer, WaitStep(w), ~RoomSwitch(w)
  PROVE  /\ UNCHANGED <<written, logno, logs, minlog, imm, version, pin>>
         /\ \A v \in Writer : pc'[v] = pc[v]
  <1>1. WriterStep(w)
    BY DEF WaitStep, WriterStep
  <1> QED
    BY <1>1, WriterFiles, WaitEffect

(* Every step keeps EntryInv. *)
LEMMA NextEntry ==
  ASSUME TypeOK, QueueInv, SeqInv, FreshOK, EntryInv, [Next]_vars
  PROVE  EntryInv'
  <1>0. /\ pc \in [Thread -> PCs] /\ Writer \subseteq Thread
        /\ call \in [Writer -> [sync : BOOLEAN, batch : Counts \cup {NULL}, late : BOOLEAN, asof : Nat]]
    BY DEF TypeOK, ThreadsOK, QueueOK, Thread
  <1>1. ASSUME NEW w \in Writer, NEW sy, NEW b, Write(w, sy, b) PROVE EntryInv'
    <2>1. /\ UNCHANGED <<lastseq, logno, logged, synced, memt, imm, version, status, next, hi>>
          /\ pc[w] = "idle" /\ pc'[w] = "check"
          /\ \A v \in Writer \ {w} : pc'[v] = pc[v] /\ call'[v] = call[v]
      BY <1>0, <1>1 DEF Write, group, store
    <2>2. \A u \in Writer : pc[u] \in Busy => /\ u # w /\ w \notin Popped(u) /\ Popped(u)' = Popped(u)
                                              /\ Popped(u) \subseteq Writer
      BY <1>1, AppendGroup, GroupMembers, BusyLeads DEF Formed
    <2>3. \A u \in Writer : pc'[u] \in Busy <=> pc[u] \in Busy
      BY <2>1 DEF Busy
    <2> QED
      BY <2>1, <2>2, <2>3, EntryFrame
  <1>2. ASSUME NEW w \in Writer, IdleStep(w) PROVE EntryInv'
    <2>1. /\ UNCHANGED <<lastseq, logno, logged, synced, memt, imm, version>>
          /\ UNCHANGED <<writers, call, last, hi, next>>
          /\ pc[w] \notin Busy /\ pc'[w] \notin Busy
          /\ \A v \in Writer \ {w} : pc'[v] = pc[v] /\ status'[v] = status[v]
      BY <1>0, <1>2, IdleEffect DEF store, Busy
    <2>2. \A v \in Writer : Popped(v)' = Popped(v)
      BY <2>1 DEF Popped
    <2> QED
      BY <2>1, <2>2, EntryFrame
  <1>3. ASSUME NEW w \in Writer, RoomSwitch(w) PROVE EntryInv'
    BY <1>3, SwitchEntry
  <1>4. ASSUME NEW w \in Writer, WaitStep(w) /\ ~RoomSwitch(w) PROVE EntryInv'
    <2>1. UNCHANGED <<written, logno, imm, version>> /\ \A v \in Writer : pc'[v] = pc[v]
      BY <1>4, WaitEntry
    <2>2. \A v \in Writer : Popped(v)' = Popped(v)
      BY <2>1 DEF Popped, written
    <2> QED
      BY <2>1, <2>2, EntryFrame DEF written
  <1>5. ASSUME NEW w \in Writer, RoomFound(w) /\ call[w].batch # NULL PROVE EntryInv'
    <2>1. status[w]
      BY <1>5 DEF FreshOK, RoomFound, Holds
    <2> QED
      BY <1>5, <2>1, FoundEntry
  <1>6. ASSUME NEW w \in Writer, GroupJoin(w) PROVE EntryInv'
    BY <1>6, JoinEntry
  <1>7. ASSUME NEW w \in Writer,
               \/ GroupClose(w) \/ AddRecord(w) \/ AddRecordFail(w) \/ SyncLog(w) \/ SyncLogFail(w)
               \/ InsertEntry(w) \/ InsertDone(w)
        PROVE  EntryInv'
    BY <1>7, LeadEntry
  <1>8. ASSUME NEW w \in Writer, Commit(w) PROVE EntryInv'
    BY <1>8, CommitEntry
  <1>9. ASSUME NEW w \in Writer, Finish(w) PROVE EntryInv'
    <2>1. /\ UNCHANGED <<lastseq, logno, logged, synced, memt, imm, version>>
          /\ pc[w] = "finish" /\ pc'[w] \in {"done", "immwait"}
          /\ \A v \in Writer \ {w} : pc'[v] = pc[v]
      BY <1>0, <1>9 DEF Finish, Holds, AfterWrite, store
    <2>2. \A v \in Writer : pc[v] \notin Busy /\ pc'[v] \notin Busy
      BY <2>1, OnlyLeader, BusyLeads DEF Formed, Busy, Leading
    <2> QED
      BY <2>1, <2>2, EntryFrame
  <1>10. CASE BgFlushed
    BY <1>10, FlushedEntry
  <1>11. CASE OtherStep /\ ~BgFlushed
    <2>1. UNCHANGED <<written, logno, imm, version>> /\ \A v \in Writer : pc'[v] = pc[v]
      BY <1>11, OtherEffect, OtherFiles
    <2>2. \A v \in Writer : Popped(v)' = Popped(v)
      BY <2>1 DEF Popped, written
    <2> QED
      BY <2>1, <2>2, EntryFrame DEF written
  <1>12. CASE UNCHANGED vars
    <2>1. UNCHANGED <<written, logno, imm, version, pc>>
      BY <1>12 DEF vars, threads, queue, group, store, written
    <2>2. \A v \in Writer : Popped(v)' = Popped(v)
      BY <2>1 DEF Popped, written
    <2> QED
      BY <2>1, <2>2, EntryFrame DEF written
  <1> QED
    BY <1>1, <1>2, <1>3, <1>4, <1>5, <1>6, <1>7, <1>8, <1>9, <1>10, <1>11, <1>12, EntryKinds

(* Nothing is written at first. *)
LEMMA InitEntry == Init => EntryInv
  <1> SUFFICES ASSUME Init PROVE EntryInv
    OBVIOUS
  <1>1. memt = {} /\ version = {} /\ \A w \in Writer : pc[w] = "idle"
    BY ThreadAssumption DEF Init, AfterOpen, MaybeScheduleCompaction, Thread
  <1> QED
    BY <1>1 DEF EntryInv, LeaderProgress, EntriesKept, EntriesBelow, Busy

(* The entries of every reachable state. *)
LEMMA EntryInductive == Spec => []EntryInv
  <1>1. TypeOK /\ QueueInv /\ SeqInv /\ FreshOK /\ EntryInv /\ [Next]_vars => EntryInv'
    BY NextEntry
  <1> QED
    BY <1>1, InitEntry, TypeCorrect, Inductive, SeqInductive, FreshInductive, PTL DEF Spec

-----------------------------------------------------------------------------
(* What OK means for a batch: it has as many numbers as entries, all of    *)
(* them are in a memtable, and on the disk if the caller asked for sync;   *)
(* and what an error means: no entry is in a memtable.                     *)
Granted(v) ==
    /\ Numbered(v)
    /\ \A s \in seqs[v] : \E e \in memt : e[2] = s
    /\ call[v].sync => seqs[v] \subseteq synced
Untouched(v) == \A s \in seqs[v] : \A e \in memt : e[2] # s

Outcome(v, w) == (status[w] => Granted(v)) /\ (~status[w] => Untouched(v))

(* A settled call has its own status, a member of a group that is about to *)
(* be popped the one of its leader.                                        *)
OutcomeInv ==
    /\ \A v \in Writer : Settled(v) => Outcome(v, v)
    /\ \A w \in Writer : pc[w] = "finish" => \A v \in Popped(w) : Outcome(v, w)

(* An outcome stays what it is while no number of the batch is inserted.   *)
LEMMA OutcomeKept ==
  ASSUME NEW v, NEW w, seqs'[v] = seqs[v], call'[v] = call[v], status'[w] = status[w],
         memt \subseteq memt', synced \subseteq synced',
         \A e \in memt' \ memt : e[2] \notin seqs[v],
         Outcome(v, w)
  PROVE  Outcome(v, w)'
  <1>1. Granted(v) => Granted(v)'
    BY DEF Granted, Numbered
  <1>2. Untouched(v) => Untouched(v)'
    BY DEF Untouched
  <1> QED
    BY <1>1, <1>2 DEF Outcome

(* A step after which whoever has an outcome had it before. *)
LEMMA OutcomeFrame ==
  ASSUME OutcomeInv, memt \subseteq memt', synced \subseteq synced',
         \A v \in Writer : Settled(v)' => /\ Settled(v) /\ status'[v] = status[v]
                                          /\ seqs'[v] = seqs[v] /\ call'[v] = call[v]
                                          /\ \A e \in memt' \ memt : e[2] \notin seqs[v],
         \A w \in Writer : pc'[w] = "finish" =>
            /\ pc[w] = "finish" /\ Popped(w)' = Popped(w) /\ status'[w] = status[w] /\ memt' = memt
            /\ \A v \in Popped(w) : seqs'[v] = seqs[v] /\ call'[v] = call[v]
  PROVE  OutcomeInv'
  <1>1. ASSUME NEW v \in Writer, Settled(v)' PROVE Outcome(v, v)'
    BY <1>1, OutcomeKept DEF OutcomeInv
  <1>2. ASSUME NEW w \in Writer, pc'[w] = "finish", NEW v \in Popped(w)' PROVE Outcome(v, w)'
    BY <1>2, OutcomeKept DEF OutcomeInv
  <1> QED
    BY <1>1, <1>2 DEF OutcomeInv

(* A settled call is in no group, so last_sequence covers its numbers.     *)
LEMMA SettledOld ==
  ASSUME TypeOK, QueueInv, SeqInv, NEW v \in Writer, Settled(v)
  PROVE  ~Waiting(v) /\ ~InGroup(v, Formed) /\ seqs[v] \subseteq 1..lastseq
  <1>1. ~Waiting(v)
    BY DEF Settled, Waiting, Leading, Unlocked, QueueInv, DoneCalls
  <1>2. ~InGroup(v, Formed) /\ ~InGroup(v, Busy)
    BY <1>1, GroupMembers, BusyLeads DEF InGroup, Formed
  <1> QED
    BY <1>1, <1>2 DEF SeqInv, OldNumbers

(* A writer without a group moves on. *)
LEMMA IdleOutcome ==
  ASSUME TypeOK, QueueInv, SeqInv, LateInv, OutcomeInv, NEW w \in Writer, IdleStep(w)
  PROVE  OutcomeInv'
  <1>0. Writer \subseteq Thread
    BY DEF Thread
  <1>1. /\ UNCHANGED <<writers, call, done, last, seqs, memt, synced>>
        /\ \A v \in Writer \ {w} : pc'[v] = pc[v] /\ status'[v] = status[v]
        /\ pc[w] \in {"check", "room", "immwait"} /\ pc'[w] \in {"room", "finish", "immwait", "done"}
        /\ pc[w] = "check" /\ pc'[w] # "room" => done[w]
        /\ pc'[w] = "finish" => pc[w] = "room" /\ (~status'[w] \/ call[w].batch = NULL)
        /\ pc[w] = "check" => status'[w] = status[w]
        /\ pc[w] = "room" => pc'[w] = "finish"
    BY <1>0, IdleEffect DEF store
  <1>2. \A v \in Writer : Popped(v)' = Popped(v)
    BY <1>1 DEF Popped
  <1>3. ASSUME NEW v \in Writer, Settled(v)' PROVE Outcome(v, v)'
    <2>1. CASE v # w \/ pc[w] = "check"
      <3>1. Settled(v) /\ status'[v] = status[v]
        BY <1>1, <1>3, <2>1 DEF Settled
      <3>2. Outcome(v, v)
        BY <3>1 DEF OutcomeInv
      <3> QED
        BY <1>1, <3>1, <3>2, OutcomeKept
    <2>2. CASE v = w /\ pc[w] = "immwait"
      <3>1. call[v].batch = NULL
        BY <2>2 DEF LateInv, ForcedOK
      <3>2. seqs'[v] = {} /\ call'[v].batch = NULL
        BY <1>1, <3>1 DEF SeqInv, FreshUnnumbered
      <3> QED
        BY <3>2 DEF Outcome, Granted, Untouched, Numbered
    <2>3. CASE v = w /\ pc[w] = "room"
      BY <1>1, <1>3, <2>3 DEF Settled, QueueInv, DoneCalls
    <2> QED
      BY <1>1, <2>1, <2>2, <2>3
  <1>4. ASSUME NEW u \in Writer, pc'[u] = "finish", NEW v \in Popped(u)' PROVE Outcome(v, u)'
    <2>1. CASE u # w
      <3>1. pc[u] = "finish" /\ Outcome(v, u) /\ status'[u] = status[u]
        BY <1>1, <1>2, <1>4, <2>1 DEF OutcomeInv
      <3> QED
        BY <1>1, <3>1, OutcomeKept
    <2>2. CASE u = w
      <3>1. pc[w] = "room" /\ pc[w] \in Leading
        BY <1>1, <1>4, <2>2 DEF Leading
      <3>2. last[w] = 1 /\ writers[1] = w
        BY <3>1, GroupMembers DEF QueueInv, LeaderGroup
      <3>3. v = w
        BY <1>2, <1>4, <2>2, <3>2 DEF Popped
      <3>4. Waiting(w) /\ ~InGroup(w, Formed)
        BY <3>1, OnlyLeader, BusyLeads DEF Waiting, InGroup, Formed, Busy
      <3>5. seqs'[w] = {} /\ (~status'[w] \/ call'[w].batch = NULL)
        BY <1>1, <1>4, <2>2, <3>4 DEF SeqInv, FreshUnnumbered
      <3> QED
        BY <2>2, <3>3, <3>5 DEF Outcome, Granted, Untouched, Numbered
    <2> QED
      BY <2>1, <2>2
  <1> QED
    BY <1>3, <1>4 DEF OutcomeInv

(* A leader starts its group or adds to it: nobody who has an outcome gets *)
(* a number.                                                               *)
LEMMA NumberOutcome ==
  ASSUME TypeOK, QueueInv, SeqInv, OutcomeInv, NEW w \in Writer,
         (RoomFound(w) /\ call[w].batch # NULL) \/ GroupJoin(w)
  PROVE  OutcomeInv'
  <1>0. pc \in [Thread -> PCs] /\ Writer \subseteq Thread /\ seqs \in [Writer -> SUBSET Nat]
    BY DEF TypeOK, ThreadsOK, QueueOK, Thread
  <1>1. /\ UNCHANGED <<call, done, status, memt, synced>>
        /\ pc[w] \in {"room", "group"} /\ pc'[w] = "group" /\ \A v \in Writer \ {w} : pc'[v] = pc[v]
        /\ \A v \in Writer : ~Waiting(v) => seqs'[v] = seqs[v]
    <2>1. CASE RoomFound(w) /\ call[w].batch # NULL
      <3>1. /\ UNCHANGED <<call, done, status, memt, synced>>
            /\ pc[w] = "room" /\ pc' = [pc EXCEPT ![w] = "group"]
            /\ \A v \in Writer \ {w} : seqs'[v] = seqs[v]
        BY <1>0, <2>1 DEF RoomFound, Holds, store
      <3>2. Waiting(w)
        BY <3>1 DEF Waiting, Leading
      <3> QED
        BY <1>0, <3>1, <3>2
    <2>2. CASE GroupJoin(w)
      <3>1. writers[last[w] + 1] \in Writer /\ Waiting(writers[last[w] + 1])
        BY <2>2, JoinMember
      <3>2. /\ UNCHANGED <<pc, call, done, status, memt, synced>> /\ pc[w] = "group"
            /\ \A v \in Writer : v # writers[last[w] + 1] => seqs'[v] = seqs[v]
        BY <1>0, <2>2, <3>1 DEF GroupJoin, Holds, threads, store
      <3> QED
        BY <3>1, <3>2
    <2> QED
      BY <2>1, <2>2
  <1>2. pc[w] \in Leading /\ pc[w] # "finish"
    BY <1>1 DEF Leading
  <1>3. \A v \in Writer : pc'[v] # "finish"
    BY <1>1, <1>2, OnlyLeader DEF Leading
  <1>4. ASSUME NEW v \in Writer, Settled(v)'
        PROVE  Settled(v) /\ seqs'[v] = seqs[v]
    <2>1. Settled(v)
      BY <1>1, <1>4 DEF Settled
    <2> QED
      BY <1>1, <2>1, SettledOld
  <1> QED
    BY <1>1, <1>3, <1>4, OutcomeFrame

(* A leader writes numbers that nobody who has an outcome has. *)
LEMMA LeadOutcome ==
  ASSUME TypeOK, QueueInv, SeqInv, EntryInv, OutcomeInv, NEW w \in Writer,
         \/ GroupClose(w) \/ AddRecord(w) \/ AddRecordFail(w) \/ SyncLog(w) \/ SyncLogFail(w)
         \/ InsertEntry(w) \/ InsertDone(w)
  PROVE  OutcomeInv'
  <1>0. lastseq \in Nat /\ next[w] \in Nat /\ Writer \subseteq Thread
    BY DEF TypeOK, QueueOK, StoreOK, Thread
  <1>1. /\ UNCHANGED <<call, done, seqs>>
        /\ \A v \in Writer \ {w} : pc'[v] = pc[v] /\ status'[v] = status[v]
        /\ pc[w] \in Busy /\ pc'[w] \in Busy
    <2>1. pc[w] # "room"
      BY DEF GroupClose, AddRecord, AddRecordFail, SyncLog, SyncLogFail, InsertEntry, InsertDone, Holds
    <2> QED
      BY <1>0, <2>1, LeaderEffect
  <1>2. /\ memt \subseteq memt' /\ synced \subseteq synced'
        /\ \A e \in memt' \ memt : e[2] = next[w]
    BY DEF GroupClose, AddRecord, AddRecordFail, SyncLog, SyncLogFail, InsertEntry, InsertDone, store
  <1>3. lastseq < next[w]
    BY <1>1 DEF EntryInv, LeaderProgress, Progress
  <1>4. \A v \in Writer : pc'[v] # "finish"
    BY <1>1, OnlyLeader, BusyLeads DEF Formed, Busy
  <1>5. ASSUME NEW v \in Writer, Settled(v)'
        PROVE  Settled(v) /\ status'[v] = status[v] /\ \A e \in memt' \ memt : e[2] \notin seqs[v]
    <2>1. v # w
      BY <1>1, <1>5 DEF Settled, Busy, QueueInv, DoneCalls
    <2>2. Settled(v) /\ status'[v] = status[v]
      BY <1>1, <1>5, <2>1 DEF Settled
    <2>3. seqs[v] \subseteq 1..lastseq
      BY <2>2, SettledOld
    <2> QED
      BY <1>0, <1>2, <1>3, <2>2, <2>3
  <1> QED
    BY <1>1, <1>2, <1>4, <1>5, OutcomeFrame

(* A group that was written whole is granted, one that failed is not in    *)
(* any memtable.                                                           *)
LEMMA CommitOutcome ==
  ASSUME TypeOK, QueueInv, SeqInv, EntryInv, OutcomeInv, NEW w \in Writer, Commit(w)
  PROVE  OutcomeInv'
  <1>0. /\ pc \in [Thread -> PCs] /\ Writer \subseteq Thread
        /\ lastseq \in Nat /\ hi[w] \in Nat /\ next[w] \in Nat
    BY DEF TypeOK, ThreadsOK, QueueOK, StoreOK, Thread
  <1>1. /\ pc[w] = "commit" /\ pc'[w] = "finish" /\ \A v \in Writer \ {w} : pc'[v] = pc[v]
        /\ UNCHANGED <<writers, last, call, done, status, seqs, memt, synced>>
    BY <1>0 DEF Commit, Holds, queue, group
  <1>2. pc[w] \in Busy /\ pc[w] \in Leading
    BY <1>1 DEF Busy, Leading
  <1>3. \A v \in Writer \ {w} : pc'[v] # "finish"
    BY <1>1, <1>2, OnlyLeader, BusyLeads DEF Formed, Busy
  <1>4. Progress(w)
    BY <1>2 DEF EntryInv, LeaderProgress
  <1>5. \A v \in Popped(w) : seqs[v] \subseteq (lastseq + 1)..hi[w] /\ Numbered(v)
    BY <1>2 DEF SeqInv, GroupNumbers
  <1>6. ASSUME NEW v \in Popped(w), status[w] PROVE Granted(v)
    <2>1. next[w] = hi[w] + 1
      BY <1>1, <1>4, <1>6 DEF Progress, Written
    <2>2. \A s \in (lastseq + 1)..hi[w] : <<logno, s>> \in memt
      BY <1>0, <1>4, <2>1 DEF Progress
    <2>3. \A s \in seqs[v] : \E e \in memt : e[2] = s
      <3> SUFFICES ASSUME NEW s \in seqs[v] PROVE \E e \in memt : e[2] = s
        OBVIOUS
      <3>1. <<logno, s>> \in memt
        BY <1>5, <2>2
      <3> QED
        BY <3>1
    <2>4. call[v].sync => seqs[v] \subseteq synced
      BY <1>1, <1>4, <1>5, <1>6 DEF Progress, Written
    <2> QED
      BY <1>5, <2>3, <2>4 DEF Granted
  <1>7. ASSUME NEW v \in Popped(w), ~status[w] PROVE Untouched(v)
    <2>1. next[w] = lastseq + 1
      BY <1>1, <1>4, <1>7 DEF Progress
    <2>2. \A e \in memt : e[2] \in Nat /\ e[2] < lastseq + 1
      BY <1>2, <2>1, BelowNext
    <2> QED
      BY <1>0, <1>5, <2>2 DEF Untouched
  <1>8. \A v \in Popped(w) : Outcome(v, w)
    BY <1>6, <1>7 DEF Outcome
  <1>9. \A v \in Popped(w)' : Outcome(v, w)'
    <2>1. Popped(w)' = Popped(w)
      BY <1>1 DEF Popped
    <2> QED
      BY <1>1, <1>8, <2>1, OutcomeKept
  <1>10. ASSUME NEW v \in Writer, Settled(v)' PROVE Outcome(v, v)'
    <2>1. Settled(v)
      BY <1>1, <1>10 DEF Settled
    <2> QED
      BY <1>1, <2>1, OutcomeKept DEF OutcomeInv
  <1> QED
    BY <1>1, <1>3, <1>9, <1>10 DEF OutcomeInv

(* The members of the group get the outcome of their leader. *)
LEMMA FinishOutcome ==
  ASSUME TypeOK, QueueInv, OutcomeInv, NEW w \in Writer, Finish(w)
  PROVE  OutcomeInv'
  <1>0. pc \in [Thread -> PCs] /\ Writer \subseteq Thread
    BY DEF TypeOK, ThreadsOK, Thread
  <1>1. /\ pc[w] = "finish" /\ pc'[w] \in {"immwait", "done"}
        /\ \A v \in Writer \ {w} : pc'[v] = pc[v]
        /\ \A v \in Writer : done'[v] = (done[v] \/ v \in Popped(w) \ {w})
        /\ \A v \in Writer : status'[v] = IF v \in Popped(w) THEN status[w] ELSE status[v]
        /\ UNCHANGED <<call, seqs, memt, synced>>
    BY <1>0 DEF Finish, Holds, AfterWrite, GroupStatus, store
  <1>2. pc[w] \in Leading
    BY <1>1 DEF Leading
  <1>3. \A v \in Writer : pc'[v] # "finish"
    BY <1>1, <1>2, OnlyLeader DEF Leading
  <1>4. w \in Popped(w)
    BY <1>2, GroupMembers
  <1>5. ASSUME NEW v \in Writer, Settled(v)' PROVE Outcome(v, v)'
    <2>1. CASE v \in Popped(w)
      <3>1. Outcome(v, w) /\ status'[v] = status[w]
        BY <1>1, <2>1 DEF OutcomeInv
      <3>2. Granted(v)' = Granted(v) /\ Untouched(v)' = Untouched(v)
        BY <1>1 DEF Granted, Untouched, Numbered
      <3> QED
        BY <3>1, <3>2 DEF Outcome
    <2>2. CASE v \notin Popped(w)
      <3>1. Settled(v) /\ status'[v] = status[v]
        BY <1>1, <1>4, <1>5, <2>2 DEF Settled
      <3> QED
        BY <1>1, <3>1, OutcomeKept DEF OutcomeInv
    <2> QED
      BY <2>1, <2>2
  <1> QED
    BY <1>3, <1>5 DEF OutcomeInv

(* Every step keeps the outcomes. *)
LEMMA NextOutcome ==
  ASSUME TypeOK, QueueInv, SeqInv, LateInv, EntryInv, OutcomeInv, [Next]_vars
  PROVE  OutcomeInv'
  <1>0. /\ pc \in [Thread -> PCs] /\ Writer \subseteq Thread
        /\ call \in [Writer -> [sync : BOOLEAN, batch : Counts \cup {NULL}, late : BOOLEAN, asof : Nat]]
    BY DEF TypeOK, ThreadsOK, QueueOK, Thread
  <1>f. ASSUME UNCHANGED written, \A v \in Writer : pc'[v] = pc[v] PROVE OutcomeInv'
    <2>1. UNCHANGED <<writers, call, done, status, last, seqs, memt, synced>>
      BY <1>f DEF written
    <2>2. \A v \in Writer : Settled(v)' = Settled(v) /\ Popped(v)' = Popped(v)
      BY <1>f, <2>1 DEF Settled, Popped
    <2> QED
      BY <1>f, <2>1, <2>2, OutcomeFrame
  <1>1. ASSUME NEW w \in Writer, NEW sy, NEW b, Write(w, sy, b) PROVE OutcomeInv'
    <2>1. /\ UNCHANGED <<done, status, seqs, memt, synced>> /\ pc[w] = "idle" /\ pc'[w] = "check"
          /\ \A v \in Writer \ {w} : pc'[v] = pc[v] /\ call'[v] = call[v]
      BY <1>0, <1>1 DEF Write, store
    <2>2. \A v \in Writer : Settled(v)' => Settled(v) /\ v # w
      BY <2>1 DEF Settled, QueueInv, DoneCalls
    <2>3. \A u \in Writer : pc'[u] = "finish" => /\ pc[u] = "finish" /\ Popped(u)' = Popped(u)
                                                 /\ w \notin Popped(u) /\ Popped(u) \subseteq Writer
      BY <1>1, <2>1, AppendGroup, GroupMembers DEF Leading
    <2> QED
      BY <2>1, <2>2, <2>3, OutcomeFrame
  <1>2. ASSUME NEW w \in Writer, IdleStep(w) PROVE OutcomeInv'
    BY <1>2, IdleOutcome
  <1>3. ASSUME NEW w \in Writer, RoomSwitch(w) \/ (WaitStep(w) /\ ~RoomSwitch(w)) PROVE OutcomeInv'
    <2>1. WaitStep(w)
      BY <1>3 DEF WaitStep
    <2> QED
      BY <1>f, <2>1, WaitEffect
  <1>4. ASSUME NEW w \in Writer, (RoomFound(w) /\ call[w].batch # NULL) \/ GroupJoin(w) PROVE OutcomeInv'
    BY <1>4, NumberOutcome
  <1>5. ASSUME NEW w \in Writer,
               \/ GroupClose(w) \/ AddRecord(w) \/ AddRecordFail(w) \/ SyncLog(w) \/ SyncLogFail(w)
               \/ InsertEntry(w) \/ InsertDone(w)
        PROVE  OutcomeInv'
    BY <1>5, LeadOutcome
  <1>6. ASSUME NEW w \in Writer, Commit(w) PROVE OutcomeInv'
    BY <1>6, CommitOutcome
  <1>7. ASSUME NEW w \in Writer, Finish(w) PROVE OutcomeInv'
    BY <1>7, FinishOutcome
  <1>8. CASE BgFlushed \/ (OtherStep /\ ~BgFlushed)
    <2>1. OtherStep
      BY <1>8 DEF OtherStep, BgStep
    <2> QED
      BY <1>f, <2>1, OtherEffect
  <1>9. CASE UNCHANGED vars
    BY <1>f, <1>9 DEF vars, threads, queue, group, store, written
  <1> QED
    BY <1>1, <1>2, <1>3, <1>4, <1>5, <1>6, <1>7, <1>8, <1>9, EntryKinds

(* No call is settled at first. *)
LEMMA InitOutcome == Init => OutcomeInv
  <1> SUFFICES ASSUME Init PROVE OutcomeInv
    OBVIOUS
  <1>1. \A w \in Writer : pc[w] = "idle" /\ ~done[w]
    BY ThreadAssumption DEF Init, AfterOpen, MaybeScheduleCompaction, Thread
  <1> QED
    BY <1>1 DEF OutcomeInv, Settled

(* The outcomes of every reachable state. *)
LEMMA OutcomeInductive == Spec => []OutcomeInv
  <1>1. TypeOK /\ QueueInv /\ SeqInv /\ LateInv /\ EntryInv /\ OutcomeInv /\ [Next]_vars => OutcomeInv'
    BY NextOutcome
  <1> QED
    BY <1>1, InitOutcome, TypeCorrect, Inductive, SeqInductive, LateInductive, EntryInductive, PTL DEF Spec

(* For any groups and any failures the status of a Write is true: OK means *)
(* that all entries of the batch are in a memtable, an error that none is, *)
(* and a call made after a background or Sync error fails.                 *)
THEOREM HonestStatus == Spec => []StatusHonest
  <1>1. TypeOK /\ LateInv /\ OutcomeInv => StatusHonest
    <2> SUFFICES ASSUME TypeOK, LateInv, OutcomeInv PROVE StatusTellsTruth
      BY DEF StatusHonest, LateInv
    <2> SUFFICES ASSUME NEW w \in Writer, Settled(w), call[w].batch # NULL
                 PROVE  LET in == {s \in seqs[w] : \E e \in memt : e[2] = s}
                        IN  IF status[w] THEN Cardinality(seqs[w]) = call[w].batch /\ in = seqs[w]
                            ELSE in = {}
      BY DEF StatusTellsTruth
    <2>1. Outcome(w, w)
      BY DEF OutcomeInv
    <2>2. CASE ~status[w]
      BY <2>1, <2>2 DEF Outcome, Untouched
    <2>3. CASE status[w]
      <3>1. Granted(w) /\ call[w].batch \in Nat
        BY <2>1, <2>3, BatchSize DEF Outcome, TypeOK
      <3>2. PICK a \in Nat : seqs[w] = (a + 1)..(a + call[w].batch)
        BY <3>1 DEF Granted, Numbered
      <3>3. Cardinality((a + 1)..(a + call[w].batch)) = call[w].batch
        <4>1. a + 1 \in Int /\ a + call[w].batch \in Int
          BY <3>1
        <4>2. Cardinality((a + 1)..(a + call[w].batch))
                = IF a + 1 > a + call[w].batch THEN 0 ELSE (a + call[w].batch) - (a + 1) + 1
          BY <4>1, FS_Interval
        <4> QED
          BY <3>1, <4>2
      <3>4. {s \in seqs[w] : \E e \in memt : e[2] = s} = seqs[w]
        BY <3>1 DEF Granted
      <3> QED
        BY <2>3, <3>2, <3>3, <3>4
    <2> QED
      BY <2>2, <2>3
  <1> QED
    BY <1>1, TypeCorrect, LateInductive, OutcomeInductive, PTL

(* For any interleaving of group commits, memtable switches, flushes and   *)
(* failures, what Write acknowledged is in an installed table or in a log  *)
(* that recovery reads, and was synced if the caller asked for it.         *)
THEOREM AcksDurable == Spec => []AckedDurable
  <1>1. TypeOK /\ FlushInv /\ EntryInv /\ OutcomeInv => AckedDurable
    <2> SUFFICES ASSUME TypeOK, FlushInv, EntryInv, OutcomeInv, NEW w \in Writer, Acked(w)
                 PROVE  /\ \A s \in seqs[w] : \/ s \in version
                                              \/ \E n \in logs : n >= minlog /\ <<n, s>> \in logged
                        /\ call[w].sync => seqs[w] \subseteq synced
      BY DEF AckedDurable, AckedRecoverable, SyncHonoured
    <2>1. Granted(w)
      BY DEF Acked, OutcomeInv, Outcome
    <2>2. ASSUME NEW s \in seqs[w]
          PROVE  s \in version \/ \E n \in logs : n >= minlog /\ <<n, s>> \in logged
      <3>1. PICK e \in memt : e[2] = s
        BY <2>1 DEF Granted
      <3>2. e \in logged /\ e[1] \in Nat /\ e = <<e[1], s>>
        BY <3>1 DEF EntryInv, EntriesKept, TypeOK, StoreOK, Entry
      <3>3. s \in version \/ (e[1] \in logs /\ e[1] >= minlog)
        <4>1. e[1] # NULL /\ minlog \in Nat /\ logno \in Nat
          BY <3>2, ThreadAssumption DEF TypeOK, StoreOK
        <4> QED
          BY <3>1, <3>2, <4>1 DEF EntryInv, EntriesKept, FlushInv
      <3> QED
        BY <3>2, <3>3
    <2> QED
      BY <2>1, <2>2 DEF Granted
  <1> QED
    BY <1>1, TypeCorrect, FlushInductive, EntryInductive, OutcomeInductive, PTL

-----------------------------------------------------------------------------
(* Where a call of Write can be. *)
Places == \A w \in Writer : pc[w] \in {"idle", "check", "immwait", "done"} \cup Leading

(* What no step does, whoever takes it: last_sequence never falls, entries *)
(* are inserted and numbers given only above it, a settled call stays      *)
(* settled and keeps its numbers, and only Get changes what is referenced. *)
Monotone ==
    /\ lastseq <= lastseq'
    /\ memt \subseteq memt' /\ \A e \in memt' \ memt : e[2] > lastseq
    /\ \A v \in Writer : Settled(v) => Settled(v)' /\ seqs'[v] = seqs[v]
    /\ \A v \in Writer : seqs'[v] = seqs[v] \/ \A s \in seqs'[v] : s > lastseq
    /\ pin' = pin \/ \E r \in Reader : Get(r)

(* Every step is monotone and takes a call where it can be. *)
LEMMA NextMonotone ==
  ASSUME TypeOK, QueueInv, SeqInv, EntryInv, Places, [Next]_vars
  PROVE  Monotone /\ Places'
  <1>0. /\ pc \in [Thread -> PCs] /\ Writer \subseteq Thread /\ lastseq \in Nat
        /\ seqs \in [Writer -> SUBSET Nat]
    BY DEF TypeOK, ThreadsOK, QueueOK, StoreOK, Thread
  <1>f. ASSUME UNCHANGED <<lastseq, memt, seqs>>, pin' = pin \/ \E r \in Reader : Get(r),
               \A v \in Writer : (done[v] => done'[v])
                                 /\ (pc'[v] = pc[v] \/ pc'[v] \in {"immwait", "done"}
                                      \/ (pc[v] \notin {"immwait", "done"} /\ pc'[v] \in {"check"} \cup Leading))
        PROVE  Monotone /\ Places'
    BY <1>0, <1>f DEF Monotone, Places, Settled
  <1>1. ASSUME NEW w \in Writer, NEW sy, NEW b, Write(w, sy, b) PROVE Monotone /\ Places'
    <2>1. /\ UNCHANGED <<lastseq, memt, seqs, pin, done>> /\ pc[w] = "idle" /\ pc'[w] = "check"
          /\ \A v \in Writer \ {w} : pc'[v] = pc[v]
      BY <1>0, <1>1 DEF Write, store
    <2> QED
      BY <1>f, <2>1
  <1>2. ASSUME NEW w \in Writer, IdleStep(w) PROVE Monotone /\ Places'
    <2>1. /\ UNCHANGED <<lastseq, memt, seqs, pin, done>>
          /\ \A v \in Writer \ {w} : pc'[v] = pc[v]
          /\ pc'[w] \in {"immwait", "done"} \/ (pc[w] \in {"check", "room"} /\ pc'[w] \in {"room", "finish"})
      BY <1>0, <1>2, IdleEffect DEF store
    <2> QED
      BY <1>f, <2>1 DEF Leading
  <1>3. ASSUME NEW w \in Writer, RoomSwitch(w) PROVE Monotone /\ Places'
    <2>1. UNCHANGED <<lastseq, memt, seqs, done>> /\ (\A v \in Writer : pc'[v] = pc[v]) /\ pin' = pin
      BY <1>3, WaitEffect DEF WaitStep, written, RoomSwitch
    <2> QED
      BY <1>f, <2>1
  <1>4. ASSUME NEW w \in Writer, WaitStep(w) /\ ~RoomSwitch(w) PROVE Monotone /\ Places'
    BY <1>f, <1>4, WaitEntry DEF written
  <1>5. ASSUME NEW w \in Writer, RoomFound(w) /\ call[w].batch # NULL PROVE Monotone /\ Places'
    <2>1. /\ UNCHANGED <<lastseq, memt, pin, done>> /\ pc[w] = "room" /\ pc'[w] = "group"
          /\ \A v \in Writer \ {w} : pc'[v] = pc[v] /\ seqs'[v] = seqs[v]
          /\ seqs'[w] = (lastseq + 1)..(lastseq + call[w].batch)
      BY <1>0, <1>5 DEF RoomFound, Holds, store
    <2>2. call[w].batch \in Nat
      BY <1>5, BatchSize DEF TypeOK
    <2>3. \A s \in seqs'[w] : s > lastseq
      BY <1>0, <2>1, <2>2
    <2>4. ~done[w]
      BY <2>1 DEF QueueInv, DoneCalls
    <2>5. \A v \in Writer : Settled(v) => v # w /\ Settled(v)'
      BY <2>1, <2>4 DEF Settled
    <2>6. Places'
      BY <2>1 DEF Places, Leading
    <2>7. \A v \in Writer : seqs'[v] = seqs[v] \/ v = w
      BY <2>1
    <2>8. lastseq <= lastseq' /\ memt' = memt /\ pin' = pin
      BY <1>0, <2>1
    <2>9. \A v \in Writer : seqs'[v] = seqs[v] \/ \A s \in seqs'[v] : s > lastseq
      BY <2>3, <2>7
    <2>10. \A v \in Writer : Settled(v) => Settled(v)' /\ seqs'[v] = seqs[v]
      BY <2>5, <2>7
    <2> QED
      BY <2>6, <2>8, <2>9, <2>10 DEF Monotone
  <1>6. ASSUME NEW w \in Writer, GroupJoin(w) PROVE Monotone /\ Places'
    <2>1. writers[last[w] + 1] \in Writer /\ Waiting(writers[last[w] + 1])
      BY <1>6, JoinMember
    <2>v. PICK v \in Writer : v = writers[last[w] + 1]
      BY <2>1
    <2>2. /\ UNCHANGED <<lastseq, memt, pin, pc, done>> /\ pc[w] = "group"
          /\ \A u \in Writer \ {v} : seqs'[u] = seqs[u]
          /\ seqs'[v] = seqs[v]
             \/ (call[v].batch # NULL /\ seqs'[v] = (hi[w] + 1)..(hi[w] + call[v].batch))
      BY <1>0, <1>6, <2>v DEF GroupJoin, Holds, threads, store
    <2>3. call[v].batch # NULL => call[v].batch \in Nat
      BY BatchSize DEF TypeOK
    <2>4. hi[w] \in Nat /\ lastseq <= hi[w]
      BY <2>2 DEF SeqInv, GroupNumbers, Busy, TypeOK, QueueOK
    <2>5. seqs'[v] = seqs[v] \/ \A s \in seqs'[v] : s > lastseq
      BY <1>0, <2>2, <2>3, <2>4
    <2>6. ~Settled(v)
      BY <2>1, <2>v, SettledOld
    <2>7. \A u \in Writer : Settled(u)' = Settled(u)
      BY <2>2 DEF Settled
    <2>8. Places'
      BY <2>2 DEF Places
    <2> QED
      BY <1>0, <2>2, <2>5, <2>6, <2>7, <2>8 DEF Monotone
  <1>7. ASSUME NEW w \in Writer,
               \/ GroupClose(w) \/ AddRecord(w) \/ AddRecordFail(w) \/ SyncLog(w) \/ SyncLogFail(w)
               \/ InsertEntry(w) \/ InsertDone(w)
        PROVE  Monotone /\ Places'
    <2>1. pc[w] # "room"
      BY <1>7 DEF GroupClose, AddRecord, AddRecordFail, SyncLog, SyncLogFail, InsertEntry, InsertDone, Holds
    <2>2. /\ UNCHANGED <<lastseq, seqs, pin, done>> /\ pc[w] \in Busy /\ pc'[w] \in Busy
          /\ \A v \in Writer \ {w} : pc'[v] = pc[v]
      BY <1>0, <1>7, <2>1, LeaderEffect
    <2>3. memt \subseteq memt' /\ \A e \in memt' \ memt : e[2] = next[w]
      BY <1>7 DEF GroupClose, AddRecord, AddRecordFail, SyncLog, SyncLogFail, InsertEntry, InsertDone, store
    <2>4. next[w] \in Nat /\ next[w] > lastseq
      BY <1>0, <2>2 DEF EntryInv, LeaderProgress, Progress, TypeOK, QueueOK
    <2>5. \A v \in Writer : Settled(v) => Settled(v)'
      BY <2>2 DEF Settled, Busy
    <2>6. Places'
      BY <2>2, BusyLeads DEF Places, Busy, Leading, Unlocked
    <2> QED
      BY <1>0, <2>2, <2>3, <2>4, <2>5, <2>6 DEF Monotone
  <1>8. ASSUME NEW w \in Writer, Commit(w) PROVE Monotone /\ Places'
    <2>1. /\ UNCHANGED <<memt, seqs, pin, done>> /\ pc[w] = "commit" /\ pc'[w] = "finish"
          /\ \A v \in Writer \ {w} : pc'[v] = pc[v]
          /\ lastseq' = hi[w]
      BY <1>0, <1>8 DEF Commit, Holds, NewLastSequence, queue
    <2>2. lastseq <= lastseq'
      BY <2>1 DEF SeqInv, GroupNumbers, Busy
    <2>3. \A v \in Writer : Settled(v) => Settled(v)'
      BY <2>1 DEF Settled
    <2>4. Places'
      BY <2>1 DEF Places, Leading
    <2> QED
      BY <2>1, <2>2, <2>3, <2>4 DEF Monotone
  <1>9. ASSUME NEW w \in Writer, Finish(w) PROVE Monotone /\ Places'
    <2>1. /\ UNCHANGED <<lastseq, memt, seqs, pin>> /\ pc'[w] \in {"done", "immwait"}
          /\ \A v \in Writer \ {w} : pc'[v] = pc[v]
          /\ \A v \in Writer : done[v] => done'[v]
      BY <1>0, <1>9 DEF Finish, AfterWrite, store
    <2> QED
      BY <1>f, <2>1
  <1>10. CASE BgFlushed \/ (OtherStep /\ ~BgFlushed)
    <2>1. OtherStep
      BY <1>10 DEF OtherStep, BgStep
    <2> QED
      BY <1>f, <2>1, OtherEffect, OtherFiles DEF written
  <1>11. CASE UNCHANGED vars
    BY <1>f, <1>11 DEF vars, threads, queue, store
  <1> QED
    BY <1>1, <1>2, <1>3, <1>4, <1>5, <1>6, <1>7, <1>8, <1>9, <1>10, <1>11, EntryKinds

(* The places of every reachable state. *)
LEMMA PlacesInductive == Spec => []Places
  <1>1. Init => Places
    BY ThreadAssumption DEF Init, AfterOpen, MaybeScheduleCompaction, Thread, Places
  <1>2. TypeOK /\ QueueInv /\ SeqInv /\ EntryInv /\ Places /\ [Next]_vars => Places'
    BY NextMonotone
  <1> QED
    BY <1>1, <1>2, TypeCorrect, Inductive, SeqInductive, EntryInductive, PTL DEF Spec

(* Outside of a group under way a batch is in the memtables whole or not   *)
(* at all.                                                                 *)
LEMMA WholeBatch ==
  ASSUME TypeOK, QueueInv, SeqInv, OutcomeInv, Places, NEW v \in Writer, ~InGroup(v, Busy)
  PROVE  \/ \A s \in seqs[v] : \E e \in memt : e[2] = s
         \/ Untouched(v)
  <1>1. CASE Settled(v)
    BY <1>1 DEF OutcomeInv, Outcome, Granted
  <1>2. CASE InGroup(v, Formed)
    <2>1. PICK w \in Writer : pc[w] = "finish" /\ v \in Popped(w)
      BY <1>2 DEF InGroup, Formed
    <2> QED
      BY <2>1 DEF OutcomeInv, Outcome, Granted
  <1>3. CASE ~Settled(v) /\ ~InGroup(v, Formed)
    <2>1. pc[v] = "idle" \/ Waiting(v)
      BY <1>3 DEF Places, Settled, Waiting
    <2>2. seqs[v] = {}
      BY <1>3, <2>1 DEF SeqInv, FreshUnnumbered
    <2> QED
      BY <2>2
  <1> QED
    BY <1>1, <1>2, <1>3

-----------------------------------------------------------------------------
(* What a reader references: its snapshot is not in the future, what was   *)
(* acknowledged before is in its view, and every batch is there whole or   *)
(* not at all.                                                             *)
ReadInv ==
    \A r \in Reader :
        /\ pin[r].snap <= lastseq
        /\ \A w \in pin[r].acked : Settled(w) /\ seqs[w] \subseteq View(r)
        /\ \A w \in Writer : seqs[w] \subseteq View(r) \/ seqs[w] \cap View(r) = {}

(* Entries inserted above last_sequence are not seen. *)
LEMMA ViewKept ==
  ASSUME TypeOK, TypeOK', ReadInv, Monotone, NEW r \in Reader, pin'[r] = pin[r]
  PROVE  View(r)' = View(r)
  <1>1. /\ lastseq \in Nat /\ pin[r].snap \in Nat /\ pin[r].snap <= lastseq
        /\ \A e \in memt' : e[2] \in Nat
    BY DEF ReadInv, TypeOK, StoreOK, ControlOK, Entry
  <1>2. memt \subseteq memt' /\ \A e \in memt' \ memt : e[2] > lastseq
    BY DEF Monotone
  <1>3. \A e \in memt' : e[2] <= pin[r].snap => e \in memt
    BY <1>1, <1>2
  <1>4. \A e : e \in memt' /\ e[2] <= pin[r].snap <=> e \in memt /\ e[2] <= pin[r].snap
    BY <1>2, <1>3
  <1>5. {x \in memt' : x[2] <= pin[r].snap /\ x[1] \in {pin[r].mem, pin[r].imm}}
          = {x \in memt : x[2] <= pin[r].snap /\ x[1] \in {pin[r].mem, pin[r].imm}}
    BY <1>4
  <1> QED
    BY <1>5 DEF View

(* A reader references all that last_sequence covers, wherever it is. *)
LEMMA GetView ==
  ASSUME TypeOK, EntryInv, NEW r \in Reader, Get(r)
  PROVE  /\ pin'[r] = References /\ UNCHANGED <<lastseq, seqs, memt>>
         /\ View(r)' = {e[2] : e \in {x \in memt : x[2] <= lastseq}}
  <1>1. /\ pin'[r] = References /\ UNCHANGED <<lastseq, seqs, memt>>
        /\ \A q \in Reader \ {r} : pin'[q] = pin[q]
    BY DEF Get, queue, store, TypeOK, ControlOK
  <1>2. View(r)' = {e[2] : e \in {x \in memt : x[2] <= lastseq /\ x[1] \in {logno, imm}}}
                     \cup {s \in version : s <= lastseq}
    BY <1>1 DEF View, References
  <1>3. \A e \in memt : e[1] \in {logno, imm} \/ e[2] \in version
    BY DEF EntryInv, EntriesKept
  <1>4. \A s \in version : \E e \in memt : e[2] = s
    BY DEF EntryInv, EntriesKept
  <1> QED
    BY <1>1, <1>2, <1>3, <1>4

(* What a new reader finds. *)
LEMMA GetRead ==
  ASSUME TypeOK, QueueInv, SeqInv, EntryInv, OutcomeInv, Places, NEW r \in Reader, Get(r)
  PROVE  /\ pin'[r].snap <= lastseq'
         /\ \A w \in pin'[r].acked : Settled(w)' /\ seqs'[w] \subseteq View(r)'
         /\ \A w \in Writer : seqs'[w] \subseteq View(r)' \/ seqs'[w] \cap View(r)' = {}
  <1>0. lastseq \in Nat /\ \A e \in memt : e[2] \in Nat
    BY DEF TypeOK, StoreOK, Entry
  <1>1. /\ pin'[r] = References /\ UNCHANGED <<lastseq, seqs, memt>>
        /\ View(r)' = {e[2] : e \in {x \in memt : x[2] <= lastseq}}
    BY GetView
  <1>2. pin'[r].snap = lastseq /\ pin'[r].acked = {w \in Writer : Acked(w)}
    BY <1>1 DEF References
  <1>3. \A w \in Writer : Settled(w)' = Settled(w)
    <2>1. UNCHANGED done /\ \A w \in Writer : pc'[w] = pc[w]
      BY OtherEffect DEF OtherStep, written
    <2> QED
      BY <2>1 DEF Settled
  <1>4. ASSUME NEW w \in Writer, seqs[w] \subseteq 1..lastseq, \A s \in seqs[w] : \E e \in memt : e[2] = s
        PROVE  seqs[w] \subseteq View(r)'
    <2> SUFFICES ASSUME NEW s \in seqs[w] PROVE s \in View(r)'
      OBVIOUS
    <2>1. PICK e \in memt : e[2] = s
      BY <1>4
    <2>2. s <= lastseq
      BY <1>0, <1>4
    <2> QED
      BY <1>1, <2>1, <2>2
  <1>5. ASSUME NEW w \in pin'[r].acked PROVE Settled(w)' /\ seqs'[w] \subseteq View(r)'
    <2>1. w \in Writer /\ Settled(w) /\ status[w]
      BY <1>2, <1>5 DEF Acked
    <2>2. \A s \in seqs[w] : \E e \in memt : e[2] = s
      BY <2>1 DEF OutcomeInv, Outcome, Granted
    <2>3. seqs[w] \subseteq 1..lastseq
      BY <2>1, SettledOld
    <2> QED
      BY <1>1, <1>3, <1>4, <2>1, <2>2, <2>3
  <1>6. ASSUME NEW w \in Writer PROVE seqs'[w] \subseteq View(r)' \/ seqs'[w] \cap View(r)' = {}
    <2>1. CASE InGroup(w, Busy)
      <3>1. PICK u \in Writer : pc[u] \in Busy /\ w \in Popped(u)
        BY <2>1 DEF InGroup
      <3>2. hi[u] \in Nat /\ seqs[w] \subseteq (lastseq + 1)..hi[u]
        BY <3>1 DEF SeqInv, GroupNumbers, TypeOK, QueueOK
      <3>3. \A s \in seqs[w] : ~(s <= lastseq)
        BY <1>0, <3>2
      <3>4. \A s \in View(r)' : s <= lastseq
        BY <1>1
      <3> QED
        BY <1>1, <3>3, <3>4
    <2>2. CASE ~InGroup(w, Busy)
      <3>1. seqs[w] \subseteq 1..lastseq
        BY <2>2 DEF SeqInv, OldNumbers
      <3>2. CASE \A s \in seqs[w] : \E e \in memt : e[2] = s
        BY <1>1, <1>4, <3>1, <3>2
      <3>3. CASE Untouched(w)
        <4>1. \A s \in View(r)' : \E e \in memt : e[2] = s
          BY <1>1
        <4>2. seqs[w] \cap View(r)' = {}
          BY <3>3, <4>1 DEF Untouched
        <4> QED
          BY <1>1, <4>2
      <3> QED
        BY <2>2, <3>2, <3>3, WholeBatch
    <2> QED
      BY <2>1, <2>2
  <1> QED
    BY <1>0, <1>1, <1>2, <1>5, <1>6

(* Every step keeps what readers reference. *)
LEMMA NextRead ==
  ASSUME TypeOK, TypeOK', QueueInv, SeqInv, EntryInv, OutcomeInv, Places, ReadInv, [Next]_vars
  PROVE  ReadInv'
  <1>0. lastseq \in Nat /\ lastseq' \in Nat
    BY DEF TypeOK, StoreOK
  <1>1. Monotone
    BY NextMonotone
  <1>2. ASSUME NEW r \in Reader, pin'[r] = pin[r]
        PROVE  /\ pin'[r].snap <= lastseq'
               /\ \A w \in pin'[r].acked : Settled(w)' /\ seqs'[w] \subseteq View(r)'
               /\ \A w \in Writer : seqs'[w] \subseteq View(r)' \/ seqs'[w] \cap View(r)' = {}
    <2>1. View(r)' = View(r)
      BY <1>1, <1>2, ViewKept
    <2>2. /\ pin[r].snap <= lastseq /\ pin[r].snap \in Nat /\ pin[r].acked \subseteq Writer
          /\ pin[r].ver \subseteq Nat /\ \A e \in memt : e[2] \in Nat
      BY DEF ReadInv, TypeOK, ControlOK, StoreOK, Entry
    <2>3. pin'[r].snap <= lastseq'
      BY <1>0, <1>1, <1>2, <2>2 DEF Monotone
    <2>4. \A w \in pin'[r].acked : Settled(w)' /\ seqs'[w] \subseteq View(r)'
      BY <1>1, <1>2, <2>1, <2>2 DEF ReadInv, Monotone
    <2>5. \A s \in View(r) : s \in Nat /\ s <= pin[r].snap
      BY <2>2 DEF View
    <2>6. ASSUME NEW w \in Writer PROVE seqs'[w] \subseteq View(r) \/ seqs'[w] \cap View(r) = {}
      <3>1. CASE seqs'[w] = seqs[w]
        BY <3>1 DEF ReadInv
      <3>2. CASE \A s \in seqs'[w] : s > lastseq
        <4>1. \A s \in View(r) : ~(s > lastseq)
          BY <1>0, <2>2, <2>5
        <4> QED
          BY <3>2, <4>1
      <3> QED
        BY <1>1, <3>1, <3>2 DEF Monotone
    <2> QED
      BY <2>1, <2>3, <2>4, <2>6
  <1>3. CASE pin' = pin
    BY <1>2, <1>3 DEF ReadInv
  <1>4. ASSUME NEW r \in Reader, Get(r) PROVE ReadInv'
    <2>1. \A q \in Reader \ {r} : pin'[q] = pin[q]
      BY <1>4 DEF Get, TypeOK, ControlOK
    <2>2. /\ pin'[r].snap <= lastseq'
          /\ \A w \in pin'[r].acked : Settled(w)' /\ seqs'[w] \subseteq View(r)'
          /\ \A w \in Writer : seqs'[w] \subseteq View(r)' \/ seqs'[w] \cap View(r)' = {}
      BY <1>4, GetRead
    <2> QED
      BY <1>2, <2>1, <2>2 DEF ReadInv
  <1> QED
    BY <1>1, <1>3, <1>4 DEF Monotone

(* No reader at first. *)
LEMMA InitRead == Init => ReadInv
  <1> SUFFICES ASSUME Init PROVE ReadInv
    OBVIOUS
  <1>1. /\ lastseq = 0 /\ seqs = [w \in Writer |-> {}]
        /\ pin = [r \in Reader |-> [snap |-> 0, mem |-> InitLog, imm |-> NULL, ver |-> {}, acked |-> {}]]
    BY DEF Init, AfterOpen
  <1> QED
    BY <1>1 DEF ReadInv

(* What readers reference in every reachable state. *)
LEMMA ReadInductive == Spec => []ReadInv
  <1>1. TypeOK /\ TypeOK' /\ QueueInv /\ SeqInv /\ EntryInv /\ OutcomeInv /\ Places /\ ReadInv /\ [Next]_vars
          => ReadInv'
    BY NextRead
  <1> QED
    BY <1>1, InitRead, TypeCorrect, Inductive, SeqInductive, EntryInductive, OutcomeInductive,
       PlacesInductive, PTL DEF Spec

(* For any number of writers and readers a Get sees every Write that was   *)
(* acknowledged before it, and no part of a batch, while memtables are     *)
(* filled, switched and flushed under it.                                  *)
THEOREM ConsistentReads == Spec => []ReadsConsistent
  <1>1. TypeOK /\ ReadInv => ReadsConsistent
    BY DEF ReadInv, ReadsConsistent, ReadYourWrites, BatchAtomic
  <1> QED
    BY <1>1, TypeCorrect, ReadInductive, PTL

(* What a read can find does not change while it runs without the mutex:   *)
(* last_sequence is published after the entries, and what is inserted      *)
(* meanwhile lies above every snapshot.                                    *)
THEOREM StableSnapshots == Spec => SnapshotStable
  <1>1. ASSUME TypeOK, TypeOK', QueueInv, SeqInv, EntryInv, Places, ReadInv, [Next]_vars
        PROVE  [\A r \in Reader : pc[r] = "reading" /\ pc'[r] = "reading" => View(r)' = View(r)]_vars
    <2> SUFFICES ASSUME NEW r \in Reader, pc[r] = "reading" PROVE View(r)' = View(r)
      OBVIOUS
    <2>1. Monotone
      BY <1>1, NextMonotone
    <2>2. pin'[r] = pin[r]
      <3>1. ASSUME NEW q \in Reader, Get(q) PROVE pin'[r] = pin[r]
        BY <3>1 DEF Get
      <3> QED
        BY <2>1, <3>1 DEF Monotone
    <2> QED
      BY <1>1, <2>1, <2>2, ViewKept
  <1> QED
    BY <1>1, TypeCorrect, Inductive, SeqInductive, EntryInductive, PlacesInductive, ReadInductive, PTL
    DEF Spec, SnapshotStable

=============================================================================
