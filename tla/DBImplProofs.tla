---------------------------- MODULE DBImplProofs ----------------------------
(***************************************************************************)
(* Proofs about DBImpl, for any sets of callers and any sizes: the types,  *)
(* then the writer queue, the condition variables and shutdown.  There is  *)
(* one leader at a time, no wake-up is lost, work is scheduled while       *)
(* anyone sleeps on bg_cv_, and nothing runs after ~DBImpl.                *)
(***************************************************************************)
EXTENDS DBImpl, SequenceTheorems, TLAPS

(* The sequence numbers in the log file and in the full memtable. *)
LEMMA EntrySeqs ==
  ASSUME StoreOK
  PROVE  /\ {e[2] : e \in {x \in logged : x[1] = logno}} \subseteq Nat
         /\ {e[2] : e \in {x \in memt : x[1] = imm}} \subseteq Nat
  BY DEF StoreOK, Entry

(* The sequence numbers that a batch of b entries takes after a. *)
LEMMA BatchNumbers ==
  ASSUME NEW a \in Nat, NEW b \in Nat
  PROVE  (a + 1)..(a + b) \in SUBSET Nat
  OBVIOUS

(* Updating a local of one writer. *)
LEMMA NatUpdate ==
  ASSUME NEW f \in [Writer -> Nat], NEW v \in Writer, NEW n \in Nat
  PROVE  [f EXCEPT ![v] = n] \in [Writer -> Nat] /\ [f EXCEPT ![v] = @ + n] \in [Writer -> Nat]
  OBVIOUS

(* A batch that is there has a size. *)
LEMMA BatchSize ==
  ASSUME QueueOK, NEW v \in Writer, call[v].batch # NULL
  PROVE  call[v].batch \in Nat /\ ByteSize(v) \in Nat
  <1>1. call[v].batch \in Counts \cup {NULL}
    BY DEF QueueOK
  <1>2. call[v].batch \in Nat /\ HeaderSize \in Nat
    BY <1>1, SizeAssumption
  <1> QED
    BY <1>2 DEF ByteSize

(* The initial state has the types of TypeOK. *)
LEMMA InitTypeOK == Init => TypeOK
  <1> SUFFICES ASSUME Init PROVE TypeOK
    OBVIOUS
  <1> USE ThreadAssumption, SizeAssumption DEF Init, AfterOpen
  <1>1. ThreadsOK
    BY DEF ThreadsOK, MaybeScheduleCompaction, Thread, PCs, Locked, Unlocked
  <1>2. QueueOK
    BY DEF QueueOK
  <1>3. StoreOK
    BY DEF StoreOK, InitLog, Entry
  <1>4. ControlOK
    <2>1. mleft \in [Manual -> Nat]
      OBVIOUS
    <2>2. pin \in [Reader -> [snap : Nat, mem : Nat, imm : Nat \cup {NULL},
                             ver : SUBSET Nat, acked : SUBSET Writer]]
      BY DEF InitLog
    <2>3. mdone \in [Manual -> BOOLEAN] /\ l0 \in Nat /\ backlog \in Nat
      OBVIOUS
    <2> QED
      BY <2>1, <2>2, <2>3 DEF ControlOK
  <1> QED
    BY <1>1, <1>2, <1>3, <1>4 DEF TypeOK

(* Steps of a writer keep the types. *)
LEMMA WriterTypeOK ==
  ASSUME TypeOK, NEW w \in Writer, WriterStep(w)
  PROVE  TypeOK'
  <1> USE ThreadAssumption, SizeAssumption
      DEF TypeOK, ThreadsOK, QueueOK, StoreOK, ControlOK, Thread, PCs, Locked, Unlocked, Holds,
          threads, room, group, queue, store, levels, bg, control
  <1>1. CASE AwaitTurn(w)
    BY SMTT(30), <1>1 DEF AwaitTurn, Holds
  <1>2. CASE TakeTurn(w)
    BY <1>2 DEF TakeTurn
  <1>3. CASE ReturnDone(w)
    BY <1>3 DEF ReturnDone, AfterWrite
  <1>4. CASE RoomError(w)
    BY <1>4 DEF RoomError
  <1>5. CASE RoomDelay(w)
    BY <1>5 DEF RoomDelay
  <1>6. CASE RoomWait(w)
    BY SMTT(30), <1>6 DEF RoomWait, WaitOnBg
  <1>7. CASE RoomSwitch(w)
    <2>1. ThreadsOK'
      BY <1>7 DEF RoomSwitch, MaybeScheduleCompaction, NeedsCompaction, Succeeds
    <2>2. QueueOK'
      BY <1>7 DEF RoomSwitch, MaybeScheduleCompaction, NeedsCompaction, Succeeds
    <2>3. StoreOK'
      BY <1>7 DEF RoomSwitch, MaybeScheduleCompaction, NeedsCompaction, Succeeds
    <2>4. ControlOK'
      BY <1>7 DEF RoomSwitch, MaybeScheduleCompaction, NeedsCompaction, Succeeds
    <2> QED BY <2>1, <2>2, <2>3, <2>4 DEF TypeOK
  <1>8. CASE RoomSwitchFail(w)
    <2>1. ThreadsOK'
      BY <1>8 DEF RoomSwitchFail, Fails
    <2>2. QueueOK'
      BY <1>8 DEF RoomSwitchFail, Fails
    <2>3. StoreOK'
      BY <1>8 DEF RoomSwitchFail, Fails
    <2>4. ControlOK'
      BY <1>8 DEF RoomSwitchFail, Fails
    <2> QED BY <2>1, <2>2, <2>3, <2>4 DEF TypeOK
  <1>9. CASE RoomFound(w)
    <2>1. ThreadsOK'
      <3>1. \/ pc' = [pc EXCEPT ![w] = "finish"]
            \/ pc' = [pc EXCEPT ![w] = "group"]
        BY <1>9 DEF RoomFound
      <3> QED
        BY ZenonT(40), <1>9, <3>1 DEF RoomFound
    <2>2. QueueOK'
      <3>1. CASE call[w].batch = NULL
        BY <1>9, <3>1 DEF RoomFound
      <3>2. CASE call[w].batch # NULL
        <4>1. call[w].batch \in Nat /\ ByteSize(w) \in Nat
          BY <3>2, BatchSize
        <4>2. seqs' = [seqs EXCEPT ![w] = (lastseq + 1)..(lastseq + call[w].batch)]
          BY <1>9, <3>2 DEF RoomFound
        <4>3. seqs' \in [Writer -> SUBSET Nat]
          BY <4>1, <4>2, BatchNumbers
        <4>4. /\ last' = [last EXCEPT ![w] = 1]
              /\ size' = [size EXCEPT ![w] = ByteSize(w)]
              /\ hi' = [hi EXCEPT ![w] = lastseq + call[w].batch]
              /\ next' = [next EXCEPT ![w] = lastseq + 1]
          BY <1>9, <3>2 DEF RoomFound
        <4>5. /\ last' \in [Writer -> Nat] /\ size' \in [Writer -> Nat]
              /\ hi' \in [Writer -> Nat] /\ next' \in [Writer -> Nat]
          BY SMTT(30), <4>1, <4>4, NatUpdate
        <4> QED
          BY <1>9, <4>3, <4>5 DEF RoomFound
      <3> QED
        BY <3>1, <3>2
    <2>3. StoreOK'
      BY <1>9 DEF RoomFound, ByteSize
    <2>4. ControlOK'
      BY <1>9 DEF RoomFound, ByteSize
    <2> QED BY <2>1, <2>2, <2>3, <2>4 DEF TypeOK
  <1>10. CASE GroupJoin(w)
    <2>1. ThreadsOK'
      BY <1>10 DEF GroupJoin, MayJoin, ByteSize
    <2>2. QueueOK'
      <3> DEFINE v == writers[last[w] + 1]
      <3>1. v \in Writer
        BY <1>10 DEF GroupJoin
      <3> HIDE DEF v
      <3>2. CASE call[v].batch = NULL
        <4>1. UNCHANGED <<size, hi, seqs>>
          BY <1>10, <3>2 DEF GroupJoin, v
        <4>2. last' \in [Writer -> Nat]
          <5>1. last' = [last EXCEPT ![w] = @ + 1]
            BY <1>10 DEF GroupJoin
          <5> QED
            BY <5>1, NatUpdate
        <4> QED
          BY <1>10, <4>1, <4>2 DEF GroupJoin
      <3>3. CASE call[v].batch # NULL
        <4>1. call[v].batch \in Nat /\ ByteSize(v) \in Nat
          BY <3>1, <3>3, BatchSize
        <4>2. size' = [size EXCEPT ![w] = @ + ByteSize(v)]
          BY <1>10, <3>3 DEF GroupJoin, v
        <4>3. hi' = [hi EXCEPT ![w] = @ + call[v].batch]
          BY <1>10, <3>3 DEF GroupJoin, v
        <4>4. seqs' = [seqs EXCEPT ![v] = (hi[w] + 1)..(hi[w] + call[v].batch)]
          BY <1>10, <3>3 DEF GroupJoin, v
        <4>5. seqs' \in [Writer -> SUBSET Nat]
          BY <3>1, <4>1, <4>4, BatchNumbers
        <4>6. last' \in [Writer -> Nat] /\ size' \in [Writer -> Nat] /\ hi' \in [Writer -> Nat]
          <5>1. last' = [last EXCEPT ![w] = @ + 1]
            BY <1>10 DEF GroupJoin
          <5> QED
            BY <4>1, <4>2, <4>3, <5>1, NatUpdate
        <4> QED
          BY <1>10, <4>5, <4>6 DEF GroupJoin
      <3> QED
        BY <3>2, <3>3
    <2>3. StoreOK'
      BY <1>10 DEF GroupJoin, MayJoin, ByteSize
    <2>4. ControlOK'
      BY <1>10 DEF GroupJoin, MayJoin, ByteSize
    <2> QED BY <2>1, <2>2, <2>3, <2>4 DEF TypeOK
  <1>11. CASE GroupClose(w)
    BY <1>11 DEF GroupClose
  <1>12. CASE AddRecord(w)
    <2>1. ThreadsOK'
      BY <1>12 DEF AddRecord, Succeeds, Entry
    <2>2. QueueOK'
      BY <1>12 DEF AddRecord, Succeeds, Entry
    <2>3. StoreOK'
      <3>1. logged' \subseteq Entry
        BY <1>12 DEF AddRecord, Entry
      <3> QED
        BY <1>12, <3>1 DEF AddRecord
    <2>4. ControlOK'
      BY <1>12 DEF AddRecord, Succeeds, Entry
    <2> QED BY <2>1, <2>2, <2>3, <2>4 DEF TypeOK
  <1>13. CASE AddRecordFail(w)
    <2>1. ThreadsOK'
      BY <1>13 DEF AddRecordFail, Fails
    <2>2. QueueOK'
      BY <1>13 DEF AddRecordFail, Fails
    <2>3. StoreOK'
      BY <1>13 DEF AddRecordFail, Fails
    <2>4. ControlOK'
      BY SMTT(30), <1>13 DEF AddRecordFail, Fails
    <2> QED BY <2>1, <2>2, <2>3, <2>4 DEF TypeOK
  <1>14. CASE SyncLog(w)
    <2>1. ThreadsOK'
      BY <1>14 DEF SyncLog, Succeeds, Entry
    <2>2. QueueOK'
      BY <1>14 DEF SyncLog, Succeeds, Entry
    <2>3. StoreOK'
      <3>1. synced' \subseteq Nat
        <4>1. {e[2] : e \in {x \in logged : x[1] = logno}} \subseteq Nat
          BY EntrySeqs
        <4> QED
          BY <1>14, <4>1 DEF SyncLog
      <3> QED
        BY <1>14, <3>1 DEF SyncLog
    <2>4. ControlOK'
      BY <1>14 DEF SyncLog, Succeeds, Entry
    <2> QED BY <2>1, <2>2, <2>3, <2>4 DEF TypeOK
  <1>15. CASE SyncLogFail(w)
    <2>1. ThreadsOK'
      BY <1>15 DEF SyncLogFail, Fails
    <2>2. QueueOK'
      BY <1>15 DEF SyncLogFail, Fails
    <2>3. StoreOK'
      BY <1>15 DEF SyncLogFail, Fails
    <2>4. ControlOK'
      BY SMTT(30), <1>15 DEF SyncLogFail, Fails
    <2> QED BY <2>1, <2>2, <2>3, <2>4 DEF TypeOK
  <1>16. CASE InsertEntry(w)
    <2>1. ThreadsOK'
      BY <1>16 DEF InsertEntry, Entry
    <2>2. QueueOK'
      BY SMTT(30), <1>16 DEF InsertEntry, Entry
    <2>3. StoreOK'
      BY SMTT(30), <1>16 DEF InsertEntry, Entry
    <2>4. ControlOK'
      BY <1>16 DEF InsertEntry, Entry
    <2> QED BY <2>1, <2>2, <2>3, <2>4 DEF TypeOK
  <1>17. CASE InsertDone(w)
    BY ZenonT(40), <1>17 DEF InsertDone
  <1>18. CASE Commit(w)
    <2>1. ThreadsOK'
      BY <1>18 DEF Commit, RecordBackgroundError, NewLastSequence
    <2>2. QueueOK'
      BY <1>18 DEF Commit, RecordBackgroundError, NewLastSequence
    <2>3. StoreOK'
      BY <1>18 DEF Commit, RecordBackgroundError, NewLastSequence
    <2>4. ControlOK'
      BY <1>18 DEF Commit, RecordBackgroundError, NewLastSequence
    <2> QED BY <2>1, <2>2, <2>3, <2>4 DEF TypeOK
  <1>19. CASE Finish(w)
    <2>1. ThreadsOK'
      BY <1>19 DEF Finish, Popped, GroupStatus, AfterWrite
    <2>2. QueueOK'
      BY SMTT(30), <1>19 DEF Finish, Popped, GroupStatus, AfterWrite
    <2>3. StoreOK'
      BY <1>19 DEF Finish, Popped, GroupStatus, AfterWrite
    <2>4. ControlOK'
      BY <1>19 DEF Finish, Popped, GroupStatus, AfterWrite
    <2> QED BY <2>1, <2>2, <2>3, <2>4 DEF TypeOK
  <1>20. CASE AwaitImm(w)
    BY <1>20 DEF AwaitImm, WaitOnBg
  <1>21. CASE ReturnImm(w)
    BY <1>21 DEF ReturnImm
  <1> QED
    BY <1>1, <1>2, <1>3, <1>4, <1>5, <1>6, <1>7, <1>8, <1>9, <1>10, <1>11, <1>12, <1>13, <1>14, <1>15, <1>16, <1>17, <1>18, <1>19, <1>20, <1>21 DEF WriterStep

(* A file operation of the background thread keeps the types. *)
LEMMA BgIOTypeOK ==
  ASSUME TypeOK, NEW from, NEW to \in PCs, BgIO(from, to)
  PROVE  TypeOK'
  <1> USE DEF BgIO
  <1>1. ThreadsOK'
    BY DEF TypeOK, ThreadsOK, Thread
  <1>2. QueueOK'
    BY DEF TypeOK, QueueOK, queue, room, group
  <1>3. StoreOK'
    BY DEF TypeOK, StoreOK, store
  <1>4. ControlOK'
    <2>1. fails' \in Nat
      BY DEF TypeOK, ControlOK, Succeeds, Fails
    <2>2. bgok' \in BOOLEAN
      BY DEF TypeOK, ControlOK
    <2> QED
      BY <2>1, <2>2 DEF TypeOK, ControlOK, levels
  <1> QED
    BY <1>1, <1>2, <1>3, <1>4 DEF TypeOK

(* Steps of the background thread keep the types. *)
LEMMA BgTypeOK ==
  ASSUME TypeOK, BgStep
  PROVE  TypeOK'
  <1> USE ThreadAssumption, SizeAssumption
      DEF TypeOK, ThreadsOK, QueueOK, StoreOK, ControlOK, Thread, PCs, Locked, Unlocked, Holds,
          threads, room, group, queue, store, levels, bg, control
  <1>1. CASE BgSkip
    BY <1>1 DEF BgSkip
  <1>2. CASE BgFlush
    BY <1>2 DEF BgFlush, MayCompact
  <1>3. CASE BgManualEmpty
    BY <1>3 DEF BgManualEmpty, MayCompact
  <1>4. CASE BgManualWork
    <2>1. ThreadsOK'
      BY <1>4 DEF BgManualWork, MayCompact
    <2>2. QueueOK'
      BY <1>4 DEF BgManualWork, MayCompact
    <2>3. StoreOK'
      BY <1>4 DEF BgManualWork, MayCompact
    <2>4. ControlOK'
      BY <1>4 DEF BgManualWork, MayCompact
    <2> QED BY <2>1, <2>2, <2>3, <2>4 DEF TypeOK
  <1>5. CASE BgPick
    <2>1. ThreadsOK'
      BY <1>5 DEF BgPick, MayCompact, NeedsCompaction
    <2>2. QueueOK'
      BY <1>5 DEF BgPick, MayCompact, NeedsCompaction
    <2>3. StoreOK'
      BY <1>5 DEF BgPick, MayCompact, NeedsCompaction
    <2>4. ControlOK'
      BY <1>5 DEF BgPick, MayCompact, NeedsCompaction
    <2> QED BY <2>1, <2>2, <2>3, <2>4 DEF TypeOK
  <1>6. CASE BgBuild
    BY <1>6, BgIOTypeOK DEF BgBuild
  <1>7. CASE BgApply
    BY <1>7, BgIOTypeOK DEF BgApply
  <1>8. CASE BgInstall
    BY <1>8, BgIOTypeOK DEF BgInstall
  <1>9. CASE BgBuilt
    BY <1>9 DEF BgBuilt, EditLogNumber
  <1>10. CASE BgFlushFails
    BY <1>10 DEF BgFlushFails, FlushReturns
  <1>11. CASE BgFlushed
    <2>1. ThreadsOK'
      BY <1>11 DEF BgFlushed, FlushReturns, KeepLogs, Entry
    <2>2. QueueOK'
      BY <1>11 DEF BgFlushed, FlushReturns, KeepLogs, Entry
    <2>3. StoreOK'
      <3>0. {e[2] : e \in {x \in memt : x[1] = imm}} \subseteq Nat
        BY EntrySeqs
      <3>1. version' \subseteq Nat
        BY <1>11, <3>0 DEF BgFlushed
      <3>2. logs' \subseteq Nat
        BY <1>11 DEF BgFlushed, KeepLogs
      <3> QED
        BY <1>11, <3>1, <3>2 DEF BgFlushed
    <2>4. ControlOK'
      BY <1>11 DEF BgFlushed, FlushReturns, KeepLogs, Entry
    <2> QED BY <2>1, <2>2, <2>3, <2>4 DEF TypeOK
  <1>12. CASE BgWorkImm
    BY <1>12 DEF BgWorkImm
  <1>13. CASE BgWorkEnd
    <2>1. ThreadsOK'
      BY <1>13 DEF BgWorkEnd, Succeeds, Fails
    <2>2. QueueOK'
      BY <1>13 DEF BgWorkEnd, Succeeds, Fails
    <2>3. StoreOK'
      BY <1>13 DEF BgWorkEnd, Succeeds, Fails
    <2>4. ControlOK'
      <3>1. fails' \in Nat
        BY <1>13 DEF BgWorkEnd, Succeeds, Fails
      <3>2. bgok' \in BOOLEAN
        BY <1>13 DEF BgWorkEnd
      <3> QED
        BY <1>13, <3>1, <3>2 DEF BgWorkEnd
    <2> QED BY <2>1, <2>2, <2>3, <2>4 DEF TypeOK
  <1>14. CASE BgInstallStart
    BY <1>14 DEF BgInstallStart
  <1>15. CASE BgCompactFails
    BY <1>15 DEF BgCompactFails, RecordBackgroundError, AfterCompaction
  <1>16. CASE BgCompacted
    <2>1. ThreadsOK'
      BY <1>16 DEF BgCompacted, KeepLogs, AfterCompaction
    <2>2. QueueOK'
      BY <1>16 DEF BgCompacted, KeepLogs, AfterCompaction
    <2>3. StoreOK'
      BY <1>16 DEF BgCompacted, KeepLogs, AfterCompaction
    <2>4. ControlOK'
      BY <1>16 DEF BgCompacted, KeepLogs, AfterCompaction
    <2> QED BY <2>1, <2>2, <2>3, <2>4 DEF TypeOK
  <1>17. CASE BgManualEnd
    BY <1>17 DEF BgManualEnd
  <1>18. CASE BgEnd
    BY <1>18 DEF BgEnd, MaybeScheduleCompaction, NeedsCompaction
  <1> QED
    BY <1>1, <1>2, <1>3, <1>4, <1>5, <1>6, <1>7, <1>8, <1>9, <1>10, <1>11, <1>12, <1>13, <1>14, <1>15, <1>16, <1>17, <1>18 DEF BgStep

(* Every step keeps the types. *)
LEMMA NextTypeOK == TypeOK /\ [Next]_vars => TypeOK'
  <1> SUFFICES ASSUME TypeOK, [Next]_vars PROVE TypeOK'
    OBVIOUS
  <1> USE ThreadAssumption, SizeAssumption
      DEF TypeOK, ThreadsOK, QueueOK, StoreOK, ControlOK, Thread, PCs, Locked, Unlocked, Holds,
          threads, room, group, queue, store, levels, bg, control
  <1>1. ASSUME NEW p \in Thread, Lock(p) PROVE TypeOK'
    BY <1>1 DEF Lock
  <1>2. ASSUME NEW w \in Writer, NEW sy \in BOOLEAN, NEW b \in Counts \cup {NULL}, Write(w, sy, b)
        PROVE  TypeOK'
    <2>1. ThreadsOK'
      BY <1>2 DEF Write
    <2>2. QueueOK'
      <3>1. writers' \in Seq(Writer)
        BY <1>2 DEF Write
      <3>2. call' \in [Writer -> [sync : BOOLEAN, batch : Counts \cup {NULL},
                                 late : BOOLEAN, asof : Nat]]
        <4> DEFINE c == [sync |-> sy, batch |-> b, asof |-> lastseq,
                         late |-> bgerr \/ \E v \in Writer : syncerr[v]]
        <4>1. c \in [sync : BOOLEAN, batch : Counts \cup {NULL}, late : BOOLEAN, asof : Nat]
          OBVIOUS
        <4>2. call' = [call EXCEPT ![w] = c]
          BY <1>2 DEF Write
        <4> HIDE DEF c
        <4> QED
          BY <4>1, <4>2
      <3> QED
        BY <1>2, <3>1, <3>2 DEF Write
    <2>3. StoreOK' /\ ControlOK'
      BY <1>2 DEF Write
    <2> QED
      BY <2>1, <2>2, <2>3
  <1>3. ASSUME NEW w \in Writer, WriterStep(w) PROVE TypeOK'
    BY <1>3, WriterTypeOK
  <1>4. ASSUME NEW r \in Reader, Get(r) PROVE TypeOK'
    <2>1. ThreadsOK' /\ QueueOK' /\ StoreOK'
      BY <1>4 DEF Get
    <2>2. References \in [snap : Nat, mem : Nat, imm : Nat \cup {NULL},
                          ver : SUBSET Nat, acked : SUBSET Writer]
      BY DEF References
    <2>3. ControlOK'
      BY <1>4, <2>2 DEF Get
    <2> QED
      BY <2>1, <2>3
  <1>5. ASSUME NEW r \in Reader, GetDone(r) PROVE TypeOK'
    <2>1. ThreadsOK'
      <3>1. PICK b \in backlog..MaxBacklog :
              pc' = LET p == [pc EXCEPT ![r] = "done"] IN
                    IF b > backlog
                    THEN MaybeScheduleCompaction(p, bgerr, imm, manual, l0, b)
                    ELSE p
        BY <1>5 DEF GetDone
      <3>2. \/ pc' = [pc EXCEPT ![r] = "done"]
            \/ pc' = [[pc EXCEPT ![r] = "done"] EXCEPT ![BG] = "start"]
        BY <3>1 DEF MaybeScheduleCompaction
      <3>3. pc' \in [Thread -> PCs]
        BY ZenonT(40), <3>2
      <3>4. UNCHANGED <<mutex, cvwait, bgwait>>
        BY <1>5 DEF GetDone
      <3> QED
        BY <3>3, <3>4
    <2>2. QueueOK' /\ StoreOK'
      BY <1>5 DEF GetDone
    <2>3. ControlOK'
      BY <1>5 DEF GetDone
    <2> QED
      BY <2>1, <2>2, <2>3
  <1>6. ASSUME NEW m \in Manual, CompactRange(m) PROVE TypeOK'
    BY <1>6 DEF CompactRange
  <1>7. ASSUME NEW m \in Manual, ManualSubmit(m) PROVE TypeOK'
    BY <1>7 DEF ManualSubmit, MaybeScheduleCompaction
  <1>8. ASSUME NEW m \in Manual, ManualWait(m) PROVE TypeOK'
    BY <1>8 DEF ManualWait, WaitOnBg
  <1>9. ASSUME NEW m \in Manual, ManualReturn(m) PROVE TypeOK'
    BY <1>9 DEF ManualReturn
  <1>10. CASE Close
    BY <1>10 DEF Close
  <1>11. CASE CloserStep
    <2>1. CASE CloseWait
      BY <2>1 DEF CloseWait, WaitOnBg
    <2>2. CASE CloseDone
      BY <2>2 DEF CloseDone
    <2> QED
      BY <1>11, <2>1, <2>2 DEF CloserStep
  <1>12. CASE BgStep
    BY <1>12, BgTypeOK
  <1>13. CASE Terminated \/ UNCHANGED vars
    <2>1. UNCHANGED vars
      BY <1>13 DEF Terminated
    <2>2. ThreadsOK' /\ QueueOK'
      BY <2>1 DEF vars
    <2>3. StoreOK' /\ ControlOK'
      BY <2>1 DEF vars
    <2> QED
      BY <2>2, <2>3
  <1> HIDE DEF TypeOK, Thread, vars
  <1> QED
    BY <1>1, <1>2, <1>3, <1>4, <1>5, <1>6, <1>7, <1>8, <1>9, <1>10, <1>11, <1>12, <1>13
    DEF Next, ManualStep

(* The state of DBImpl keeps its types: in particular the mutex belongs to *)
(* one thread or none, only writers sleep on a Writer's condition          *)
(* variable, and all sequence and file numbers stay natural numbers.       *)
THEOREM TypeCorrect == Spec => []TypeOK
  BY InitTypeOK, NextTypeOK, PTL DEF Spec

-----------------------------------------------------------------------------
(* The writer queue, the condition variables and shutdown. *)

Client == Writer \cup Reader \cup Manual

(* A thread that owns mutex_ is at a step of code that holds it, and it is *)
(* not asleep.                                                             *)
OwnerRuns == mutex # NULL => pc[mutex] \in Locked /\ mutex \notin cvwait \cup bgwait

(* Who sleeps on its Writer::cv is in the loop of Write. *)
CvSleepers == \A w \in cvwait : pc[w] = "check" /\ ~done[w]

(* A Writer is queued once. *)
QueuedOnce == \A i, j \in 1..Len(writers) : writers[i] = writers[j] => i = j

(* writers_ holds the calls that are waiting and the one that leads. *)
Waiting(w) == pc[w] \in Leading \/ (pc[w] = "check" /\ ~done[w])
QueueIsWaiting ==
    /\ \A i \in 1..Len(writers) : Waiting(writers[i])
    /\ \A w \in Writer : Waiting(w) => \E i \in 1..Len(writers) : writers[i] = w

(* A leader is the front of the queue, and its group is in the queue. *)
LeaderGroup ==
    \A w \in Writer :
        /\ pc[w] \in Leading => /\ Len(writers) > 0 /\ w = writers[1]
                                /\ 1 <= last[w] /\ last[w] <= Len(writers)
        /\ pc[w] \in {"idle", "check", "room"} => last[w] = 1

(* A writer is done only after it called, and its leader was another one. *)
DoneCalls == \A w \in Writer : done[w] => pc[w] \in {"check", "immwait", "done"}

FrontAwake == Len(writers) > 0 => writers[1] \notin cvwait

QueueInv ==
    /\ CvSleepers /\ QueuedOnce /\ QueueIsWaiting /\ LeaderGroup /\ DoneCalls /\ FrontAwake

(* Who sleeps on bg_cv_ is in a loop around its Wait. *)
BgSleepers ==
    \A p \in bgwait : \/ p \in Writer /\ pc[p] \in {"room", "immwait"}
                      \/ p \in Manual /\ pc[p] = "manual"
                      \/ p = Closer /\ pc[p] = "closing"

(* MaybeScheduleCompaction is called wherever work may have appeared. *)
WorkScheduled ==
    ~bgerr /\ ~shutdown /\ (imm # NULL \/ manual # NULL \/ NeedsCompaction(l0, backlog))
      => Scheduled

(* After ~DBImpl has begun no client is in a call. *)
ShutdownQuiet ==
    /\ shutdown <=> pc[Closer] # "idle"
    /\ shutdown => \A p \in Client : pc[p] \in {"idle", "done"}

SleepInv ==
    BgSleepers /\ WorkScheduled /\ ShutdownQuiet /\ SleepersHaveWork /\ NothingAfterClose

-----------------------------------------------------------------------------
(* Steps of other threads do not touch the queue. *)
LEMMA QueueFrame ==
  ASSUME TypeOK, QueueInv, UNCHANGED <<writers, done, last, cvwait>>,
         \A w \in Writer : pc'[w] = pc[w]
  PROVE  QueueInv'
  <1> USE DEF TypeOK, ThreadsOK, QueueOK
  <1>1. \A w \in Writer : Waiting(w)' = Waiting(w)
    BY DEF Waiting
  <1>2. \A i \in 1..Len(writers) : writers[i] \in Writer
    OBVIOUS
  <1>3. CvSleepers' /\ DoneCalls' /\ LeaderGroup'
    BY DEF QueueInv, CvSleepers, DoneCalls, LeaderGroup
  <1>4. QueuedOnce' /\ FrontAwake'
    BY DEF QueueInv, QueuedOnce, FrontAwake
  <1>5. QueueIsWaiting'
    BY <1>1, <1>2 DEF QueueInv, QueueIsWaiting
  <1> QED
    BY <1>3, <1>4, <1>5 DEF QueueInv

(* The leader goes on leading. *)
LEMMA LeaderFrame ==
  ASSUME TypeOK, QueueInv, NEW w \in Writer,
         UNCHANGED <<writers, done, cvwait>>,
         pc[w] \in Leading, pc'[w] \in Leading,
         \A v \in Writer \ {w} : pc'[v] = pc[v] /\ last'[v] = last[v],
         1 <= last'[w], last'[w] <= Len(writers), pc'[w] = "room" => last'[w] = 1
  PROVE  QueueInv'
  <1> USE DEF TypeOK, ThreadsOK, QueueOK
  <1>0. pc[w] \notin {"check", "idle", "immwait", "done"} /\ pc'[w] \notin {"check", "idle"}
    BY DEF Leading, Unlocked
  <1>1. \A v \in Writer : Waiting(v)' = Waiting(v)
    BY DEF Waiting
  <1>2. \A i \in 1..Len(writers) : writers[i] \in Writer
    OBVIOUS
  <1>3. ~done[w]
    BY <1>0 DEF QueueInv, DoneCalls
  <1>4. w \notin cvwait
    BY <1>0 DEF QueueInv, CvSleepers
  <1>5. CvSleepers' /\ DoneCalls'
    BY <1>3, <1>4 DEF QueueInv, CvSleepers, DoneCalls
  <1>6. LeaderGroup'
    BY <1>0 DEF QueueInv, LeaderGroup
  <1>7. QueuedOnce' /\ FrontAwake'
    BY DEF QueueInv, QueuedOnce, FrontAwake
  <1>8. QueueIsWaiting'
    BY <1>1, <1>2 DEF QueueInv, QueueIsWaiting
  <1> QED
    BY <1>5, <1>6, <1>7, <1>8 DEF QueueInv

(* A call whose outcome is fixed leaves, without being in the queue. *)
LEMMA LeaveFrame ==
  ASSUME TypeOK, QueueInv, NEW w \in Writer,
         UNCHANGED <<writers, done, last, cvwait>>,
         pc[w] = "immwait" \/ (pc[w] = "check" /\ done[w]),
         pc'[w] \in {"immwait", "done"},
         \A v \in Writer \ {w} : pc'[v] = pc[v]
  PROVE  QueueInv'
  <1> USE DEF TypeOK, ThreadsOK, QueueOK
  <1>1. \A v \in Writer : Waiting(v)' = Waiting(v)
    BY DEF Waiting, Leading, Unlocked
  <1>2. \A i \in 1..Len(writers) : writers[i] \in Writer
    OBVIOUS
  <1>4. w \notin cvwait
    BY DEF QueueInv, CvSleepers
  <1>5. CvSleepers' /\ DoneCalls'
    BY <1>4 DEF QueueInv, CvSleepers, DoneCalls
  <1>6. LeaderGroup'
    BY DEF QueueInv, LeaderGroup, Leading, Unlocked
  <1>7. QueuedOnce' /\ FrontAwake'
    BY DEF QueueInv, QueuedOnce, FrontAwake
  <1>8. QueueIsWaiting'
    BY <1>1, <1>2 DEF QueueInv, QueueIsWaiting
  <1> QED
    BY <1>5, <1>6, <1>7, <1>8 DEF QueueInv

(* push_back(&w) keeps the queue in order. *)
LEMMA WriteQueue ==
  ASSUME TypeOK, QueueInv, NEW w \in Writer, NEW sy, NEW b, Write(w, sy, b)
  PROVE  QueueInv'
  <1>0. /\ writers \in Seq(Writer) /\ pc \in [Thread -> PCs] /\ cvwait \subseteq Writer
        /\ done \in [Writer -> BOOLEAN] /\ last \in [Writer -> Nat]
    BY DEF TypeOK, ThreadsOK, QueueOK
  <1>1. /\ pc[w] = "idle" /\ pc' = [pc EXCEPT ![w] = "check"]
        /\ writers' = Append(writers, w)
        /\ UNCHANGED <<cvwait, done, last>>
    BY <1>0 DEF Write, group
  <1>2. w \in Thread /\ pc'[w] = "check" /\ \A v \in Writer \ {w} : pc'[v] = pc[v]
    BY <1>0, <1>1 DEF Thread
  <1>3. ~done[w] /\ w \notin cvwait
    BY <1>0, <1>1 DEF QueueInv, DoneCalls, CvSleepers
  <1>4. /\ Len(writers') = Len(writers) + 1
        /\ \A i \in 1..Len(writers) : writers'[i] = writers[i] /\ writers[i] \in Writer
        /\ writers'[Len(writers) + 1] = w
        /\ Len(writers) \in Nat
    BY <1>0, <1>1
  <1>5. \A i \in 1..Len(writers) : writers[i] # w
    BY <1>0, <1>1 DEF QueueInv, QueueIsWaiting, Waiting, Leading, Unlocked
  <1>6. CvSleepers' /\ DoneCalls'
    BY <1>0, <1>1, <1>2, <1>3 DEF QueueInv, CvSleepers, DoneCalls
  <1>7. QueuedOnce'
    <2> SUFFICES ASSUME NEW i \in 1..(Len(writers) + 1), NEW j \in 1..(Len(writers) + 1),
                        writers'[i] = writers'[j]
                 PROVE  i = j
      BY <1>4 DEF QueuedOnce
    <2>1. CASE i \in 1..Len(writers) /\ j \in 1..Len(writers)
      BY <1>4, <2>1 DEF QueueInv, QueuedOnce
    <2>2. CASE i = Len(writers) + 1 \/ j = Len(writers) + 1
      BY <1>4, <1>5, <2>2
    <2> QED
      BY <1>4, <2>1, <2>2
  <1>8. LeaderGroup'
    <2>1. ASSUME NEW v \in Writer, pc'[v] \in Leading
          PROVE  /\ Len(writers') > 0 /\ v = writers'[1]
                 /\ 1 <= last'[v] /\ last'[v] <= Len(writers')
      <3>1. v # w /\ pc[v] \in Leading
        BY <1>0, <1>2, <2>1 DEF Leading, Unlocked
      <3>2. Len(writers) > 0 /\ v = writers[1] /\ 1 <= last[v] /\ last[v] <= Len(writers)
        BY <3>1 DEF QueueInv, LeaderGroup
      <3> QED
        BY <1>0, <1>1, <1>4, <3>2
    <2>2. ASSUME NEW v \in Writer, pc'[v] \in {"idle", "check", "room"} PROVE last'[v] = 1
      BY <1>0, <1>1, <1>2, <2>2 DEF QueueInv, LeaderGroup
    <2> QED
      BY <1>0, <2>1, <2>2 DEF LeaderGroup
  <1>9. QueueIsWaiting'
    <2>1. \A v \in Writer \ {w} : Waiting(v)' = Waiting(v)
      BY <1>0, <1>1, <1>2 DEF Waiting
    <2>2. Waiting(w)'
      BY <1>0, <1>1, <1>2, <1>3 DEF Waiting
    <2>3. ASSUME NEW i \in 1..Len(writers') PROVE Waiting(writers[i])' 
      BY <1>0, <1>4, <1>5, <2>1, <2>2, <2>3 DEF QueueInv, QueueIsWaiting
    <2>4. ASSUME NEW v \in Writer, Waiting(v)' PROVE \E i \in 1..Len(writers') : writers'[i] = v
      <3>1. CASE v = w
        BY <1>0, <1>4, <3>1
      <3>2. CASE v # w
        <4>1. PICK i \in 1..Len(writers) : writers[i] = v
          BY <1>0, <2>1, <2>4, <3>2 DEF QueueInv, QueueIsWaiting
        <4> QED
          BY <1>0, <1>4, <4>1
      <3> QED
        BY <3>1, <3>2
    <2> QED
      BY <1>0, <2>3, <2>4 DEF QueueIsWaiting
  <1>10. FrontAwake'
    BY <1>0, <1>1, <1>3, <1>4 DEF QueueInv, FrontAwake
  <1> QED
    BY <1>6, <1>7, <1>8, <1>9, <1>10 DEF QueueInv

(* A writer behind the front goes to sleep. *)
LEMMA AwaitQueue ==
  ASSUME TypeOK, QueueInv, NEW w \in Writer, AwaitTurn(w)
  PROVE  QueueInv'
  <1>0. /\ writers \in Seq(Writer) /\ pc \in [Thread -> PCs] /\ cvwait \subseteq Writer
        /\ done \in [Writer -> BOOLEAN] /\ last \in [Writer -> Nat]
    BY DEF TypeOK, ThreadsOK, QueueOK
  <1>1. /\ pc[w] = "check" /\ ~done[w] /\ w # Head(writers)
        /\ cvwait' = cvwait \cup {w} /\ UNCHANGED <<pc, writers, done, last>>
    BY <1>0 DEF AwaitTurn, Holds, queue, group
  <1>2. \A v \in Writer : Waiting(v)' = Waiting(v)
    BY <1>0, <1>1 DEF Waiting
  <1>3. \A i \in 1..Len(writers) : writers[i] \in Writer
    BY <1>0
  <1>4. CvSleepers' /\ DoneCalls'
    BY <1>0, <1>1 DEF QueueInv, CvSleepers, DoneCalls
  <1>5. LeaderGroup' /\ QueuedOnce'
    BY <1>0, <1>1 DEF QueueInv, LeaderGroup, QueuedOnce
  <1>6. QueueIsWaiting'
    BY <1>0, <1>1, <1>2, <1>3 DEF QueueInv, QueueIsWaiting
  <1>7. FrontAwake'
    BY <1>0, <1>1 DEF QueueInv, FrontAwake
  <1> QED
    BY <1>4, <1>5, <1>6, <1>7 DEF QueueInv

(* The front of the queue becomes the leader. *)
LEMMA TakeTurnQueue ==
  ASSUME TypeOK, QueueInv, NEW w \in Writer, TakeTurn(w)
  PROVE  QueueInv'
  <1>0. /\ writers \in Seq(Writer) /\ pc \in [Thread -> PCs] /\ cvwait \subseteq Writer
        /\ done \in [Writer -> BOOLEAN] /\ last \in [Writer -> Nat]
    BY DEF TypeOK, ThreadsOK, QueueOK
  <1>1. /\ pc[w] = "check" /\ ~done[w] /\ w = Head(writers)
        /\ pc' = [pc EXCEPT ![w] = "room"]
        /\ UNCHANGED <<writers, done, last, cvwait>>
    BY <1>0 DEF TakeTurn, Holds, group
  <1>2. w \in Thread /\ pc'[w] = "room" /\ \A v \in Writer \ {w} : pc'[v] = pc[v]
    BY <1>0, <1>1 DEF Thread
  <1>3. PICK i \in 1..Len(writers) : writers[i] = w
    BY <1>0, <1>1 DEF QueueInv, QueueIsWaiting, Waiting
  <1>4. Len(writers) > 0 /\ w = writers[1] /\ Len(writers) \in Nat
    BY <1>0, <1>1, <1>3
  <1>5. w \notin cvwait
    BY <1>0, <1>4 DEF QueueInv, FrontAwake
  <1>6. \A v \in Writer : Waiting(v)' = Waiting(v)
    BY <1>0, <1>1, <1>2 DEF Waiting, Leading
  <1>7. \A j \in 1..Len(writers) : writers[j] \in Writer
    BY <1>0
  <1>8. CvSleepers' /\ DoneCalls'
    BY <1>0, <1>1, <1>2, <1>5 DEF QueueInv, CvSleepers, DoneCalls
  <1>9. LeaderGroup'
    BY <1>0, <1>1, <1>2, <1>4 DEF QueueInv, LeaderGroup, Leading
  <1>10. QueuedOnce' /\ FrontAwake'
    BY <1>0, <1>1 DEF QueueInv, QueuedOnce, FrontAwake
  <1>11. QueueIsWaiting'
    BY <1>0, <1>1, <1>6, <1>7 DEF QueueInv, QueueIsWaiting
  <1> QED
    BY <1>8, <1>9, <1>10, <1>11 DEF QueueInv

(* The leader pops its group, wakes its members and the new front. *)
LEMMA FinishQueue ==
  ASSUME TypeOK, QueueInv, NEW w \in Writer, Finish(w)
  PROVE  QueueInv'
  <1>0. /\ writers \in Seq(Writer) /\ pc \in [Thread -> PCs] /\ cvwait \subseteq Writer
        /\ done \in [Writer -> BOOLEAN] /\ last \in [Writer -> Nat]
    BY DEF TypeOK, ThreadsOK, QueueOK
  <1> DEFINE k == last[w]
             n == Len(writers)
  <1>1. /\ pc[w] = "finish" /\ pc[w] \in Leading
        /\ writers' = SubSeq(writers, k + 1, n)
        /\ done' = [v \in Writer |-> done[v] \/ v \in Popped(w) \ {w}]
        /\ cvwait' = cvwait \ (Popped(w) \cup NewHead(w))
        /\ pc' = [pc EXCEPT ![w] = AfterWrite(w, status[w])]
        /\ last' = last
    BY <1>0 DEF Finish, Holds, group, Leading
  <1>2. /\ w \in Thread /\ pc'[w] \in {"immwait", "done"}
        /\ \A v \in Writer \ {w} : pc'[v] = pc[v]
    BY <1>0, <1>1 DEF Thread, AfterWrite
  <1>3. k \in Nat /\ n \in Nat /\ 1 <= k /\ k <= n /\ w = writers[1]
    BY <1>0, <1>1 DEF QueueInv, LeaderGroup
  <1>4. /\ Len(writers') = n - k
        /\ \A i \in 1..(n - k) : writers'[i] = writers[i + k]
    BY SMTT(30), <1>0, <1>1, <1>3
  <1>5. \A i \in 1..n : writers[i] \in Writer
    BY <1>0
  <1>6. \A v \in Writer : pc[v] \in Leading => v = w
    BY <1>0, <1>3 DEF QueueInv, LeaderGroup
  <1>7. ~done[w]
    BY <1>0, <1>1 DEF QueueInv, DoneCalls
  <1> HIDE DEF k, n
  <1>8. \A i \in 1..n : writers[i] \in Popped(w) <=> i <= k
    BY <1>0, <1>3 DEF Popped, QueueInv, QueuedOnce, k, n
  <1>9. \A v \in Writer : v \in Popped(w) <=> \E i \in 1..k : writers[i] = v
    BY <1>0 DEF Popped, k
  <1>10. CvSleepers'
    <2>1. w \in Popped(w)
      BY <1>0, <1>3, <1>9
    <2> QED
      BY <1>0, <1>1, <1>2, <2>1 DEF QueueInv, CvSleepers
  <1>11. QueuedOnce'
    <2> SUFFICES ASSUME NEW i \in 1..(n - k), NEW j \in 1..(n - k), writers'[i] = writers'[j]
                 PROVE  i = j
      BY <1>0, <1>4 DEF QueuedOnce
    <2>1. writers[i + k] = writers[j + k] /\ i + k \in 1..n /\ j + k \in 1..n
      BY <1>0, <1>3, <1>4
    <2>2. i + k = j + k
      BY <1>0, <2>1 DEF QueueInv, QueuedOnce, n
    <2> QED
      BY <1>0, <1>3, <2>2
  <1>12. DoneCalls'
    <2> SUFFICES ASSUME NEW v \in Writer, done'[v]
                 PROVE  pc'[v] \in {"check", "immwait", "done"}
      BY <1>0 DEF DoneCalls
    <2>1. CASE v = w
      BY <1>0, <1>2, <2>1
    <2>2. CASE v # w /\ done[v]
      BY <1>0, <1>2, <2>2 DEF QueueInv, DoneCalls
    <2>3. CASE v # w /\ v \in Popped(w)
      <3>1. PICK i \in 1..n : writers[i] = v
        BY <1>0, <1>3, <1>9, <2>3
      <3>2. Waiting(v)
        BY <3>1 DEF QueueInv, QueueIsWaiting, n
      <3>3. pc[v] = "check"
        BY <1>0, <1>6, <2>3, <3>2 DEF Waiting
      <3> QED
        BY <1>0, <1>2, <2>3, <3>3
    <2> QED
      BY <1>0, <1>1, <2>1, <2>2, <2>3
  <1>13. LeaderGroup'
    <2>1. \A v \in Writer : pc'[v] \notin Leading
      BY <1>0, <1>2, <1>6 DEF Leading, Unlocked
    <2>2. ASSUME NEW v \in Writer, pc'[v] \in {"idle", "check", "room"} PROVE last'[v] = 1
      BY <1>0, <1>1, <1>2, <2>2 DEF QueueInv, LeaderGroup
    <2> QED
      BY <1>0, <2>1, <2>2 DEF LeaderGroup
  <1>14. QueueIsWaiting'
    <2>1. ASSUME NEW i \in 1..(n - k) PROVE Waiting(writers[i])'
      <3>1. i + k \in 1..n /\ ~(i + k <= k) /\ writers'[i] = writers[i + k]
        BY <1>0, <1>3, <1>4
      <3>2. Waiting(writers[i + k]) /\ writers[i + k] \notin Popped(w) /\ writers[i + k] \in Writer
        BY <1>0, <1>5, <1>8, <3>1 DEF QueueInv, QueueIsWaiting, n
      <3>3. writers[i + k] # w
        BY <1>0, <1>3, <1>9, <3>2
      <3>4. /\ pc'[writers[i + k]] = pc[writers[i + k]]
            /\ done'[writers[i + k]] = done[writers[i + k]]
        BY <1>0, <1>1, <1>2, <3>2, <3>3
      <3> QED
        BY <3>1, <3>2, <3>4 DEF Waiting
    <2>2. ASSUME NEW v \in Writer, Waiting(v)'
          PROVE  \E i \in 1..(n - k) : writers'[i] = v
      <3>1. v # w /\ pc'[v] = pc[v]
        BY <1>0, <1>2, <2>2 DEF Waiting, Leading, Unlocked
      <3>2. pc[v] = "check" /\ ~done[v] /\ v \notin Popped(w)
        BY <1>0, <1>1, <1>6, <2>2, <3>1 DEF Waiting
      <3>3. PICK j \in 1..n : writers[j] = v
        BY <3>2 DEF QueueInv, QueueIsWaiting, Waiting, n
      <3>4. ~(j <= k)
        BY <1>0, <1>8, <3>2, <3>3
      <3>5. j - k \in 1..(n - k) /\ (j - k) + k = j
        BY <1>0, <1>3, <3>4
      <3> QED
        BY <1>0, <1>4, <3>3, <3>5
    <2> QED
      BY <1>0, <1>4, <2>1, <2>2 DEF QueueIsWaiting
  <1>15. FrontAwake'
    <2> SUFFICES ASSUME n - k > 0 PROVE writers'[1] \notin cvwait'
      BY <1>0, <1>4 DEF FrontAwake
    <2>1. 1 \in 1..(n - k) /\ writers'[1] = writers[1 + k] /\ 1 + k = k + 1
      BY <1>0, <1>3, <1>4
    <2>2. writers[k + 1] \in NewHead(w)
      BY <1>0, <1>3 DEF NewHead, k, n
    <2> QED
      BY <1>0, <1>1, <2>1, <2>2
  <1> QED
    BY <1>10, <1>11, <1>12, <1>13, <1>14, <1>15 DEF QueueInv

(* A step of a writer keeps the queue in order. *)
LEMMA WriterQueue ==
  ASSUME TypeOK, QueueInv, NEW w \in Writer, WriterStep(w)
  PROVE  QueueInv'
  <1>0. /\ writers \in Seq(Writer) /\ pc \in [Thread -> PCs] /\ last \in [Writer -> Nat]
        /\ w \in Thread /\ Writer \subseteq Thread /\ BG \notin Writer
    BY ThreadAssumption DEF TypeOK, ThreadsOK, QueueOK, Thread
  <1>a. pc[w] \in Leading => 1 <= last[w] /\ last[w] <= Len(writers)
    BY DEF QueueInv, LeaderGroup
  <1>b. pc[w] = "room" => last[w] = 1
    BY DEF QueueInv, LeaderGroup
  <1> USE DEF queue, room, group
  <1>1. CASE AwaitTurn(w)
    BY <1>1, AwaitQueue
  <1>2. CASE TakeTurn(w)
    BY <1>2, TakeTurnQueue
  <1>3. CASE ReturnDone(w)
    <2>1. /\ UNCHANGED <<writers, done, last, cvwait>> /\ pc[w] = "check" /\ done[w]
          /\ pc'[w] \in {"immwait", "done"} /\ \A v \in Writer \ {w} : pc'[v] = pc[v]
      BY <1>0, <1>3 DEF ReturnDone, Holds, AfterWrite
    <2> QED
      BY <2>1, LeaveFrame
  <1>4. CASE RoomError(w)
    <2>1. /\ UNCHANGED <<writers, done, last, cvwait>> /\ pc[w] \in Leading /\ pc'[w] \in Leading
          /\ (pc'[w] = "room" => pc[w] = "room") /\ \A v \in Writer \ {w} : pc'[v] = pc[v]
      BY <1>0, <1>4 DEF RoomError, Holds, Leading, Unlocked
    <2> QED
      BY <1>a, <1>b, <2>1, LeaderFrame
  <1>5. CASE RoomDelay(w)
    <2>1. /\ UNCHANGED <<writers, done, last, cvwait>> /\ pc[w] \in Leading /\ pc'[w] \in Leading
          /\ (pc'[w] = "room" => pc[w] = "room") /\ \A v \in Writer \ {w} : pc'[v] = pc[v]
      BY <1>0, <1>5 DEF RoomDelay, Holds, Leading, Unlocked
    <2> QED
      BY <1>a, <1>b, <2>1, LeaderFrame
  <1>6. CASE RoomWait(w)
    <2>1. /\ UNCHANGED <<writers, done, last, cvwait>> /\ pc[w] \in Leading /\ pc'[w] \in Leading
          /\ (pc'[w] = "room" => pc[w] = "room") /\ \A v \in Writer \ {w} : pc'[v] = pc[v]
      BY <1>0, <1>6 DEF RoomWait, Holds, WaitOnBg, Leading, Unlocked
    <2> QED
      BY <1>a, <1>b, <2>1, LeaderFrame
  <1>7. CASE RoomSwitch(w)
    <2>1. /\ UNCHANGED <<writers, done, last, cvwait>> /\ pc[w] \in Leading /\ pc'[w] \in Leading
          /\ (pc'[w] = "room" => pc[w] = "room") /\ \A v \in Writer \ {w} : pc'[v] = pc[v]
      BY <1>0, <1>7 DEF RoomSwitch, Holds, MaybeScheduleCompaction, Leading, Unlocked
    <2> QED
      BY <1>a, <1>b, <2>1, LeaderFrame
  <1>8. CASE RoomSwitchFail(w)
    <2>1. /\ UNCHANGED <<writers, done, last, cvwait>> /\ pc[w] \in Leading /\ pc'[w] \in Leading
          /\ (pc'[w] = "room" => pc[w] = "room") /\ \A v \in Writer \ {w} : pc'[v] = pc[v]
      BY <1>0, <1>8 DEF RoomSwitchFail, Holds, Leading, Unlocked
    <2> QED
      BY <1>a, <1>b, <2>1, LeaderFrame
  <1>9. CASE GroupClose(w)
    <2>1. /\ UNCHANGED <<writers, done, last, cvwait>> /\ pc[w] \in Leading /\ pc'[w] \in Leading
          /\ (pc'[w] = "room" => pc[w] = "room") /\ \A v \in Writer \ {w} : pc'[v] = pc[v]
      BY <1>0, <1>9 DEF GroupClose, Holds, Leading, Unlocked
    <2> QED
      BY <1>a, <1>b, <2>1, LeaderFrame
  <1>10. CASE AddRecord(w)
    <2>1. /\ UNCHANGED <<writers, done, last, cvwait>> /\ pc[w] \in Leading /\ pc'[w] \in Leading
          /\ (pc'[w] = "room" => pc[w] = "room") /\ \A v \in Writer \ {w} : pc'[v] = pc[v]
      BY <1>0, <1>10 DEF AddRecord, Leading, Unlocked
    <2> QED
      BY <1>a, <1>b, <2>1, LeaderFrame
  <1>11. CASE AddRecordFail(w)
    <2>1. /\ UNCHANGED <<writers, done, last, cvwait>> /\ pc[w] \in Leading /\ pc'[w] \in Leading
          /\ (pc'[w] = "room" => pc[w] = "room") /\ \A v \in Writer \ {w} : pc'[v] = pc[v]
      BY <1>0, <1>11 DEF AddRecordFail, Leading, Unlocked
    <2> QED
      BY <1>a, <1>b, <2>1, LeaderFrame
  <1>12. CASE SyncLog(w)
    <2>1. /\ UNCHANGED <<writers, done, last, cvwait>> /\ pc[w] \in Leading /\ pc'[w] \in Leading
          /\ (pc'[w] = "room" => pc[w] = "room") /\ \A v \in Writer \ {w} : pc'[v] = pc[v]
      BY <1>0, <1>12 DEF SyncLog, Leading, Unlocked
    <2> QED
      BY <1>a, <1>b, <2>1, LeaderFrame
  <1>13. CASE SyncLogFail(w)
    <2>1. /\ UNCHANGED <<writers, done, last, cvwait>> /\ pc[w] \in Leading /\ pc'[w] \in Leading
          /\ (pc'[w] = "room" => pc[w] = "room") /\ \A v \in Writer \ {w} : pc'[v] = pc[v]
      BY <1>0, <1>13 DEF SyncLogFail, Leading, Unlocked
    <2> QED
      BY <1>a, <1>b, <2>1, LeaderFrame
  <1>14. CASE InsertEntry(w)
    <2>1. /\ UNCHANGED <<writers, done, last, cvwait>> /\ pc[w] \in Leading /\ pc'[w] \in Leading
          /\ (pc'[w] = "room" => pc[w] = "room") /\ \A v \in Writer \ {w} : pc'[v] = pc[v]
      BY <1>0, <1>14 DEF InsertEntry, threads, Leading, Unlocked
    <2> QED
      BY <1>a, <1>b, <2>1, LeaderFrame
  <1>15. CASE InsertDone(w)
    <2>1. /\ UNCHANGED <<writers, done, last, cvwait>> /\ pc[w] \in Leading /\ pc'[w] \in Leading
          /\ (pc'[w] = "room" => pc[w] = "room") /\ \A v \in Writer \ {w} : pc'[v] = pc[v]
      BY <1>0, <1>15 DEF InsertDone, Leading, Unlocked
    <2> QED
      BY <1>a, <1>b, <2>1, LeaderFrame
  <1>16. CASE Commit(w)
    <2>1. /\ UNCHANGED <<writers, done, last, cvwait>> /\ pc[w] \in Leading /\ pc'[w] \in Leading
          /\ (pc'[w] = "room" => pc[w] = "room") /\ \A v \in Writer \ {w} : pc'[v] = pc[v]
      BY <1>0, <1>16 DEF Commit, Holds, Leading, Unlocked
    <2> QED
      BY <1>a, <1>b, <2>1, LeaderFrame
  <1>17. CASE RoomFound(w)
    <2>1. /\ UNCHANGED <<writers, done, cvwait>> /\ pc[w] = "room" /\ pc'[w] \in {"finish", "group"}
          /\ \A v \in Writer \ {w} : pc'[v] = pc[v]
          /\ last' = last \/ last' = [last EXCEPT ![w] = 1]
      BY <1>0, <1>17 DEF RoomFound, Holds
    <2>2. pc[w] \in Leading /\ pc'[w] \in Leading /\ pc'[w] # "room"
      BY <2>1 DEF Leading
    <2>3. last' = last
      BY <1>0, <1>b, <2>1
    <2> QED
      BY <1>a, <2>1, <2>2, <2>3, LeaderFrame
  <1>18. CASE GroupJoin(w)
    <2>1. /\ UNCHANGED <<writers, done, cvwait, pc>> /\ pc[w] = "group"
          /\ last' = [last EXCEPT ![w] = @ + 1] /\ last[w] < Len(writers)
      BY <1>18 DEF GroupJoin, Holds, threads
    <2>2. pc[w] \in Leading /\ pc'[w] \in Leading /\ pc'[w] # "room"
      BY <2>1 DEF Leading
    <2>3. 1 <= last'[w] /\ last'[w] <= Len(writers) /\ \A v \in Writer \ {w} : last'[v] = last[v]
      BY <1>0, <1>a, <2>1, <2>2
    <2> QED
      BY <2>1, <2>2, <2>3, LeaderFrame
  <1>19. CASE Finish(w)
    BY <1>19, FinishQueue
  <1>20. CASE AwaitImm(w)
    <2>1. UNCHANGED <<writers, done, last, cvwait, pc>>
      BY <1>20 DEF AwaitImm, WaitOnBg
    <2> QED
      BY <2>1, QueueFrame
  <1>21. CASE ReturnImm(w)
    <2>1. /\ UNCHANGED <<writers, done, last, cvwait>> /\ pc[w] = "immwait"
          /\ pc'[w] = "done" /\ \A v \in Writer \ {w} : pc'[v] = pc[v]
      BY <1>0, <1>21 DEF ReturnImm, Holds
    <2> QED
      BY <2>1, LeaveFrame
  <1> QED
    BY <1>1, <1>2, <1>3, <1>4, <1>5, <1>6, <1>7, <1>8, <1>9, <1>10, <1>11, <1>12, <1>13,
       <1>14, <1>15, <1>16, <1>17, <1>18, <1>19, <1>20, <1>21
    DEF WriterStep

(* What the background thread leaves alone; only the end of BackgroundCall *)
(* may leave nothing scheduled.                                            *)
LEMMA BgEffect ==
  ASSUME TypeOK, BgStep
  PROVE  /\ UNCHANGED <<writers, done, last, cvwait, shutdown>>
         /\ \A p \in Thread \ {BG} : pc'[p] = pc[p]
         /\ pc[BG] # "off"
         /\ pc'[BG] # "off" \/ BgEnd
         /\ bgwait' \subseteq bgwait
         /\ mutex' = NULL \/ (mutex' = mutex /\ (mutex = BG => pc'[BG] \in Locked))
  <1>0. pc \in [Thread -> PCs] /\ BG \in Thread
    BY DEF TypeOK, ThreadsOK, Thread
  <1> USE <1>0 DEF queue, group, Holds, Locked
  <1>1. CASE BgSkip
    BY <1>1 DEF BgSkip, control
  <1>2. CASE BgFlush
    BY <1>2 DEF BgFlush, MayCompact, control
  <1>3. CASE BgManualEmpty
    BY <1>3 DEF BgManualEmpty, MayCompact, control
  <1>4. CASE BgManualWork
    BY <1>4 DEF BgManualWork, MayCompact, control
  <1>5. CASE BgPick
    BY <1>5 DEF BgPick, MayCompact, control
  <1>6. CASE BgBuild
    BY <1>6 DEF BgBuild, BgIO, control
  <1>7. CASE BgApply
    BY <1>7 DEF BgApply, BgIO, control
  <1>8. CASE BgInstall
    BY <1>8 DEF BgInstall, BgIO, control
  <1>9. CASE BgBuilt
    BY <1>9 DEF BgBuilt, control
  <1>10. CASE BgFlushFails
    BY <1>10 DEF BgFlushFails, FlushReturns, control
  <1>11. CASE BgFlushed
    BY <1>11 DEF BgFlushed, FlushReturns, control
  <1>12. CASE BgWorkImm
    BY <1>12 DEF BgWorkImm, control
  <1>13. CASE BgWorkEnd
    BY <1>13 DEF BgWorkEnd, control
  <1>14. CASE BgInstallStart
    BY <1>14 DEF BgInstallStart, control
  <1>15. CASE BgCompactFails
    BY <1>15 DEF BgCompactFails, AfterCompaction, RecordBackgroundError, control
  <1>16. CASE BgCompacted
    BY <1>16 DEF BgCompacted, AfterCompaction, control
  <1>17. CASE BgManualEnd
    BY <1>17 DEF BgManualEnd, control
  <1>18. CASE BgEnd
    BY <1>18 DEF BgEnd, MaybeScheduleCompaction, control
  <1> QED
    BY <1>1, <1>2, <1>3, <1>4, <1>5, <1>6, <1>7, <1>8, <1>9, <1>10, <1>11, <1>12, <1>13,
       <1>14, <1>15, <1>16, <1>17, <1>18
    DEF BgStep

(* Every step keeps the queue in order. *)
LEMMA NextQueue ==
  ASSUME TypeOK, QueueInv, [Next]_vars
  PROVE  QueueInv'
  <1>0. /\ pc \in [Thread -> PCs] /\ Writer \subseteq Thread
        /\ BG \notin Writer /\ Closer \notin Writer
        /\ Writer \cap Reader = {} /\ Writer \cap Manual = {}
    BY ThreadAssumption DEF TypeOK, ThreadsOK, Thread
  <1> USE DEF queue, group
  <1>1. ASSUME NEW p \in Thread, Lock(p) PROVE QueueInv'
    BY <1>1, QueueFrame DEF Lock
  <1>2. ASSUME NEW w \in Writer, NEW sy, NEW b, Write(w, sy, b) PROVE QueueInv'
    BY <1>2, WriteQueue
  <1>3. ASSUME NEW w \in Writer, WriterStep(w) PROVE QueueInv'
    BY <1>3, WriterQueue
  <1>4. ASSUME NEW r \in Reader, Get(r) PROVE QueueInv'
    <2>1. UNCHANGED <<writers, done, last, cvwait>> /\ \A w \in Writer : pc'[w] = pc[w]
      BY <1>0, <1>4 DEF Get
    <2> QED
      BY <2>1, QueueFrame
  <1>5. ASSUME NEW r \in Reader, GetDone(r) PROVE QueueInv'
    <2>1. UNCHANGED <<writers, done, last, cvwait>> /\ \A w \in Writer : pc'[w] = pc[w]
      BY <1>0, <1>5 DEF GetDone, MaybeScheduleCompaction
    <2> QED
      BY <2>1, QueueFrame
  <1>6. ASSUME NEW m \in Manual, CompactRange(m) \/ ManualStep(m) PROVE QueueInv'
    <2>1. UNCHANGED <<writers, done, last, cvwait>> /\ \A w \in Writer : pc'[w] = pc[w]
      BY <1>0, <1>6 DEF CompactRange, ManualStep, ManualSubmit, ManualWait, ManualReturn, WaitOnBg,
                        MaybeScheduleCompaction
    <2> QED
      BY <2>1, QueueFrame
  <1>7. CASE Close \/ CloserStep
    <2>1. UNCHANGED <<writers, done, last, cvwait>> /\ \A w \in Writer : pc'[w] = pc[w]
      BY <1>0, <1>7 DEF Close, CloserStep, CloseWait, CloseDone, WaitOnBg
    <2> QED
      BY <2>1, QueueFrame
  <1>8. CASE BgStep
    <2>1. UNCHANGED <<writers, done, last, cvwait>> /\ \A w \in Writer : pc'[w] = pc[w]
      BY <1>0, <1>8, BgEffect
    <2> QED
      BY <2>1, QueueFrame
  <1>9. CASE Terminated \/ UNCHANGED vars
    <2>1. UNCHANGED <<writers, done, last, cvwait, pc>>
      BY <1>9 DEF Terminated, vars, threads
    <2> QED
      BY <2>1, QueueFrame
  <1> QED
    BY <1>1, <1>2, <1>3, <1>4, <1>5, <1>6, <1>7, <1>8, <1>9 DEF Next

(* The front of the queue in the words of the properties. *)
LEMMA QueueProperties ==
  ASSUME TypeOK, QueueInv
  PROVE  LeaderIsHead /\ NoLostWakeup
  <1>0. writers \in Seq(Writer) /\ cvwait \subseteq Writer
    BY DEF TypeOK, ThreadsOK, QueueOK
  <1>1. Len(writers) > 0 => Head(writers) = writers[1]
    BY <1>0
  <1>2. LeaderIsHead
    BY <1>1 DEF QueueInv, LeaderGroup, LeaderIsHead
  <1>3. NoLostWakeup
    BY <1>1 DEF QueueInv, FrontAwake, CvSleepers, NoLostWakeup
  <1> QED
    BY <1>2, <1>3

(* Before any call the queue is empty. *)
LEMMA InitQueue == Init => QueueInv
  <1> SUFFICES ASSUME Init PROVE QueueInv
    OBVIOUS
  <1>1. \A w \in Writer : pc[w] = "idle"
    BY ThreadAssumption DEF Init, AfterOpen, MaybeScheduleCompaction, Thread
  <1>2. /\ writers = <<>> /\ cvwait = {}
        /\ \A w \in Writer : ~done[w] /\ last[w] = 1
    BY DEF Init, AfterOpen
  <1>3. \A w \in Writer : ~Waiting(w) /\ pc[w] \notin Leading
    BY <1>1 DEF Waiting, Leading, Unlocked
  <1>4. QueuedOnce /\ FrontAwake /\ CvSleepers /\ DoneCalls
    BY <1>2 DEF QueuedOnce, FrontAwake, CvSleepers, DoneCalls
  <1>5. QueueIsWaiting /\ LeaderGroup
    BY <1>2, <1>3 DEF QueueIsWaiting, LeaderGroup
  <1> QED
    BY <1>4, <1>5 DEF QueueInv

(* Write's claim "&w is currently responsible for logging and protects     *)
(* against concurrent loggers": a thread that logs or fills mem_ without   *)
(* mutex_ is the front of writers_, for any number of threads.             *)
THEOREM OneLeader == Spec => []LeaderIsHead
  <1>1. TypeOK /\ QueueInv /\ [Next]_vars => QueueInv'
    BY NextQueue
  <1>2. TypeOK /\ QueueInv => LeaderIsHead
    BY QueueProperties
  <1> QED
    BY <1>1, <1>2, InitQueue, TypeCorrect, PTL DEF Spec

(* A writer that may go on is never asleep on its condition variable: the  *)
(* signals at the end of Write reach the group and the new front.          *)
THEOREM WakeupsKept == Spec => []NoLostWakeup
  <1>1. TypeOK /\ QueueInv /\ [Next]_vars => QueueInv'
    BY NextQueue
  <1>2. TypeOK /\ QueueInv => NoLostWakeup
    BY QueueProperties
  <1> QED
    BY <1>1, <1>2, InitQueue, TypeCorrect, PTL DEF Spec

(* What a writer does to the mutex, the condition variables and the rest.  *)
LEMMA WriterEffect ==
  ASSUME TypeOK, NEW w \in Writer, WriterStep(w)
  PROVE  /\ UNCHANGED <<shutdown, manual, l0, backlog>> /\ (bgerr => bgerr')
         /\ \A p \in Thread \ {w, BG} : pc'[p] = pc[p]
         /\ pc[w] \notin {"idle", "done"}
         /\ (pc'[BG] = pc[BG] /\ imm' = imm) \/ RoomSwitch(w)
         /\ bgwait' \subseteq bgwait \/ RoomWait(w) \/ AwaitImm(w)
         /\ \/ /\ mutex = w
               /\ \/ mutex' = NULL
                  \/ mutex' = w /\ pc'[w] \in Locked /\ cvwait' = cvwait /\ bgwait' \subseteq bgwait
            \/ pc[w] \in Unlocked /\ UNCHANGED <<mutex, cvwait, bgwait>>
  <1>0. pc \in [Thread -> PCs] /\ w \in Thread /\ BG \in Thread /\ w # BG
    BY ThreadAssumption DEF TypeOK, ThreadsOK, Thread
  <1> USE <1>0 DEF queue, group, threads, store, levels, control, Holds, Locked, Unlocked
  <1>1. CASE AwaitTurn(w)
    BY <1>1 DEF AwaitTurn
  <1>2. CASE TakeTurn(w)
    BY <1>2 DEF TakeTurn
  <1>3. CASE ReturnDone(w)
    BY <1>3 DEF ReturnDone, AfterWrite
  <1>4. CASE RoomError(w)
    BY <1>4 DEF RoomError
  <1>5. CASE RoomDelay(w)
    BY <1>5 DEF RoomDelay
  <1>6. CASE RoomWait(w)
    BY <1>6 DEF RoomWait, WaitOnBg
  <1>7. CASE RoomSwitch(w)
    BY <1>7 DEF RoomSwitch, MaybeScheduleCompaction
  <1>8. CASE RoomSwitchFail(w)
    BY <1>8 DEF RoomSwitchFail
  <1>9. CASE RoomFound(w)
    <2>1. pc' = [pc EXCEPT ![w] = "finish"] \/ pc' = [pc EXCEPT ![w] = "group"]
      BY <1>9 DEF RoomFound
    <2>2. /\ mutex = w /\ pc[w] = "room"
          /\ UNCHANGED <<shutdown, manual, l0, backlog, bgerr, imm, mutex, cvwait, bgwait>>
      BY <1>9 DEF RoomFound
    <2>3. pc'[w] \in Locked /\ \A p \in Thread \ {w} : pc'[p] = pc[p]
      BY <2>1
    <2> QED
      BY <2>2, <2>3
  <1>10. CASE GroupJoin(w)
    BY <1>10 DEF GroupJoin
  <1>11. CASE GroupClose(w)
    BY <1>11 DEF GroupClose
  <1>12. CASE AddRecord(w)
    BY <1>12 DEF AddRecord
  <1>13. CASE AddRecordFail(w)
    BY <1>13 DEF AddRecordFail
  <1>14. CASE SyncLog(w)
    BY <1>14 DEF SyncLog
  <1>15. CASE SyncLogFail(w)
    BY <1>15 DEF SyncLogFail
  <1>16. CASE InsertEntry(w)
    BY <1>16 DEF InsertEntry
  <1>17. CASE InsertDone(w)
    BY <1>17 DEF InsertDone
  <1>18. CASE Commit(w)
    <2>1. bgwait' \subseteq bgwait /\ (bgerr => bgerr')
      BY <1>18 DEF Commit, RecordBackgroundError
    <2> QED
      BY <1>18, <2>1 DEF Commit
  <1>19. CASE Finish(w)
    BY <1>19 DEF Finish, AfterWrite
  <1>20. CASE AwaitImm(w)
    BY <1>20 DEF AwaitImm, WaitOnBg
  <1>21. CASE ReturnImm(w)
    BY <1>21 DEF ReturnImm
  <1> QED
    BY <1>1, <1>2, <1>3, <1>4, <1>5, <1>6, <1>7, <1>8, <1>9, <1>10, <1>11, <1>12, <1>13,
       <1>14, <1>15, <1>16, <1>17, <1>18, <1>19, <1>20, <1>21
    DEF WriterStep

(* A sleeping client is not idle, so ~DBImpl has not begun. *)
LEMMA InCall ==
  ASSUME TypeOK, SleepInv, NEW p \in Client, pc[p] \notin {"idle", "done"}
  PROVE  ~shutdown /\ pc[Closer] = "idle"
  BY DEF SleepInv, ShutdownQuiet

(* The background thread never sleeps on bg_cv_. *)
LEMMA BgNeverSleeps ==
  ASSUME SleepInv
  PROVE  BG \notin bgwait
  BY ThreadAssumption DEF SleepInv, BgSleepers

(* Steps of a writer keep SleepInv. *)
LEMMA WriterSleep ==
  ASSUME TypeOK, OwnerRuns, SleepInv, NEW w \in Writer, WriterStep(w)
  PROVE  SleepInv'
  <1>0. /\ w \in Client /\ w \in Thread /\ w # Closer /\ w # BG /\ w \notin Manual
        /\ Closer \in Thread /\ Closer # BG /\ w # NULL
        /\ pc \in [Thread -> PCs] /\ bgwait \subseteq Thread
    BY ThreadAssumption DEF TypeOK, ThreadsOK, Thread, Client
  <1>1. /\ UNCHANGED <<shutdown, manual, l0, backlog>> /\ (bgerr => bgerr')
        /\ \A p \in Thread \ {w, BG} : pc'[p] = pc[p]
        /\ pc[w] \notin {"idle", "done"}
        /\ (pc'[BG] = pc[BG] /\ imm' = imm) \/ RoomSwitch(w)
        /\ bgwait' \subseteq bgwait \/ RoomWait(w) \/ AwaitImm(w)
        /\ mutex = w \/ pc[w] \in Unlocked
    BY WriterEffect
  <1>2. ~shutdown /\ pc[Closer] = "idle"
    BY <1>0, <1>1, InCall
  <1>3. w \notin bgwait
    <2>1. CASE mutex = w
      BY <1>0, <2>1 DEF OwnerRuns
    <2>2. CASE pc[w] \in Unlocked
      BY <1>0, <2>2 DEF Unlocked, SleepInv, BgSleepers
    <2> QED
      BY <1>1, <2>1, <2>2
  <1>4. pc'[Closer] = "idle" /\ ~shutdown'
    BY <1>0, <1>1, <1>2
  <1>5. ShutdownQuiet' /\ NothingAfterClose'
    BY <1>4 DEF ShutdownQuiet, NothingAfterClose
  <1>6. RoomSwitch(w) => Scheduled'
    <2> SUFFICES ASSUME RoomSwitch(w) PROVE pc'[BG] # "off"
      BY DEF Scheduled
    <2>1. /\ pc' = MaybeScheduleCompaction(pc, bgerr, imm', manual, l0, backlog)
          /\ ~bgerr /\ imm' = logno
      BY DEF RoomSwitch
    <2>2. imm' # NULL /\ BG \in Thread
      BY <2>1, ThreadAssumption DEF TypeOK, StoreOK, Thread
    <2> QED
      BY <1>0, <1>2, <2>1, <2>2 DEF MaybeScheduleCompaction
  <1>7. Scheduled => Scheduled'
    BY <1>1, <1>6 DEF Scheduled
  <1>8. WorkScheduled'
    <2>1. CASE RoomSwitch(w)
      BY <1>6, <2>1 DEF WorkScheduled
    <2>2. CASE imm' = imm
      BY <1>1, <1>7, <2>2 DEF SleepInv, WorkScheduled
    <2> QED
      BY <1>1, <2>1, <2>2
  <1>9. RoomWait(w) \/ AwaitImm(w) => Scheduled
    <2>1. CASE RoomWait(w)
      <3>1. ~bgerr /\ (imm # NULL \/ l0 >= L0Stop)
        BY <2>1 DEF RoomWait, MustWait
      <3>2. l0 >= L0Stop => NeedsCompaction(l0, backlog)
        BY SizeAssumption DEF TypeOK, ControlOK, NeedsCompaction
      <3> QED
        BY <1>2, <3>1, <3>2 DEF SleepInv, WorkScheduled
    <2>2. CASE AwaitImm(w)
      BY <1>2, <2>2 DEF AwaitImm, SleepInv, WorkScheduled
    <2> QED
      BY <2>1, <2>2
  <1>10. SleepersHaveWork'
    BY <1>1, <1>7, <1>9 DEF SleepInv, SleepersHaveWork
  <1>11. BgSleepers'
    <2>1. RoomWait(w) \/ AwaitImm(w) =>
            bgwait' = bgwait \cup {w} /\ pc' = pc /\ pc[w] \in {"room", "immwait"}
      BY DEF RoomWait, AwaitImm, WaitOnBg, Holds
    <2>2. \A p \in bgwait : pc'[p] = pc[p]
      BY <1>0, <1>1, <1>3, BgNeverSleeps
    <2> QED
      BY <1>1, <2>1, <2>2 DEF SleepInv, BgSleepers
  <1> QED
    BY <1>5, <1>8, <1>10, <1>11 DEF SleepInv

(* Steps of the background thread keep SleepInv. *)
LEMMA BgSleep ==
  ASSUME TypeOK, OwnerRuns, SleepInv, BgStep
  PROVE  SleepInv'
  <1>0. /\ Closer \in Thread /\ Closer # BG /\ Client \subseteq Thread \ {BG}
        /\ pc \in [Thread -> PCs] /\ bgwait \subseteq Thread
    BY ThreadAssumption DEF TypeOK, ThreadsOK, Thread, Client
  <1>1. /\ shutdown' = shutdown
        /\ \A p \in Thread \ {BG} : pc'[p] = pc[p]
        /\ pc[BG] # "off"
        /\ pc'[BG] # "off" \/ BgEnd
        /\ bgwait' \subseteq bgwait
    BY BgEffect
  <1>2. BgSleepers'
    BY <1>0, <1>1, BgNeverSleeps DEF SleepInv, BgSleepers
  <1>3. ShutdownQuiet'
    BY <1>0, <1>1 DEF SleepInv, ShutdownQuiet
  <1>4. pc[Closer] # "closed" /\ pc'[Closer] # "closed"
    BY <1>0, <1>1 DEF SleepInv, NothingAfterClose, Scheduled
  <1>5. NothingAfterClose'
    BY <1>4 DEF NothingAfterClose
  <1>6. WorkScheduled' /\ SleepersHaveWork'
    <2>1. CASE pc'[BG] # "off"
      BY <2>1 DEF WorkScheduled, SleepersHaveWork, Scheduled
    <2>2. CASE BgEnd
      <3>1. /\ pc' = MaybeScheduleCompaction([pc EXCEPT ![BG] = "off"],
                                             bgerr, imm, manual, l0, backlog)
            /\ bgwait' = {} /\ UNCHANGED <<imm, manual, l0, backlog, bgerr>>
        BY <2>2 DEF BgEnd, store, levels, control
      <3>2. BG \in Thread
        BY DEF Thread
      <3>3. WorkScheduled'
        BY <1>0, <1>1, <3>1, <3>2 DEF WorkScheduled, MaybeScheduleCompaction, Scheduled
      <3> QED
        BY <3>1, <3>3 DEF SleepersHaveWork
    <2> QED
      BY <1>1, <2>1, <2>2
  <1> QED
    BY <1>2, <1>3, <1>5, <1>6 DEF SleepInv

(* Steps of the other threads keep SleepInv. *)
LEMMA OtherSleep ==
  ASSUME TypeOK, OwnerRuns, QueueInv, SleepInv,
         \/ \E p \in Thread : Lock(p)
         \/ \E w \in Writer, sy \in BOOLEAN, b \in Counts \cup {NULL} : Write(w, sy, b)
         \/ \E r \in Reader : Get(r) \/ GetDone(r)
         \/ \E m \in Manual : CompactRange(m) \/ ManualStep(m)
         \/ Close \/ CloserStep
  PROVE  SleepInv'
  <1>0. /\ Thread = Client \cup {BG, Closer} /\ Closer # BG
        /\ Writer \subseteq Client /\ Reader \subseteq Client /\ Manual \subseteq Client
        /\ BG \notin Client /\ Closer \notin Client /\ NULL \notin Thread
        /\ Writer \cap Manual = {} /\ Writer \cap Reader = {} /\ Reader \cap Manual = {}
        /\ pc \in [Thread -> PCs] /\ bgwait \subseteq Thread
    BY ThreadAssumption DEF TypeOK, ThreadsOK, Thread, Client
  <1> USE DEF store, levels, control
  <1>1. ASSUME NEW p \in Thread, Lock(p) PROVE SleepInv'
    <2>1. /\ UNCHANGED <<pc, cvwait, bgwait, imm, l0, backlog, bgerr, shutdown, manual>>
          /\ pc[p] \in Locked
      BY <1>1 DEF Lock
    <2>2. pc[Closer] # "closed"
      <3> SUFFICES ASSUME pc[Closer] = "closed" PROVE FALSE
        OBVIOUS
      <3>1. pc[BG] = "off" /\ \A c \in Client : pc[c] \in {"idle", "done"}
        BY DEF SleepInv, NothingAfterClose, Scheduled, ShutdownQuiet
      <3> QED
        BY <1>0, <2>1, <3>1 DEF Locked
    <2>3. BgSleepers' /\ WorkScheduled' /\ ShutdownQuiet' /\ SleepersHaveWork'
      BY <2>1 DEF SleepInv, BgSleepers, WorkScheduled, ShutdownQuiet, SleepersHaveWork, Scheduled
    <2> QED
      BY <2>1, <2>2, <2>3 DEF SleepInv, NothingAfterClose
  <1>2. ASSUME NEW c \in Client, pc[c] = "idle", pc[Closer] = "idle",
               UNCHANGED <<bgwait, imm, l0, backlog, bgerr, shutdown, manual>>,
               \A p \in Thread \ {c} : pc'[p] = pc[p]
        PROVE  SleepInv'
    <2>1. ~shutdown /\ pc'[Closer] = "idle" /\ pc'[BG] = pc[BG]
      BY <1>0, <1>2 DEF SleepInv, ShutdownQuiet
    <2>2. c \notin bgwait
      BY <1>0, <1>2 DEF SleepInv, BgSleepers
    <2>3. BgSleepers'
      BY <1>0, <1>2, <2>2 DEF SleepInv, BgSleepers
    <2>4. WorkScheduled' /\ SleepersHaveWork'
      BY <1>2, <2>1 DEF SleepInv, WorkScheduled, SleepersHaveWork, Scheduled
    <2>5. ShutdownQuiet' /\ NothingAfterClose'
      BY <1>2, <2>1 DEF ShutdownQuiet, NothingAfterClose
    <2> QED
      BY <2>3, <2>4, <2>5 DEF SleepInv
  <1>3. ASSUME NEW w \in Writer, NEW sy \in BOOLEAN, NEW b \in Counts \cup {NULL}, Write(w, sy, b)
        PROVE  SleepInv'
    <2>1. /\ pc[w] = "idle" /\ pc[Closer] = "idle"
          /\ UNCHANGED <<bgwait, imm, l0, backlog, bgerr, shutdown, manual>>
          /\ \A p \in Thread \ {w} : pc'[p] = pc[p]
      BY <1>0, <1>3 DEF Write
    <2> QED
      BY <1>0, <1>2, <2>1
  <1>4. ASSUME NEW r \in Reader, Get(r) PROVE SleepInv'
    <2>1. /\ pc[r] = "idle" /\ pc[Closer] = "idle"
          /\ UNCHANGED <<bgwait, imm, l0, backlog, bgerr, shutdown, manual>>
          /\ \A p \in Thread \ {r} : pc'[p] = pc[p]
      BY <1>0, <1>4 DEF Get
    <2> QED
      BY <1>0, <1>2, <2>1
  <1>5. ASSUME NEW m \in Manual, CompactRange(m) PROVE SleepInv'
    <2>1. /\ pc[m] = "idle" /\ pc[Closer] = "idle"
          /\ UNCHANGED <<bgwait, imm, l0, backlog, bgerr, shutdown, manual>>
          /\ \A p \in Thread \ {m} : pc'[p] = pc[p]
      BY <1>0, <1>5 DEF CompactRange
    <2> QED
      BY <1>0, <1>2, <2>1
  <1>6. ASSUME NEW c \in Client, pc[c] \notin {"idle", "done"}, c \notin bgwait,
               UNCHANGED <<bgwait, shutdown>>, WorkScheduled', Scheduled => Scheduled',
               \A p \in Thread \ {c, BG} : pc'[p] = pc[p]
        PROVE  SleepInv'
    <2>1. ~shutdown /\ pc[Closer] = "idle" /\ pc'[Closer] = "idle"
      BY <1>0, <1>6, InCall
    <2>2. BgSleepers'
      BY <1>0, <1>6, BgNeverSleeps DEF SleepInv, BgSleepers
    <2>3. SleepersHaveWork'
      BY <1>6 DEF SleepInv, SleepersHaveWork
    <2>4. ShutdownQuiet' /\ NothingAfterClose'
      BY <1>6, <2>1 DEF ShutdownQuiet, NothingAfterClose
    <2> QED
      BY <1>6, <2>2, <2>3, <2>4 DEF SleepInv
  <1>7. ASSUME NEW r \in Reader, GetDone(r) PROVE SleepInv'
    <2>1. PICK b \in backlog..MaxBacklog :
            /\ backlog' = b
            /\ pc' = LET p == [pc EXCEPT ![r] = "done"] IN
                     IF b > backlog
                     THEN MaybeScheduleCompaction(p, bgerr, imm, manual, l0, b)
                     ELSE p
      BY <1>7 DEF GetDone
    <2>2. /\ pc[r] = "reading"
          /\ UNCHANGED <<bgwait, imm, l0, bgerr, shutdown, manual>>
      BY <1>7 DEF GetDone
    <2>3. r \notin bgwait
      BY <1>0, <2>2 DEF SleepInv, BgSleepers
    <2>4. \A p \in Thread \ {r, BG} : pc'[p] = pc[p]
      BY <1>0, <2>1 DEF MaybeScheduleCompaction
    <2>5. Scheduled => Scheduled'
      BY <1>0, <2>1 DEF MaybeScheduleCompaction, Scheduled
    <2>6. WorkScheduled'
      <3>1. CASE b > backlog
        <4>1. pc' = MaybeScheduleCompaction([pc EXCEPT ![r] = "done"], bgerr, imm, manual, l0, b)
          BY <2>1, <3>1
        <4> QED
          BY <1>0, <2>1, <2>2, <4>1 DEF MaybeScheduleCompaction, WorkScheduled, Scheduled
      <3>2. CASE ~(b > backlog)
        <4>1. b = backlog
          BY <3>2 DEF TypeOK, ControlOK
        <4> QED
          BY <2>1, <2>2, <2>5, <4>1 DEF SleepInv, WorkScheduled
      <3> QED
        BY <3>1, <3>2
    <2> QED
      BY <1>0, <1>6, <2>2, <2>3, <2>4, <2>5, <2>6
  <1>8. ASSUME NEW m \in Manual, Holds(m, "manual") PROVE m \notin bgwait /\ pc[m] = "manual"
    BY <1>0, <1>8 DEF Holds, OwnerRuns
  <1>9. ASSUME NEW m \in Manual, ManualSubmit(m) PROVE SleepInv'
    <2>1. /\ pc' = MaybeScheduleCompaction(pc, bgerr, imm, m, l0, backlog)
          /\ manual' = m /\ Holds(m, "manual") /\ ~bgerr
          /\ UNCHANGED <<bgwait, imm, l0, backlog, bgerr, shutdown>>
      BY <1>9 DEF ManualSubmit, ManualGoesOn
    <2>2. \A p \in Thread \ {m, BG} : pc'[p] = pc[p]
      BY <1>0, <2>1 DEF MaybeScheduleCompaction
    <2>3. (Scheduled => Scheduled') /\ WorkScheduled'
      BY <1>0, <2>1 DEF MaybeScheduleCompaction, WorkScheduled, Scheduled
    <2> QED
      BY <1>0, <1>6, <1>8, <2>1, <2>2, <2>3
  <1>10. ASSUME NEW m \in Manual, ManualReturn(m) PROVE SleepInv'
    <2>1. /\ Holds(m, "manual") /\ manual' \in {manual, NULL} /\ pc' = [pc EXCEPT ![m] = "done"]
          /\ UNCHANGED <<bgwait, imm, l0, backlog, bgerr, shutdown>>
      BY <1>10 DEF ManualReturn
    <2>2. (\A p \in Thread \ {m, BG} : pc'[p] = pc[p]) /\ pc'[BG] = pc[BG]
      BY <1>0, <2>1
    <2>3. (Scheduled => Scheduled') /\ WorkScheduled'
      BY <2>1, <2>2 DEF SleepInv, WorkScheduled, Scheduled
    <2> QED
      BY <1>0, <1>6, <1>8, <2>1, <2>2, <2>3
  <1>11. ASSUME NEW m \in Manual, ManualWait(m) PROVE SleepInv'
    <2>1. /\ Holds(m, "manual") /\ manual # NULL /\ ~bgerr /\ ~shutdown
          /\ bgwait' = bgwait \cup {m}
          /\ UNCHANGED <<pc, imm, l0, backlog, bgerr, shutdown, manual>>
      BY <1>11 DEF ManualWait, ManualGoesOn, WaitOnBg
    <2>2. Scheduled
      BY <2>1 DEF SleepInv, WorkScheduled
    <2>3. BgSleepers'
      BY <1>8, <2>1 DEF SleepInv, BgSleepers
    <2>4. WorkScheduled' /\ SleepersHaveWork' /\ ShutdownQuiet'
      BY <2>1, <2>2 DEF SleepInv, WorkScheduled, SleepersHaveWork, ShutdownQuiet, Scheduled
    <2>5. NothingAfterClose'
      BY <2>1 DEF SleepInv, ShutdownQuiet, NothingAfterClose
    <2> QED
      BY <2>3, <2>4, <2>5 DEF SleepInv
  <1>12. CASE Close
    <2>1. /\ \A p \in Client : pc[p] \in {"idle", "done"}
          /\ shutdown' = TRUE /\ pc' = [pc EXCEPT ![Closer] = "closing"] /\ pc[Closer] = "idle"
          /\ UNCHANGED <<bgwait, imm, l0, backlog, bgerr, manual>>
      BY <1>12 DEF Close, Client
    <2>2. /\ pc'[Closer] = "closing" /\ \A p \in Thread \ {Closer} : pc'[p] = pc[p]
      BY <1>0, <2>1
    <2>3. ShutdownQuiet' /\ NothingAfterClose' /\ WorkScheduled'
      BY <1>0, <2>1, <2>2 DEF ShutdownQuiet, NothingAfterClose, WorkScheduled
    <2>4. BgSleepers'
      BY <1>0, <2>1, <2>2 DEF SleepInv, BgSleepers
    <2>5. SleepersHaveWork'
      BY <1>0, <2>1, <2>2 DEF SleepInv, SleepersHaveWork, Scheduled
    <2> QED
      BY <2>3, <2>4, <2>5 DEF SleepInv
  <1>13. CASE CloseWait
    <2>1. /\ pc[Closer] = "closing" /\ Scheduled /\ bgwait' = bgwait \cup {Closer}
          /\ UNCHANGED <<pc, imm, l0, backlog, bgerr, shutdown, manual>>
      BY <1>13 DEF CloseWait, WaitOnBg, Holds
    <2>2. BgSleepers' /\ SleepersHaveWork' /\ NothingAfterClose'
      BY <2>1 DEF SleepInv, BgSleepers, SleepersHaveWork, NothingAfterClose, Scheduled
    <2>3. WorkScheduled' /\ ShutdownQuiet'
      BY <2>1 DEF SleepInv, WorkScheduled, ShutdownQuiet, Scheduled
    <2> QED
      BY <2>2, <2>3 DEF SleepInv
  <1>14. CASE CloseDone
    <2>1. /\ mutex = Closer /\ pc[Closer] = "closing" /\ ~Scheduled /\ mutex' = NULL
          /\ pc' = [pc EXCEPT ![Closer] = "closed"]
          /\ UNCHANGED <<cvwait, bgwait, imm, l0, backlog, bgerr, shutdown, manual>>
      BY <1>14 DEF CloseDone, Holds
    <2>2. shutdown /\ \A p \in Client : pc[p] \in {"idle", "done"}
      BY <2>1 DEF SleepInv, ShutdownQuiet
    <2>3. Closer \notin bgwait
      BY <1>0, <2>1 DEF OwnerRuns
    <2>4. bgwait = {}
      BY <1>0, <2>2, <2>3 DEF SleepInv, BgSleepers
    <2>5. cvwait = {}
      BY <1>0, <2>2 DEF QueueInv, CvSleepers, TypeOK, ThreadsOK
    <2>6. pc'[Closer] = "closed" /\ \A p \in Thread \ {Closer} : pc'[p] = pc[p]
      BY <1>0, <2>1
    <2>7. ShutdownQuiet' /\ NothingAfterClose'
      BY <1>0, <2>1, <2>2, <2>4, <2>5, <2>6 DEF ShutdownQuiet, NothingAfterClose, Scheduled
    <2>8. BgSleepers' /\ SleepersHaveWork' /\ WorkScheduled'
      BY <2>1, <2>2, <2>4 DEF BgSleepers, SleepersHaveWork, WorkScheduled
    <2> QED
      BY <2>7, <2>8 DEF SleepInv
  <1> HIDE DEF store, levels, control
  <1> QED
    BY <1>1, <1>3, <1>4, <1>5, <1>7, <1>9, <1>10, <1>11, <1>12, <1>13, <1>14
    DEF ManualStep, CloserStep

(* The owner of the mutex goes on running code that holds it. *)
LEMMA NextOwner ==
  ASSUME TypeOK, OwnerRuns, QueueInv, SleepInv, [Next]_vars
  PROVE  OwnerRuns'
  <1>0. /\ Thread = Client \cup {BG, Closer} /\ Closer # BG
        /\ Writer \subseteq Client /\ Reader \subseteq Client /\ Manual \subseteq Client
        /\ BG \notin Client /\ Closer \notin Client /\ NULL \notin Thread
        /\ Writer \cap Manual = {} /\ Writer \cap Reader = {} /\ Reader \cap Manual = {}
        /\ pc \in [Thread -> PCs] /\ bgwait \subseteq Thread /\ cvwait \subseteq Writer
        /\ mutex \in Thread \cup {NULL}
    BY ThreadAssumption DEF TypeOK, ThreadsOK, Thread, Client
  <1>1. ASSUME NEW p \in Thread, Lock(p) PROVE OwnerRuns'
    BY <1>1 DEF Lock, OwnerRuns
  <1>2. ASSUME NEW c \in Client, pc[c] = "idle" PROVE c \notin cvwait \cup bgwait
    BY <1>0, <1>2 DEF QueueInv, CvSleepers, SleepInv, BgSleepers
  <1>3. ASSUME NEW w \in Writer, NEW sy, NEW b, Write(w, sy, b) PROVE OwnerRuns'
    BY <1>0, <1>2, <1>3 DEF Write, OwnerRuns, Locked
  <1>4. ASSUME NEW w \in Writer, WriterStep(w) PROVE OwnerRuns'
    <2>1. /\ \A p \in Thread \ {w, BG} : pc'[p] = pc[p]
          /\ (pc'[BG] = pc[BG] /\ imm' = imm) \/ RoomSwitch(w)
          /\ \/ /\ mutex = w
                /\ \/ mutex' = NULL
                   \/ mutex' = w /\ pc'[w] \in Locked /\ cvwait' = cvwait /\ bgwait' \subseteq bgwait
             \/ pc[w] \in Unlocked /\ UNCHANGED <<mutex, cvwait, bgwait>>
      BY <1>4, WriterEffect
    <2>2. CASE mutex = w
      <3>1. CASE mutex' = NULL
        BY <3>1 DEF OwnerRuns
      <3>2. CASE mutex' = w /\ pc'[w] \in Locked /\ cvwait' = cvwait /\ bgwait' \subseteq bgwait
        BY <1>0, <2>2, <3>2 DEF OwnerRuns
      <3>3. CASE pc[w] \in Unlocked
        BY <1>0, <2>2, <3>3 DEF OwnerRuns, Locked, Unlocked
      <3> QED
        BY <2>1, <3>1, <3>2, <3>3
    <2>3. CASE mutex # w
      <3>1. UNCHANGED <<mutex, cvwait, bgwait>>
        BY <2>1, <2>3
      <3>2. pc'[BG] = pc[BG]
        BY <2>1, <2>3 DEF RoomSwitch, Holds
      <3> QED
        BY <1>0, <2>1, <2>3, <3>1, <3>2 DEF OwnerRuns
    <2> QED
      BY <2>2, <2>3
  <1>5. ASSUME NEW r \in Reader, Get(r) \/ GetDone(r) PROVE OwnerRuns'
    BY <1>5 DEF Get, GetDone, OwnerRuns
  <1>6. ASSUME NEW m \in Manual, CompactRange(m) PROVE OwnerRuns'
    BY <1>0, <1>2, <1>6 DEF CompactRange, OwnerRuns, Locked
  <1>7. ASSUME NEW m \in Manual, ManualStep(m) PROVE OwnerRuns'
    <2>1. CASE ManualSubmit(m)
      <3>1. /\ mutex = m /\ pc[m] = "manual" /\ UNCHANGED <<mutex, cvwait, bgwait>>
            /\ pc' = MaybeScheduleCompaction(pc, bgerr, imm, m, l0, backlog)
        BY <2>1 DEF ManualSubmit, Holds
      <3>2. pc'[m] = "manual"
        BY <1>0, <3>1 DEF MaybeScheduleCompaction
      <3> QED
        BY <3>1, <3>2 DEF OwnerRuns, Locked
    <2>2. CASE ManualWait(m) \/ ManualReturn(m)
      BY <2>2 DEF ManualWait, ManualReturn, WaitOnBg, OwnerRuns
    <2> QED
      BY <1>7, <2>1, <2>2 DEF ManualStep
  <1>8. CASE Close
    <2>1. Closer \notin cvwait \cup bgwait
      BY <1>0, <1>8 DEF Close, SleepInv, BgSleepers
    <2> QED
      BY <1>0, <1>8, <2>1 DEF Close, OwnerRuns, Locked
  <1>9. CASE CloserStep
    BY <1>9 DEF CloserStep, CloseWait, CloseDone, WaitOnBg, OwnerRuns
  <1>10. CASE BgStep
    <2>1. /\ cvwait' = cvwait /\ bgwait' \subseteq bgwait
          /\ \A p \in Thread \ {BG} : pc'[p] = pc[p]
          /\ mutex' = NULL \/ (mutex' = mutex /\ (mutex = BG => pc'[BG] \in Locked))
      BY <1>10, BgEffect
    <2> QED
      BY <1>0, <2>1 DEF OwnerRuns
  <1>11. CASE Terminated \/ UNCHANGED vars
    BY <1>11 DEF Terminated, vars, threads, OwnerRuns
  <1> QED
    BY <1>1, <1>3, <1>4, <1>5, <1>6, <1>7, <1>8, <1>9, <1>10, <1>11 DEF Next

(* Every step keeps SleepInv. *)
LEMMA NextSleep ==
  ASSUME TypeOK, OwnerRuns, QueueInv, SleepInv, [Next]_vars
  PROVE  SleepInv'
  <1>1. CASE UNCHANGED vars
    <2>1. UNCHANGED <<pc, mutex, cvwait, bgwait, imm, l0, backlog, bgerr, shutdown, manual>>
      BY <1>1 DEF vars, threads, store, levels, control
    <2> QED
      BY <2>1 DEF SleepInv, BgSleepers, WorkScheduled, ShutdownQuiet, SleepersHaveWork,
                  NothingAfterClose, Scheduled
  <1>2. CASE Next
    BY <1>1, <1>2, WriterSleep, BgSleep, OtherSleep DEF Next, Terminated
  <1> QED
    BY <1>1, <1>2

(* Nobody sleeps at first, and DB::Open has called                         *)
(* MaybeScheduleCompaction.                                                *)
LEMMA InitSleep == Init => OwnerRuns /\ SleepInv
  <1> SUFFICES ASSUME Init PROVE OwnerRuns /\ SleepInv
    OBVIOUS
  <1>1. /\ mutex = NULL /\ cvwait = {} /\ bgwait = {} /\ imm = NULL /\ manual = NULL
        /\ ~bgerr /\ ~shutdown
    BY DEF Init, AfterOpen
  <1>2. pc[Closer] = "idle"
    BY ThreadAssumption DEF Init, AfterOpen, MaybeScheduleCompaction, Thread
  <1>3. NeedsCompaction(l0, backlog) => pc[BG] = "start"
    BY <1>1 DEF Init, AfterOpen, MaybeScheduleCompaction, Thread
  <1>4. OwnerRuns /\ BgSleepers /\ SleepersHaveWork
    BY <1>1 DEF OwnerRuns, BgSleepers, SleepersHaveWork
  <1>5. WorkScheduled /\ ShutdownQuiet /\ NothingAfterClose
    BY <1>1, <1>2, <1>3 DEF WorkScheduled, ShutdownQuiet, NothingAfterClose, Scheduled
  <1> QED
    BY <1>4, <1>5 DEF SleepInv

(* The inductive invariant of queue, mutex and sleepers. *)
LEMMA Inductive == Spec => [](OwnerRuns /\ QueueInv /\ SleepInv)
  <1>1. TypeOK /\ OwnerRuns /\ QueueInv /\ SleepInv /\ [Next]_vars
          => (OwnerRuns /\ QueueInv /\ SleepInv)'
    BY NextOwner, NextQueue, NextSleep
  <1> QED
    BY <1>1, InitQueue, InitSleep, TypeCorrect, PTL DEF Spec

(* MakeRoomForWrite, TEST_CompactMemTable, TEST_CompactRange and ~DBImpl   *)
(* sleep on bg_cv_ only while a background call is scheduled.              *)
THEOREM BgSleepersHaveWork == Spec => []SleepersHaveWork
  <1>1. SleepInv => SleepersHaveWork
    BY DEF SleepInv
  <1> QED
    BY <1>1, Inductive, PTL

(* Once ~DBImpl goes on to free the object, no background call is left,    *)
(* nobody sleeps on its condition variables and nobody owns its mutex.     *)
THEOREM ClosedIsQuiet == Spec => []NothingAfterClose
  <1>1. SleepInv => NothingAfterClose
    BY DEF SleepInv
  <1> QED
    BY <1>1, Inductive, PTL

=============================================================================
