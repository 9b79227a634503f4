--------------------------- MODULE DBLockProofs ---------------------------
(***************************************************************************)
(* Proofs about DBLock: the types, that the lock table keeps the instances *)
(* of a process apart whatever happens to lock files and fcntl locks, and  *)
(* that between processes the lock file does its work as long as it is not *)
(* deleted and every process has one instance of a database.               *)
(***************************************************************************)
EXTENDS DBLock, TLAPS

LEMMA TypeInit == Init => TypeOK
BY LockAssumption DEF Init, TypeOK, Inode

LEMMA CreateType ==
    ASSUME TypeOK, NEW i \in Instance, CreateLockFile(i)
    PROVE  /\ lockfile' \in [Database -> Inode \cup {NULL}] /\ inodes' \in 0..MaxInodes
           /\ lockfile'[DB[i]] \in Inode
<1>0. /\ lockfile \in [Database -> Inode \cup {NULL}] /\ inodes \in 0..MaxInodes
      /\ MaxInodes \in Nat /\ DB[i] \in Database
  BY LockAssumption DEF TypeOK
<1>1. CASE lockfile[DB[i]] = NULL
  <2>1. inodes + 1 \in Inode /\ inodes' = inodes + 1
    BY <1>0, <1>1 DEF CreateLockFile, Inode
  <2>2. lockfile' = [lockfile EXCEPT ![DB[i]] = inodes + 1]
    BY <1>1 DEF CreateLockFile
  <2> QED
    BY <1>0, <2>1, <2>2 DEF Inode
<1>2. CASE lockfile[DB[i]] # NULL
  BY <1>0, <1>2 DEF CreateLockFile
<1> QED
  BY <1>1, <1>2

LEMMA TypeStep == TypeOK /\ [Next]_vars => TypeOK'
<1>1. SUFFICES ASSUME TypeOK, [Next]_vars PROVE TypeOK'
  OBVIOUS
<1>2. CASE UNCHANGED vars
  BY <1>1, <1>2 DEF TypeOK, vars
<1>3. ASSUME NEW i \in Instance, Open(i) PROVE TypeOK'
  <2>1. PICK m \in Modes[i] : mode' = [mode EXCEPT ![i] = m]
    BY <1>3 DEF Open
  <2>2. mode' \in [Instance -> {"rw", "ro"}]
    BY <1>1, <2>1, LockAssumption DEF TypeOK
  <2>3. opens' \in [Instance -> 0..MaxOpens]
    BY <1>1, <1>3, LockAssumption DEF TypeOK, Open
  <2> QED
    BY <1>1, <1>3, <2>2, <2>3 DEF TypeOK, Open, Goto
<1>4. ASSUME NEW i \in Instance, Close(i) \/ UnlockRemove(i) \/ LockInsert(i) PROVE TypeOK'
  BY <1>1, <1>4, LockAssumption DEF TypeOK, Close, UnlockRemove, LockInsert, Goto
<1>5. ASSUME NEW i \in Instance, LockOpen(i) PROVE TypeOK'
  <2>1. /\ lockfile' \in [Database -> Inode \cup {NULL}] /\ inodes' \in 0..MaxInodes
        /\ lockfile'[DB[i]] \in Inode
    BY <1>1, <1>5, CreateType DEF LockOpen
  <2>2. lockfile'[DB[i]] # NULL
    BY <2>1, LockAssumption DEF Inode
  <2> QED
    BY <1>1, <1>5, <2>1, <2>2, LockAssumption DEF TypeOK, LockOpen, Goto
<1>6. ASSUME NEW i \in Instance, LockHeld(i) \/ LockRefused(i) \/ UnlockClose(i) PROVE TypeOK'
  BY <1>1, <1>6, LockAssumption
     DEF TypeOK, LockHeld, LockRefused, UnlockClose, DropFcntl, Goto
<1>7. ASSUME NEW i \in Instance, LockFcntl(i) \/ UnlockFcntl(i) PROVE TypeOK'
  BY <1>1, <1>7, LockAssumption DEF TypeOK, LockFcntl, UnlockFcntl, DropFcntl, Goto
<1>8. ASSUME NEW i \in Instance, Destroy(i) PROVE TypeOK'
  <2>1. /\ lockfile' \in [Database -> Inode \cup {NULL}] /\ inodes' \in 0..MaxInodes
        /\ lockfile'[DB[i]] \in Inode
    BY <1>1, <1>8, CreateType DEF Destroy
  <2> QED
    BY <1>1, <1>8, <2>1 DEF TypeOK, Destroy, DropFcntl
<1>9. ASSUME NEW i \in Instance, DtorDelete(i) PROVE TypeOK'
  BY <1>1, <1>9, LockAssumption DEF TypeOK, DtorDelete, Goto
<1>10. ASSUME NEW p \in Process, Die(p) PROVE TypeOK'
  BY <1>1, <1>10, LockAssumption DEF TypeOK, Die
<1>11. CASE Finished
  BY <1>2, <1>11 DEF Finished
<1> QED
  BY <1>1, <1>2, <1>3, <1>4, <1>5, <1>6, <1>7, <1>8, <1>9, <1>10, <1>11 DEF Next, Step

(* DBLock keeps its types; a descriptor exists exactly from open to close. *)
THEOREM TypeCorrect == Spec => []TypeOK
BY TypeInit, TypeStep, PTL DEF Spec

-----------------------------------------------------------------------------
(* The lock table.  TableExact alone does not say that only one instance    *)
(* accounts for a name.                                                     *)

OneInTable ==
    \A i, j \in Instance :
        (i # j /\ DB[i] = DB[j] /\ Proc[i] = Proc[j]) => ~(InTable(i) /\ InTable(j))

TableInv == TableExact /\ OneInTable

LEMMA TableFrame ==
    ASSUME TableInv, UNCHANGED table, \A j \in Instance : InTable(j)' <=> InTable(j)
    PROVE  TableInv'
BY DEF TableInv, TableExact, OneInTable

\* What a step of i does to InTable: nothing for the others.
LEMMA InTableSame ==
    ASSUME TypeOK, NEW i \in Instance,
           \/ Open(i) \/ LockOpen(i) \/ LockHeld(i) \/ LockFcntl(i) \/ Destroy(i)
           \/ Close(i) \/ DtorDelete(i) \/ UnlockFcntl(i) \/ UnlockClose(i)
    PROVE  UNCHANGED table /\ \A j \in Instance : InTable(j)' <=> InTable(j)
<1>0. /\ pc \in [Instance -> {"closed", "lock", "insert", "fcntl", "open", "dtor",
                              "unlock", "remove", "close"}]
      /\ fd \in [Instance -> Inode \cup {NULL}]
      /\ pc[i] \in {"closed", "lock"} <=> (fd[i] = NULL /\ pc[i] # "dtor")
  BY DEF TypeOK
<1>1. ASSUME NEW j \in Instance PROVE InTable(j)' <=> InTable(j)
  <2>1. CASE Open(i)
    BY <1>0, <2>1 DEF Open, Goto, InTable, HasDB
  <2>2. CASE LockOpen(i)
    BY <1>0, <2>2 DEF LockOpen, Goto, InTable, HasDB
  <2>3. CASE LockHeld(i)
    BY <1>0, <2>3 DEF LockHeld, Goto, InTable, HasDB
  <2>4. CASE LockFcntl(i)
    BY <1>0, <2>4 DEF LockFcntl, Goto, InTable, HasDB
  <2>5. CASE Destroy(i)
    BY <1>0, <2>5 DEF Destroy, InTable, HasDB
  <2>6. CASE Close(i)
    BY <1>0, <2>6 DEF Close, Goto, InTable, HasDB
  <2>7. CASE DtorDelete(i)
    BY <1>0, <2>7 DEF DtorDelete, Goto, InTable, HasDB
  <2>8. CASE UnlockFcntl(i)
    BY <1>0, <2>8 DEF UnlockFcntl, Goto, InTable, HasDB
  <2>9. CASE UnlockClose(i)
    BY <1>0, <2>9 DEF UnlockClose, Goto, InTable, HasDB
  <2> QED
    BY <2>1, <2>2, <2>3, <2>4, <2>5, <2>6, <2>7, <2>8, <2>9
<1>2. UNCHANGED table
  BY DEF Open, LockOpen, LockHeld, LockFcntl, Destroy, Close, DtorDelete, UnlockFcntl,
         UnlockClose
<1> QED
  BY <1>1, <1>2

LEMMA TableStep == TypeOK /\ TableInv /\ [Next]_vars => TableInv'
<1>1. SUFFICES ASSUME TypeOK, TableInv, [Next]_vars PROVE TableInv'
  OBVIOUS
<1>0. /\ pc \in [Instance -> {"closed", "lock", "insert", "fcntl", "open", "dtor",
                              "unlock", "remove", "close"}]
      /\ fd \in [Instance -> Inode \cup {NULL}]
      /\ table \in [Process -> SUBSET Database]
      /\ \A i \in Instance : Proc[i] \in Process /\ DB[i] \in Database
      /\ \A i \in Instance :
            pc[i] \in {"closed", "lock"} <=> (fd[i] = NULL /\ pc[i] # "dtor")
  BY <1>1, LockAssumption DEF TypeOK
<1>2. CASE UNCHANGED vars
  BY <1>1, <1>2, TableFrame DEF vars, InTable, HasDB
<1>3. ASSUME NEW i \in Instance,
             \/ Open(i) \/ LockOpen(i) \/ LockHeld(i) \/ LockFcntl(i) \/ Destroy(i)
             \/ Close(i) \/ DtorDelete(i) \/ UnlockFcntl(i) \/ UnlockClose(i)
      PROVE  TableInv'
  BY <1>1, <1>3, InTableSame, TableFrame
<1>4. ASSUME NEW i \in Instance, LockInsert(i) PROVE TableInv'
  <2>1. \A j \in Instance : InTable(j)' <=> (InTable(j) \/ j = i)
    BY <1>0, <1>4 DEF LockInsert, Goto, InTable, HasDB
  <2>2. table' = [table EXCEPT ![Proc[i]] = @ \cup {DB[i]}] /\ DB[i] \notin table[Proc[i]]
    BY <1>4 DEF LockInsert
  <2> QED
    BY <1>0, <1>1, <2>1, <2>2 DEF TableInv, TableExact, OneInTable
<1>5. ASSUME NEW i \in Instance, LockRefused(i) \/ UnlockRemove(i) PROVE TableInv'
  <2>1. InTable(i) /\ \A j \in Instance : InTable(j)' <=> (InTable(j) /\ j # i)
    BY <1>0, <1>5 DEF LockRefused, UnlockRemove, Goto, InTable, HasDB
  <2>2. table' = [table EXCEPT ![Proc[i]] = @ \ {DB[i]}]
    BY <1>5 DEF LockRefused, UnlockRemove
  <2> QED
    BY <1>0, <1>1, <2>1, <2>2 DEF TableInv, TableExact, OneInTable
<1>6. ASSUME NEW p \in Process, Die(p) PROVE TableInv'
  <2>1. \A j \in Instance : InTable(j)' <=> (InTable(j) /\ Proc[j] # p)
    BY <1>0, <1>6 DEF Die, InTable, HasDB
  <2>2. table' = [table EXCEPT ![p] = {}]
    BY <1>6 DEF Die
  <2> QED
    BY <1>0, <1>1, <2>1, <2>2 DEF TableInv, TableExact, OneInTable
<1>7. CASE Finished
  BY <1>2, <1>7 DEF Finished
<1> QED
  BY <1>1, <1>2, <1>3, <1>4, <1>5, <1>6, <1>7 DEF Next, Step

LEMMA TableInit == Init => TableInv
BY LockAssumption DEF Init, TableInv, TableExact, OneInTable, InTable, HasDB

LEMMA TableAlways == Spec => []TableInv
<1>1. TypeOK /\ TableInv /\ [Next]_vars => TableInv'
  BY TableStep
<1> QED
  BY <1>1, TableInit, TypeCorrect, PTL DEF Spec

(* The lock table keeps the instances of a process apart, also when lock    *)
(* files are deleted and fcntl locks are lost.                              *)
THEOREM ProcessApart == Spec => []ExclusiveInProcess
<1>1. TableInv => ExclusiveInProcess
  BY DEF TableInv, OneInTable, ExclusiveInProcess, InTable
<1> QED
  BY <1>1, TableAlways, PTL

(* A failed opening leaves no name in the lock table, and a name leaves it  *)
(* only with its instance.                                                  *)
THEOREM TableKept == Spec => []TableExact
<1>1. TableInv => TableExact
  BY DEF TableInv
<1> QED
  BY <1>1, TableAlways, PTL

-----------------------------------------------------------------------------
(* Between processes.  Nobody deletes the lock file, and the instances of a *)
(* database belong to different processes.                                  *)

OwnProcesses ==
    /\ \A i \in Instance : Modes[i] \subseteq {"rw"}
    /\ ~Destroys
    /\ \A i, j \in Instance : (i # j /\ DB[i] = DB[j]) => Proc[i] # Proc[j]

ReadWriteOnly == \A i \in Instance : mode[i] = "rw"

\* A descriptor is one of the lock file, which stays the same file.
OneFile ==
    /\ \A i \in Instance : fd[i] # NULL => fd[i] = lockfile[DB[i]]
    /\ \A d \in Database : lockfile[d] # NULL => lockfile[d] <= inodes
    /\ \A d, e \in Database : (d # e /\ lockfile[d] # NULL) => lockfile[d] # lockfile[e]

\* Who has the database has the fcntl lock.
Locked == \A i \in Instance : HasDB(i) => fcntl[fd[i]] = Proc[i]

LockInv == ReadWriteOnly /\ OneFile /\ Locked

LEMMA LockInvInit == Init => LockInv
BY LockAssumption DEF Init, LockInv, ReadWriteOnly, OneFile, Locked, HasDB

LEMMA LockInvStep == OwnProcesses /\ TypeOK /\ LockInv /\ [Next]_vars => LockInv'
<1>1. SUFFICES ASSUME OwnProcesses, TypeOK, LockInv, [Next]_vars PROVE LockInv'
  OBVIOUS
<1>0. /\ pc \in [Instance -> {"closed", "lock", "insert", "fcntl", "open", "dtor",
                              "unlock", "remove", "close"}]
      /\ mode \in [Instance -> {"rw", "ro"}]
      /\ fd \in [Instance -> Inode \cup {NULL}]
      /\ fcntl \in [Inode -> Process \cup {NULL}]
      /\ lockfile \in [Database -> Inode \cup {NULL}] /\ inodes \in 0..MaxInodes
      /\ \A i \in Instance : Proc[i] \in Process /\ DB[i] \in Database
      /\ \A i \in Instance :
            pc[i] \in {"closed", "lock"} <=> (fd[i] = NULL /\ pc[i] # "dtor")
      /\ Inode = 1..MaxInodes /\ MaxInodes \in Nat /\ NULL \notin Nat /\ NULL \notin Process
  BY <1>1, LockAssumption DEF TypeOK, Inode
<1>a. ReadWriteOnly /\ OneFile /\ Locked
  BY <1>1 DEF LockInv
<1>b. /\ \A i \in Instance : Modes[i] \subseteq {"rw"}
      /\ ~Destroys
      /\ \A i, j \in Instance : (i # j /\ DB[i] = DB[j]) => Proc[i] # Proc[j]
  BY <1>1 DEF OwnProcesses
<1>c. ASSUME NEW i \in Instance, NEW j \in Instance, i # j, HasDB(j), fd[i] # NULL,
             DropFcntl(i, fd[i])
      PROVE  fcntl'[fd[j]] = Proc[j]
  <2>1. fcntl[fd[j]] = Proc[j] /\ fd[j] # NULL
    BY <1>0, <1>a, <1>c DEF Locked, HasDB
  <2>2. fd[i] = fd[j] => Proc[i] # Proc[j]
    BY <1>0, <1>a, <1>b, <1>c, <2>1 DEF OneFile
  <2> QED
    BY <1>0, <1>c, <2>1, <2>2 DEF DropFcntl
<1>2. CASE UNCHANGED vars
  BY <1>a, <1>2 DEF vars, LockInv, ReadWriteOnly, OneFile, Locked, HasDB
<1>3. ASSUME NEW i \in Instance, Open(i) PROVE LockInv'
  BY <1>0, <1>a, <1>b, <1>3 DEF Open, Goto, LockInv, ReadWriteOnly, OneFile, Locked, HasDB
<1>4. ASSUME NEW i \in Instance, LockOpen(i) PROVE LockInv'
  <2>1. CASE lockfile[DB[i]] = NULL
    <3>1. /\ lockfile' = [lockfile EXCEPT ![DB[i]] = inodes + 1] /\ inodes' = inodes + 1
          /\ inodes + 1 \in Inode
      BY <1>0, <1>4, <2>1 DEF LockOpen, CreateLockFile
    <3>2. fd' = [fd EXCEPT ![i] = inodes + 1]
      BY <1>0, <1>4, <3>1 DEF LockOpen
    <3>3. OneFile'
      BY <1>0, <1>a, <2>1, <3>1, <3>2 DEF OneFile
    <3>4. Locked' /\ ReadWriteOnly'
      BY <1>0, <1>a, <1>4, <3>2 DEF LockOpen, Goto, Locked, HasDB, ReadWriteOnly
    <3> QED
      BY <3>3, <3>4 DEF LockInv
  <2>2. CASE lockfile[DB[i]] # NULL
    <3>1. UNCHANGED <<lockfile, inodes>> /\ fd' = [fd EXCEPT ![i] = lockfile[DB[i]]]
      BY <1>4, <2>2 DEF LockOpen, CreateLockFile
    <3> QED
      BY <1>0, <1>a, <1>4, <3>1 DEF LockOpen, Goto, LockInv, OneFile, Locked, HasDB, ReadWriteOnly
  <2> QED
    BY <2>1, <2>2
<1>5. ASSUME NEW i \in Instance, LockInsert(i) \/ Close(i) \/ UnlockRemove(i) PROVE LockInv'
  BY <1>0, <1>a, <1>5 DEF LockInsert, Close, UnlockRemove, Goto, LockInv, ReadWriteOnly,
                          OneFile, Locked, HasDB
<1>6. ASSUME NEW i \in Instance, LockHeld(i) \/ LockRefused(i) \/ UnlockFcntl(i) \/ UnlockClose(i)
      PROVE  LockInv'
  <2>1. fd[i] # NULL /\ DropFcntl(i, fd[i]) /\ UNCHANGED <<lockfile, inodes, mode>>
        /\ fd' \in {fd, [fd EXCEPT ![i] = NULL]}
    BY <1>0, <1>6 DEF LockHeld, LockRefused, UnlockFcntl, UnlockClose, Goto
  <2>2. ~HasDB(i)' /\ \A j \in Instance \ {i} : (HasDB(j)' <=> HasDB(j)) /\ fd'[j] = fd[j]
    BY <1>0, <1>6 DEF LockHeld, LockRefused, UnlockFcntl, UnlockClose, Goto, HasDB
  <2>3. Locked'
    BY <1>c, <2>1, <2>2 DEF Locked
  <2> QED
    BY <1>0, <1>a, <2>1, <2>3 DEF LockInv, ReadWriteOnly, OneFile
<1>7. ASSUME NEW i \in Instance, LockFcntl(i) PROVE LockInv'
  <2>1. /\ fcntl[fd[i]] \in {NULL, Proc[i]} /\ fcntl' = [fcntl EXCEPT ![fd[i]] = Proc[i]]
        /\ fd[i] # NULL /\ UNCHANGED <<lockfile, inodes, mode, fd>>
    BY <1>0, <1>7 DEF LockFcntl, Goto
  <2>2. \A j \in Instance : HasDB(j)' <=> (HasDB(j) \/ j = i)
    BY <1>0, <1>7 DEF LockFcntl, Goto, HasDB
  <2>3. ASSUME NEW j \in Instance, HasDB(j), j # i PROVE fd[j] # fd[i]
    <3>1. fcntl[fd[j]] = Proc[j] /\ fd[j] # NULL
      BY <1>0, <1>a, <2>3 DEF Locked, HasDB
    <3> QED
      BY <1>0, <1>a, <1>b, <2>1, <2>3, <3>1 DEF OneFile
  <2>4. Locked'
    BY <1>0, <1>a, <2>1, <2>2, <2>3 DEF Locked
  <2> QED
    BY <1>a, <2>1, <2>4 DEF LockInv, ReadWriteOnly, OneFile
<1>8. ASSUME NEW i \in Instance, DtorDelete(i) PROVE LockInv'
  <2>1. UNCHANGED <<lockfile, inodes, fcntl, mode, fd>>
    BY <1>a, <1>8 DEF DtorDelete, ReadWriteOnly
  <2>2. \A j \in Instance : HasDB(j)' <=> HasDB(j)
    BY <1>0, <1>8, <2>1 DEF DtorDelete, Goto, HasDB
  <2> QED
    BY <1>a, <2>1, <2>2 DEF LockInv, ReadWriteOnly, OneFile, Locked
<1>9. ASSUME NEW i \in Instance, Destroy(i) PROVE LockInv'
  BY <1>b, <1>9 DEF Destroy
<1>10. ASSUME NEW p \in Process, Die(p) PROVE LockInv'
  <2>1. /\ fcntl' = [n \in Inode |-> IF fcntl[n] = p THEN NULL ELSE fcntl[n]]
        /\ fd' = [i \in Instance |-> IF Proc[i] = p THEN NULL ELSE fd[i]]
        /\ UNCHANGED <<lockfile, inodes, mode>>
    BY <1>10 DEF Die
  <2>2. \A j \in Instance : HasDB(j)' <=> (HasDB(j) /\ Proc[j] # p)
    BY <1>0, <1>10 DEF Die, HasDB
  <2>3. \A j \in Instance : HasDB(j) => fd[j] # NULL
    BY <1>0 DEF HasDB
  <2>4. Locked'
    BY <1>0, <1>a, <2>1, <2>2, <2>3 DEF Locked
  <2> QED
    BY <1>0, <1>a, <2>1, <2>4 DEF LockInv, ReadWriteOnly, OneFile
<1>11. CASE Finished
  BY <1>2, <1>11 DEF Finished
<1> QED
  BY <1>1, <1>2, <1>3, <1>4, <1>5, <1>6, <1>7, <1>8, <1>9, <1>10, <1>11 DEF Next, Step

(* Processes with one read-write instance each never have a database        *)
(* together, whatever the order of their steps and whoever is killed.       *)
THEOREM ProcessesApart == OwnProcesses => (Spec => []Exclusive)
<1>1. SUFFICES ASSUME OwnProcesses PROVE Spec => []Exclusive
  OBVIOUS
<1>2. TypeOK /\ LockInv => Exclusive
  <2>1. SUFFICES ASSUME TypeOK, LockInv, NEW i \in Instance, NEW j \in Instance,
                        i # j, DB[i] = DB[j], HasDB(i), HasDB(j)
                 PROVE  FALSE
    BY DEF Exclusive
  <2>2. fd[i] # NULL /\ fd[j] # NULL
    BY <2>1 DEF TypeOK, HasDB
  <2> QED
    BY <1>1, <2>1, <2>2 DEF LockInv, OneFile, Locked, OwnProcesses
<1>3. TypeOK /\ LockInv /\ [Next]_vars => LockInv'
  BY <1>1, LockInvStep
<1> QED
  BY <1>2, <1>3, LockInvInit, TypeCorrect, PTL DEF Spec
=============================================================================
