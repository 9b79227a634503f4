------------------------------ MODULE DBLock ------------------------------
(***************************************************************************)
(* Who may use a database: LockFile and UnlockFile of PosixEnv, with the   *)
(* lock table of the process and the fcntl lock between processes, and the *)
(* code that calls them: DBImpl::Recover, the destructor of DBImpl,        *)
(* DestroyDB and the LevelDB object.                                       *)
(*                                                                         *)
(* An instance is one LevelDB object of one process, for one database.     *)
(* The steps of instances interleave freely: they belong to threads of a   *)
(* process or to different processes.                                      *)
(*                                                                         *)
(* The lock file of a database has an inode, which changes when the file   *)
(* is deleted and created again.  fcntl locks belong to a process and an   *)
(* inode, and closing ANY descriptor of the inode in that process drops    *)
(* the lock.                                                               *)
(***************************************************************************)
EXTENDS Naturals

CONSTANTS
    NULL,
    Instance,      \* LevelDB objects
    Process,       \* processes
    Database,      \* databases of one directory
    Proc,          \* the process of an instance
    DB,            \* the database of an instance
    Children,      \* Children[d]: databases whose names begin with that of d
    Modes,         \* Modes[i]: modes of the sessions of i, out of {"rw", "ro"}
    Destroys,      \* whether LevelDB::destory is called
    MaxOpens,      \* bound: openings of one instance
    MaxInodes,     \* bound: lock files created
    MaxDeaths      \* bound: processes that are killed

ASSUME LockAssumption ==
    /\ NULL \notin Nat /\ NULL \notin Process
    /\ Proc \in [Instance -> Process] /\ DB \in [Instance -> Database]
    /\ Children \in [Database -> SUBSET Database]
    /\ \A d \in Database : d \in Children[d]
    /\ Modes \in [Instance -> SUBSET {"rw", "ro"}] /\ Destroys \in BOOLEAN
    /\ MaxOpens \in Nat /\ MaxInodes \in Nat /\ MaxDeaths \in Nat

VARIABLES
    lockfile,   \* inode of the lock file of each database, NULL without a file
    inodes,     \* inodes used so far
    fcntl,      \* process that holds the fcntl lock of an inode, or NULL
    table,      \* locked_files_ of each process
    pc,         \* step of each instance
    mode,       \* options_.read_only of each instance
    fd,         \* inode of the descriptor of LockFile, kept as db_lock_
    opens, deaths

vars == <<lockfile, inodes, fcntl, table, pc, mode, fd, opens, deaths>>

Inode == 1..MaxInodes

Init ==
    /\ lockfile = [d \in Database |-> NULL] /\ inodes = 0
    /\ fcntl = [n \in Inode |-> NULL]
    /\ table = [p \in Process |-> {}]
    /\ pc = [i \in Instance |-> "closed"] /\ mode = [i \in Instance |-> "rw"]
    /\ fd = [i \in Instance |-> NULL]
    /\ opens = [i \in Instance |-> 0] /\ deaths = 0

Goto(i, from, to) == pc[i] = from /\ pc' = [pc EXCEPT ![i] = to]

\* close(fd) of any descriptor of inode n, or F_UNLCK.
DropFcntl(i, n) ==
    fcntl' = IF n # NULL /\ fcntl[n] = Proc[i] THEN [fcntl EXCEPT ![n] = NULL] ELSE fcntl

\* LevelDB::open, DB::Open.
Open(i) ==
    /\ Goto(i, "closed", "lock") /\ opens[i] < MaxOpens
    /\ opens' = [opens EXCEPT ![i] = @ + 1]
    /\ \E m \in Modes[i] : mode' = [mode EXCEPT ![i] = m]
    /\ UNCHANGED <<lockfile, inodes, fcntl, table, fd, deaths>>

\* open(fname, O_RDWR | O_CREAT).
CreateLockFile(i) ==
    LET d == DB[i]
    IN  IF lockfile[d] = NULL
        THEN /\ inodes < MaxInodes /\ inodes' = inodes + 1
             /\ lockfile' = [lockfile EXCEPT ![d] = inodes + 1]
        ELSE UNCHANGED <<lockfile, inodes>>

(* Fault: the lock file is opened without O_CREAT. *)
LockOpenOld(i) ==
    /\ Goto(i, "lock", "insert")
    /\ fd' = [fd EXCEPT ![i] = lockfile[DB[i]]]
    /\ UNCHANGED <<lockfile, inodes, fcntl, table, mode, opens, deaths>>

LockOpen(i) ==
    /\ Goto(i, "lock", "insert")
    /\ CreateLockFile(i)
    /\ fd' = [fd EXCEPT ![i] = lockfile'[DB[i]]]
    /\ UNCHANGED <<fcntl, table, mode, opens, deaths>>

(* Fault: the result of locks_.Insert is not looked at. *)
LockInsertAny(i) ==
    /\ Goto(i, "insert", "fcntl")
    /\ table' = [table EXCEPT ![Proc[i]] = @ \cup {DB[i]}]
    /\ UNCHANGED <<lockfile, inodes, fcntl, mode, fd, opens, deaths>>

LockInsert(i) ==
    /\ Goto(i, "insert", "fcntl") /\ DB[i] \notin table[Proc[i]]
    /\ table' = [table EXCEPT ![Proc[i]] = @ \cup {DB[i]}]
    /\ UNCHANGED <<lockfile, inodes, fcntl, mode, fd, opens, deaths>>

\* "already held by process": the descriptor is closed, DB::Open deletes impl.
LockHeld(i) ==
    /\ Goto(i, "insert", "dtor") /\ DB[i] \in table[Proc[i]]
    /\ DropFcntl(i, fd[i])
    /\ fd' = [fd EXCEPT ![i] = NULL]
    /\ UNCHANGED <<lockfile, inodes, table, mode, opens, deaths>>

(* Fault: the result of fcntl is not looked at. *)
LockFcntlAny(i) ==
    /\ Goto(i, "fcntl", "open")
    /\ fcntl' = [fcntl EXCEPT ![fd[i]] = IF @ = NULL THEN Proc[i] ELSE @]
    /\ UNCHANGED <<lockfile, inodes, table, mode, fd, opens, deaths>>

LockFcntl(i) ==
    /\ Goto(i, "fcntl", "open") /\ fcntl[fd[i]] \in {NULL, Proc[i]}
    /\ fcntl' = [fcntl EXCEPT ![fd[i]] = Proc[i]]
    /\ UNCHANGED <<lockfile, inodes, table, mode, fd, opens, deaths>>

(* Fault: the name stays in the lock table. *)
LockRefusedKeeps(i) ==
    /\ Goto(i, "fcntl", "dtor") /\ fcntl[fd[i]] \notin {NULL, Proc[i]}
    /\ fd' = [fd EXCEPT ![i] = NULL]
    /\ UNCHANGED <<lockfile, inodes, fcntl, table, mode, opens, deaths>>

\* Another process has the lock; the descriptor is closed before the name is
\* taken off the table.
LockRefused(i) ==
    /\ Goto(i, "fcntl", "dtor") /\ fcntl[fd[i]] \notin {NULL, Proc[i]}
    /\ table' = [table EXCEPT ![Proc[i]] = @ \ {DB[i]}]
    /\ DropFcntl(i, fd[i])
    /\ fd' = [fd EXCEPT ![i] = NULL]
    /\ UNCHANGED <<lockfile, inodes, mode, opens, deaths>>

\* LevelDB::destory: DestroyDB locks the file again although this instance has
\* it, so LockFile opens it, finds the name in the table and closes it.
Destroy(i) ==
    /\ Destroys /\ pc[i] = "open" /\ DB[i] \in table[Proc[i]]
    /\ CreateLockFile(i)
    /\ DropFcntl(i, lockfile'[DB[i]])
    /\ UNCHANGED <<table, pc, mode, fd, opens, deaths>>

\* LevelDB::close, or DB::Open deletes impl because Recover failed later on.
Close(i) ==
    /\ Goto(i, "open", "dtor")
    /\ UNCHANGED <<lockfile, inodes, fcntl, table, mode, fd, opens, deaths>>

\* DBImpl::~DBImpl: a read-only session deletes the lock files it finds, the
\* locked ones and those of databases with a longer name too.
DtorDelete(i) ==
    /\ Goto(i, "dtor", IF fd[i] = NULL THEN "closed" ELSE "unlock")
    /\ lockfile' = IF mode[i] = "ro"
                   THEN [d \in Database |-> IF d \in Children[DB[i]] THEN NULL ELSE lockfile[d]]
                   ELSE lockfile
    /\ UNCHANGED <<inodes, fcntl, table, mode, fd, opens, deaths>>

\* UnlockFile: F_UNLCK, the name leaves the table, the descriptor is closed.
UnlockFcntl(i) ==
    /\ Goto(i, "unlock", "remove") /\ DropFcntl(i, fd[i])
    /\ UNCHANGED <<lockfile, inodes, table, mode, fd, opens, deaths>>

UnlockRemove(i) ==
    /\ Goto(i, "remove", "close")
    /\ table' = [table EXCEPT ![Proc[i]] = @ \ {DB[i]}]
    /\ UNCHANGED <<lockfile, inodes, fcntl, mode, fd, opens, deaths>>

UnlockClose(i) ==
    /\ Goto(i, "close", "closed") /\ DropFcntl(i, fd[i])
    /\ fd' = [fd EXCEPT ![i] = NULL]
    /\ UNCHANGED <<lockfile, inodes, table, mode, opens, deaths>>

\* The process is killed: its locks go, the lock file stays; it may start again.
Die(p) ==
    /\ deaths < MaxDeaths /\ deaths' = deaths + 1
    /\ fcntl' = [n \in Inode |-> IF fcntl[n] = p THEN NULL ELSE fcntl[n]]
    /\ table' = [table EXCEPT ![p] = {}]
    /\ pc' = [i \in Instance |-> IF Proc[i] = p THEN "closed" ELSE pc[i]]
    /\ fd' = [i \in Instance |-> IF Proc[i] = p THEN NULL ELSE fd[i]]
    /\ UNCHANGED <<lockfile, inodes, mode, opens>>

Finished ==
    /\ \A i \in Instance : pc[i] = "closed" /\ opens[i] = MaxOpens
    /\ UNCHANGED vars

Step(i) ==
    \/ LockOpen(i) \/ LockInsert(i) \/ LockHeld(i) \/ LockFcntl(i) \/ LockRefused(i)
    \/ DtorDelete(i)
    \/ UnlockFcntl(i) \/ UnlockRemove(i) \/ UnlockClose(i)

Next ==
    \/ \E i \in Instance : Step(i) \/ Open(i) \/ Close(i) \/ Destroy(i)
    \/ \E p \in Process : Die(p)
    \/ Finished

Spec == Init /\ [][Next]_vars

-----------------------------------------------------------------------------
TypeOK ==
    /\ lockfile \in [Database -> Inode \cup {NULL}] /\ inodes \in 0..MaxInodes
    /\ fcntl \in [Inode -> Process \cup {NULL}]
    /\ table \in [Process -> SUBSET Database]
    /\ pc \in [Instance -> {"closed", "lock", "insert", "fcntl", "open", "dtor",
                            "unlock", "remove", "close"}]
    /\ mode \in [Instance -> {"rw", "ro"}]
    /\ fd \in [Instance -> Inode \cup {NULL}]
    /\ \A i \in Instance : pc[i] \in {"closed", "lock"} <=> (fd[i] = NULL /\ pc[i] # "dtor")
    /\ opens \in [Instance -> 0..MaxOpens] /\ deaths \in 0..MaxDeaths

\* From the success of LockFile to the call of UnlockFile.
HasDB(i) == pc[i] \in {"open", "unlock"} \/ (pc[i] = "dtor" /\ fd[i] # NULL)

\* "Used to prevent concurrent access to the same db by multiple processes"
\* (env.h): at most one instance has a database.
Exclusive ==
    \A i, j \in Instance : (i # j /\ DB[i] = DB[j]) => ~(HasDB(i) /\ HasDB(j))

\* The lock table keeps two instances of one process apart whatever happens to
\* the lock file ("fcntl(F_SETLK) does not provide any protection against
\* multiple uses from the same process").
ExclusiveInProcess ==
    \A i, j \in Instance :
        (i # j /\ DB[i] = DB[j] /\ Proc[i] = Proc[j]) => ~(HasDB(i) /\ HasDB(j))

\* A name is in the lock table exactly while one instance of the process has it,
\* is getting it or is giving it back: failed openings leave nothing behind that
\* would refuse every later one.
InTable(i) == HasDB(i) \/ pc[i] \in {"fcntl", "remove"}
TableExact ==
    \A p \in Process, d \in Database :
        (d \in table[p]) <=> \E i \in Instance : Proc[i] = p /\ DB[i] = d /\ InTable(i)

=============================================================================
