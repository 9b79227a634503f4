--------------------------- MODULE LevelDBFactory ---------------------------
\* The wrapper of a database (LevelDB.cpp), the factory that shares wrappers
\* between clients (LevelDBFactory.cpp) and the counter of its references
\* (Reference.cpp). create and remove run under naviLock; every call of a
\* wrapper is one step. A client of the factory creates, queries and removes; a
\* client of its own makes a wrapper, uses every call of it and deletes it.
\* DBImpl is what DB::Open and the lock table make of it here: a database can
\* be open once in the process.
EXTENDS Naturals, FiniteSets

CONSTANTS
    NULL,
    Paths,
    Sharers,            \* clients of the factory
    Objects,            \* bound: addresses of wrappers
    Values,             \* what is inserted
    MaxHolds,           \* bound: creates of one client not yet removed
    SharersMake         \* whether a client of the factory calls make()

VARIABLES
    objs,               \* the wrapper at each address, or NULL
    leveldbs,           \* LevelDBFactory::leveldbs
    holds,              \* what create returned to each client, and for which path
    store,              \* what each database holds; NULL: it does not exist
    answer              \* the status that the last call returned

fvars == <<objs, leveldbs, holds, store, answer>>

Wrapper == [path |-> NULL, open |-> FALSE, readOnly |-> FALSE,
            isAtomic |-> FALSE, batch |-> {}, refs |-> 0]

\* What a wrapper can be. The null pointer is none of them.
Wrappers == [path : Paths \cup {NULL}, open : BOOLEAN, readOnly : BOOLEAN,
             isAtomic : BOOLEAN, batch : SUBSET Values, refs : Nat]

NullIsNoWrapper == NULL \notin Wrappers

Alive(o) == objs[o] # NULL
\* The lock of a database that some wrapper of the process has open.
Locked(p) == \E o \in Objects : Alive(o) /\ objs[o].open /\ objs[o].path = p

\* DB::Open: read only together with write only is refused, a database that is
\* read only is not created.
CanOpen(p, readOnly, writeOnly) ==
    /\ ~(readOnly /\ writeOnly)
    /\ ~Locked(p)
    /\ readOnly => store[p] # NULL

Opened(w, p, readOnly) == [w EXCEPT !.path = p, !.open = TRUE, !.readOnly = readOnly]
Closed(w) == [w EXCEPT !.open = FALSE]

Fresh == CHOOSE o \in Objects : ~Alive(o)
Answer(status) == answer' = status

FInit ==
    /\ objs = [o \in Objects |-> NULL]
    /\ leveldbs = {}
    /\ holds = [c \in Sharers |-> {}]
    /\ store \in [Paths -> {NULL, {}}]
    /\ answer = "ok"

-----------------------------------------------------------------------------
\* LevelDBFactory.

\* A wrapper for the path is shared; otherwise one is made and opened read only.
\* One that cannot be opened is lost: its address is not kept.
SharedFor(p) == {o \in leveldbs : objs[o].path = p}

FaultCreateHit(c, p, n) ==
    \E o \in SharedFor(p) :
        /\ holds' = [holds EXCEPT ![c] = @ \cup {[obj |-> o, path |-> p, n |-> n]}]
        /\ Answer("ok")
        /\ UNCHANGED <<objs, leveldbs, store>>

CreateHit(c, p, n) ==
    \E o \in SharedFor(p) :
        /\ objs' = [objs EXCEPT ![o].refs = @ + 1]
        /\ holds' = [holds EXCEPT ![c] = @ \cup {[obj |-> o, path |-> p, n |-> n]}]
        /\ Answer("ok")
        /\ UNCHANGED <<leveldbs, store>>

CreateMiss(c, p, n) ==
    /\ SharedFor(p) = {}
    /\ \E o \in Objects : ~Alive(o)
    /\ IF CanOpen(p, TRUE, FALSE)
       THEN /\ objs' = [objs EXCEPT ![Fresh] = [Opened(Wrapper, p, TRUE) EXCEPT !.refs = 1]]
            /\ leveldbs' = leveldbs \cup {Fresh}
            /\ holds' = [holds EXCEPT ![c] = @ \cup {[obj |-> Fresh, path |-> p, n |-> n]}]
            /\ Answer("ok")
       ELSE /\ Answer("NULL")
            /\ UNCHANGED <<objs, leveldbs, holds>>
    /\ UNCHANGED store

Create(c, p) ==
    \E n \in 1..MaxHolds :
        /\ \A m \in 1..n : (\A h \in holds[c] : h.n # m) <=> m = n
        /\ CreateHit(c, p, n) \/ CreateMiss(c, p, n)

Remove(c, h) ==
    /\ holds' = [holds EXCEPT ![c] = @ \ {h}]
    /\ IF objs[h.obj].refs = 1
       THEN /\ objs' = [objs EXCEPT ![h.obj] = NULL]
            /\ leveldbs' = leveldbs \ {h.obj}
       ELSE /\ objs' = [objs EXCEPT ![h.obj].refs = @ - 1]
            /\ UNCHANGED leveldbs
    /\ Answer("ok")
    /\ UNCHANGED store

-----------------------------------------------------------------------------
\* The calls of a wrapper o.

New ==
    /\ \E o \in Objects : ~Alive(o)
    /\ Cardinality({o \in Objects : Alive(o) /\ o \notin leveldbs}) = 0
    /\ objs' = [objs EXCEPT ![Fresh] = Wrapper]
    /\ Answer("ok")
    /\ UNCHANGED <<leveldbs, holds, store>>

\* The path given is ignored when the wrapper is open.
OpenPath(o, p, readOnly, writeOnly) ==
    /\ IF objs[o].open
       THEN Answer("ok") /\ UNCHANGED <<objs, store>>
       ELSE IF CanOpen(p, readOnly, writeOnly)
       THEN /\ objs' = [objs EXCEPT ![o] = Opened(@, p, readOnly)]
            /\ store' = [store EXCEPT ![p] = IF @ = NULL THEN {} ELSE @]
            /\ Answer("ok")
       ELSE Answer("error") /\ UNCHANGED <<objs, store>>
    /\ UNCHANGED <<leveldbs, holds>>

\* Put and Write of a database that is read only are NotSupported.
Insert(o, v) ==
    /\ IF ~objs[o].open
       THEN Answer("error") /\ UNCHANGED <<objs, store>>
       ELSE IF objs[o].isAtomic
       THEN /\ objs' = [objs EXCEPT ![o].batch = @ \cup {v}]
            /\ Answer("ok")
            /\ UNCHANGED store
       ELSE IF objs[o].readOnly
       THEN Answer("error") /\ UNCHANGED <<objs, store>>
       ELSE /\ store' = [store EXCEPT ![objs[o].path] = @ \cup {v}]
            /\ Answer("ok")
            /\ UNCHANGED objs
    /\ UNCHANGED <<leveldbs, holds>>

AtomReady(o) ==
    /\ IF objs[o].open
       THEN /\ objs' = [objs EXCEPT ![o].batch = {}, ![o].isAtomic = TRUE]
            /\ Answer("ok")
       ELSE Answer("error") /\ UNCHANGED objs
    /\ UNCHANGED <<leveldbs, holds, store>>

\* The batch is written and kept.
AtomCommit(o) ==
    /\ IF ~objs[o].open \/ ~objs[o].isAtomic
       THEN Answer("error") /\ UNCHANGED <<objs, store>>
       ELSE /\ objs' = [objs EXCEPT ![o].isAtomic = FALSE]
            /\ IF objs[o].readOnly
               THEN Answer("error") /\ UNCHANGED store
               ELSE /\ store' = [store EXCEPT ![objs[o].path] = @ \cup objs[o].batch]
                    /\ Answer("ok")
    /\ UNCHANGED <<leveldbs, holds>>

\* make() opens and closes the database again; what was open is closed for good.
Make(o) ==
    /\ LET w == Closed(objs[o])
           p == objs[o].path
           others == \E q \in Objects \ {o} : Alive(q) /\ objs[q].open /\ objs[q].path = p
       IN  IF p = NULL
           THEN Answer("error") /\ UNCHANGED objs
           ELSE /\ objs' = [objs EXCEPT ![o] =
                       IF others \/ store[p] = NULL THEN w ELSE Closed(Opened(w, p, TRUE))]
                /\ Answer(IF others \/ store[p] = NULL THEN "error" ELSE "ok")
    /\ UNCHANGED <<leveldbs, holds, store>>

Close(o) ==
    /\ objs' = [objs EXCEPT ![o] = Closed(@)]
    /\ Answer("ok")
    /\ UNCHANGED <<leveldbs, holds, store>>

\* DestroyDB locks the database, and the wrapper that is open has the lock.
Destory(o) ==
    /\ objs' = [objs EXCEPT ![o].batch = IF objs[o].open THEN {} ELSE @]
    /\ IF objs[o].open /\ ~Locked(objs[o].path)
       THEN store' = [store EXCEPT ![objs[o].path] = NULL] /\ Answer("ok")
       ELSE /\ UNCHANGED store
            /\ Answer(IF objs[o].open THEN "locked" ELSE "not open")
    /\ UNCHANGED <<leveldbs, holds>>

Delete(o) ==
    /\ objs' = [objs EXCEPT ![o] = NULL]
    /\ Answer("ok")
    /\ UNCHANGED <<leveldbs, holds, store>>

Own == {o \in Objects : Alive(o) /\ o \notin leveldbs}

FNext ==
    \/ \E c \in Sharers :
        \/ \E p \in Paths : Create(c, p)
        \/ \E h \in holds[c] : Remove(c, h)
        \/ SharersMake /\ \E h \in holds[c] : Make(h.obj)
    \/ New
    \/ \E o \in Own :
        \/ \E p \in Paths, r, w \in BOOLEAN : OpenPath(o, p, r, w)
        \/ \E v \in Values : Insert(o, v)
        \/ AtomReady(o)
        \/ AtomCommit(o)
        \/ Make(o)
        \/ Close(o)
        \/ Destory(o)
        \/ Delete(o)

FSpec == FInit /\ [][FNext]_fvars

-----------------------------------------------------------------------------
\* The returns of create that remove has not taken back, by client and number.
Holders(o) ==
    {cn \in Sharers \X (1..MaxHolds) : \E h \in holds[cn[1]] : h.obj = o /\ h.n = cn[2]}

\* What create has returned and remove has not taken back is alive, open and
\* for the path that was asked for; its counter is the number of such returns,
\* so that the last remove deletes it and no earlier one; and a path is open
\* once in the process, through the factory or not.
HandlesShared ==
    /\ \A c \in Sharers : \A h \in holds[c] :
        h.obj \in leveldbs /\ Alive(h.obj) /\ objs[h.obj].open /\ objs[h.obj].path = h.path
    /\ \A o \in leveldbs :
        objs[o].refs = Cardinality(Holders(o))
    /\ \A o, q \in Objects :
        Alive(o) /\ Alive(q) /\ objs[o].open /\ objs[q].open /\ objs[o].path = objs[q].path
            => o = q

\* destory() is the method that deletes the database (LevelDB.h): on an open
\* wrapper it is not refused because of the lock.
DestoryDeletes == answer # "locked"
=============================================================================
