------------------------ MODULE LevelDBFactoryProofs ------------------------
(***************************************************************************)
(* Proof about the shared LevelDB objects (module LevelDBFactory), for any *)
(* number of clients, paths and objects: what create returned stays open   *)
(* and alive until the last remove, as long as no client of the factory    *)
(* calls make() on what it shares with others.                             *)
(***************************************************************************)
EXTENDS LevelDBFactory, FiniteSetTheorems, TLAPS

(* What the proof needs of the constants: the null pointer is no wrapper,  *)
(* clients are finite in number, and none of them calls make().            *)
SharingRules ==
    /\ NullIsNoWrapper /\ ~SharersMake
    /\ IsFiniteSet(Sharers) /\ MaxHolds \in Nat

Holds == [obj : Objects, path : Paths, n : 1..MaxHolds]

FactoryTypes ==
    /\ objs \in [Objects -> Wrappers \cup {NULL}]
    /\ leveldbs \subseteq Objects
    /\ holds \in [Sharers -> SUBSET Holds]

(* A wrapper of the factory is open; only those are held.                  *)
SharedOpen == \A o \in leveldbs : Alive(o) /\ objs[o].open

HeldShared ==
    \A c \in Sharers : \A h \in holds[c] : h.obj \in leveldbs /\ objs[h.obj].path = h.path

(* A client tells its returns apart.                                       *)
NumbersApart ==
    \A c \in Sharers : \A g, h \in holds[c] : g.n = h.n => g = h

Counted == \A o \in leveldbs : objs[o].refs = Cardinality(Holders(o))

OpenOnce ==
    \A o, q \in Objects :
        Alive(o) /\ Alive(q) /\ objs[o].open /\ objs[q].open /\ objs[o].path = objs[q].path
            => o = q

FactoryInv ==
    FactoryTypes /\ SharedOpen /\ HeldShared /\ NumbersApart /\ Counted /\ OpenOnce

-----------------------------------------------------------------------------
(* An address that New and create take is free.                            *)
LEMMA FreshFree ==
    ASSUME \E o \in Objects : ~Alive(o)
    PROVE  Fresh \in Objects /\ ~Alive(Fresh)
  BY DEF Fresh

(* The holders of a wrapper are finite in number.                          *)
LEMMA HoldersFinite ==
    ASSUME SharingRules, NEW o
    PROVE  IsFiniteSet(Holders(o)) /\ Cardinality(Holders(o)) \in Nat
<1>1. IsFiniteSet(1..MaxHolds)
  BY FS_Interval DEF SharingRules
<1>2. IsFiniteSet(Sharers \X (1..MaxHolds))
  BY <1>1, FS_Product DEF SharingRules
<1>3. Holders(o) \in SUBSET (Sharers \X (1..MaxHolds))
  BY DEF Holders
<1>4. IsFiniteSet(Holders(o))
  BY <1>2, <1>3, FS_Subset
<1> QED BY <1>4, FS_CardinalityType

(* create adds its return to the holders of the wrapper, and to no others. *)
LEMMA HoldersAdded ==
    ASSUME FactoryTypes, NEW c \in Sharers, NEW n \in 1..MaxHolds, NEW o \in Objects,
           NEW new \in Holds, new.obj = o, new.n = n,
           holds' = [holds EXCEPT ![c] = @ \cup {new}]
    PROVE  /\ Holders(o)' = Holders(o) \cup {<<c, n>>}
           /\ \A q \in Objects : q # o => Holders(q)' = Holders(q)
<1>0. holds \in [Sharers -> SUBSET Holds]
  BY DEF FactoryTypes
<1>1. /\ holds'[c] = holds[c] \cup {new}
      /\ \A d \in Sharers : d # c => holds'[d] = holds[d]
  BY <1>0
<1>2. new.obj = o /\ new.n = n
  OBVIOUS
<1>3. Holders(o)' = Holders(o) \cup {<<c, n>>}
  <2>1. ASSUME NEW cn \in Sharers \X (1..MaxHolds)
        PROVE  (\E h \in holds'[cn[1]] : h.obj = o /\ h.n = cn[2]) <=>
                 (\E h \in holds[cn[1]] : h.obj = o /\ h.n = cn[2]) \/ cn = <<c, n>>
    <3>1. CASE cn[1] = c
      BY <1>1, <1>2, <3>1
    <3>2. CASE cn[1] # c
      BY <1>1, <3>2
    <3> QED BY <3>1, <3>2
  <2> QED BY <2>1 DEF Holders
<1>4. ASSUME NEW q \in Objects, q # o
      PROVE  Holders(q)' = Holders(q)
  <2>1. ASSUME NEW cn \in Sharers \X (1..MaxHolds)
        PROVE  (\E h \in holds'[cn[1]] : h.obj = q /\ h.n = cn[2]) <=>
                 (\E h \in holds[cn[1]] : h.obj = q /\ h.n = cn[2])
    BY <1>1, <1>2, <1>4
  <2> QED BY <2>1 DEF Holders
<1> QED BY <1>3, <1>4

(* remove takes it off again.                                              *)
LEMMA HoldersTaken ==
    ASSUME FactoryTypes, NumbersApart, NEW c \in Sharers, NEW h \in holds[c],
           holds' = [holds EXCEPT ![c] = @ \ {h}]
    PROVE  /\ <<c, h.n>> \in Holders(h.obj)
           /\ Holders(h.obj)' = Holders(h.obj) \ {<<c, h.n>>}
           /\ \A q \in Objects : q # h.obj => Holders(q)' = Holders(q)
<1>0. holds \in [Sharers -> SUBSET Holds] /\ h \in Holds
  BY DEF FactoryTypes
<1>1. /\ holds'[c] = holds[c] \ {h}
      /\ \A d \in Sharers : d # c => holds'[d] = holds[d]
  BY <1>0
<1>2. h.n \in 1..MaxHolds /\ h.obj \in Objects
  BY <1>0 DEF Holds
<1>3. <<c, h.n>> \in Holders(h.obj)
  BY <1>2 DEF Holders
<1>4. Holders(h.obj)' = Holders(h.obj) \ {<<c, h.n>>}
  <2>1. ASSUME NEW cn \in Sharers \X (1..MaxHolds)
        PROVE  (\E g \in holds'[cn[1]] : g.obj = h.obj /\ g.n = cn[2]) <=>
                 (\E g \in holds[cn[1]] : g.obj = h.obj /\ g.n = cn[2]) /\ cn # <<c, h.n>>
    <3>1. CASE cn[1] = c
      BY <1>1, <3>1 DEF NumbersApart
    <3>2. CASE cn[1] # c
      BY <1>1, <3>2
    <3> QED BY <3>1, <3>2
  <2> QED BY <2>1 DEF Holders
<1>5. ASSUME NEW q \in Objects, q # h.obj
      PROVE  Holders(q)' = Holders(q)
  <2>1. ASSUME NEW cn \in Sharers \X (1..MaxHolds)
        PROVE  (\E g \in holds'[cn[1]] : g.obj = q /\ g.n = cn[2]) <=>
                 (\E g \in holds[cn[1]] : g.obj = q /\ g.n = cn[2])
    BY <1>1, <1>5
  <2> QED BY <2>1 DEF Holders
<1> QED BY <1>3, <1>4, <1>5

-----------------------------------------------------------------------------
(* A change to a wrapper that is not of the factory keeps the invariant if *)
(* the database it has open is its own.                                    *)
LEMMA OwnChanged ==
    ASSUME FactoryInv, NEW o \in Objects, o \notin leveldbs, NEW w \in Wrappers \cup {NULL},
           objs' = [objs EXCEPT ![o] = w], UNCHANGED <<leveldbs, holds>>,
           w # NULL /\ w.open =>
               ~Locked(w.path) \/ (Alive(o) /\ objs[o].open /\ objs[o].path = w.path)
    PROVE  FactoryInv'
<1>1. FactoryTypes /\ objs \in [Objects -> Wrappers \cup {NULL}] /\ leveldbs \subseteq Objects
  BY DEF FactoryInv, FactoryTypes
<1>2. objs'[o] = w /\ \A q \in Objects : q # o => objs'[q] = objs[q]
  BY <1>1
<1>3. FactoryTypes'
  BY <1>1 DEF FactoryTypes
<1>4. SharedOpen' /\ HeldShared' /\ NumbersApart'
  BY <1>1, <1>2 DEF FactoryInv, SharedOpen, HeldShared, NumbersApart, Alive
<1>5. Counted'
  <2>1. \A q : Holders(q)' = Holders(q)
    BY DEF Holders
  <2> QED BY <1>1, <1>2, <2>1 DEF FactoryInv, Counted
<1>6. OpenOnce'
  BY <1>1, <1>2 DEF FactoryInv, OpenOnce, Alive, Locked
<1> QED BY <1>3, <1>4, <1>5, <1>6 DEF FactoryInv

(* A call that leaves objects and handles alone.                           *)
LEMMA NothingChanged ==
    ASSUME FactoryInv, UNCHANGED <<objs, leveldbs, holds>>
    PROVE  FactoryInv'
<1>1. \A q : Holders(q)' = Holders(q)
  BY DEF Holders
<1> QED BY <1>1 DEF FactoryInv, FactoryTypes, SharedOpen, HeldShared, NumbersApart, Counted,
                    OpenOnce, Alive

(* The calls of a client that has a wrapper of its own.                    *)
LEMMA OwnStep ==
    ASSUME FactoryInv, SharingRules, NEW o \in Own,
           \/ \E p \in Paths, r, w \in BOOLEAN : OpenPath(o, p, r, w)
           \/ \E v \in Values : Insert(o, v)
           \/ AtomReady(o) \/ AtomCommit(o) \/ Make(o) \/ Close(o) \/ Destory(o) \/ Delete(o)
    PROVE  FactoryInv'
<1>1. o \in Objects /\ o \notin leveldbs /\ Alive(o) /\ objs[o] \in Wrappers
  BY DEF Own, Alive, FactoryInv, FactoryTypes
<1>2. UNCHANGED <<leveldbs, holds>>
  BY DEF OpenPath, Insert, AtomReady, AtomCommit, Make, Close, Destory, Delete
<1>3. SUFFICES ASSUME ~UNCHANGED objs PROVE FactoryInv'
  BY <1>2, NothingChanged
<1>4. SUFFICES \E w \in Wrappers \cup {NULL} :
                 /\ objs' = [objs EXCEPT ![o] = w]
                 /\ w # NULL /\ w.open => ~Locked(w.path) \/ (objs[o].open /\ objs[o].path = w.path)
  BY <1>1, <1>2, OwnChanged
<1>5. ASSUME NEW p \in Paths, NEW r \in BOOLEAN, NEW w \in BOOLEAN, OpenPath(o, p, r, w)
      PROVE  \E x \in Wrappers \cup {NULL} :
                 /\ objs' = [objs EXCEPT ![o] = x]
                 /\ x # NULL /\ x.open => ~Locked(x.path) \/ (objs[o].open /\ objs[o].path = x.path)
  <2>1. CanOpen(p, r, w) /\ objs' = [objs EXCEPT ![o] = Opened(objs[o], p, r)]
    BY <1>3, <1>5 DEF OpenPath
  <2>2. Opened(objs[o], p, r) \in Wrappers /\ Opened(objs[o], p, r).path = p
    BY <1>1 DEF Opened, Wrappers
  <2> QED BY <2>1, <2>2 DEF CanOpen
<1>6. CASE \E v \in Values : Insert(o, v)
  <2>1. PICK v \in Values : objs' = [objs EXCEPT ![o].batch = @ \cup {v}]
    BY <1>3, <1>6 DEF Insert
  <2> DEFINE x == [objs[o] EXCEPT !.batch = @ \cup {v}]
  <2>2. objs' = [objs EXCEPT ![o] = x]
    BY <2>1
  <2>3. x \in Wrappers /\ x.path = objs[o].path /\ x.open = objs[o].open
    BY <1>1 DEF Wrappers
  <2> QED BY <2>2, <2>3
<1>7. CASE AtomReady(o)
  <2> DEFINE x == [objs[o] EXCEPT !.batch = {}, !.isAtomic = TRUE]
  <2>1. objs' = [objs EXCEPT ![o].batch = {}, ![o].isAtomic = TRUE]
    BY <1>3, <1>7 DEF AtomReady
  <2>2. objs' = [objs EXCEPT ![o] = x]
    BY <1>1, <2>1 DEF FactoryInv, FactoryTypes
  <2>3. x \in Wrappers /\ x.path = objs[o].path /\ x.open = objs[o].open
    BY <1>1 DEF Wrappers
  <2> QED BY <2>2, <2>3
<1>8. CASE AtomCommit(o)
  <2> DEFINE x == [objs[o] EXCEPT !.isAtomic = FALSE]
  <2>2. objs' = [objs EXCEPT ![o] = x]
    BY <1>3, <1>8 DEF AtomCommit
  <2>3. x \in Wrappers /\ x.path = objs[o].path /\ x.open = objs[o].open
    BY <1>1 DEF Wrappers
  <2> QED BY <2>2, <2>3
<1>9. CASE Make(o)
  <2>1. objs[o].path # NULL
    BY <1>3, <1>9 DEF Make
  <2>2. \/ objs' = [objs EXCEPT ![o] = Closed(objs[o])]
        \/ objs' = [objs EXCEPT ![o] = Closed(Opened(Closed(objs[o]), objs[o].path, TRUE))]
    BY <1>3, <1>9 DEF Make
  <2>3. Closed(objs[o]) \in Wrappers /\ ~Closed(objs[o]).open
    BY <1>1 DEF Closed, Wrappers
  <2>4. /\ Closed(Opened(Closed(objs[o]), objs[o].path, TRUE)) \in Wrappers
        /\ ~Closed(Opened(Closed(objs[o]), objs[o].path, TRUE)).open
    BY <1>1 DEF Closed, Opened, Wrappers
  <2> QED BY <2>2, <2>3, <2>4
<1>10. CASE Close(o)
  <2>1. objs' = [objs EXCEPT ![o] = Closed(objs[o])]
    BY <1>10 DEF Close
  <2>2. Closed(objs[o]) \in Wrappers /\ ~Closed(objs[o]).open
    BY <1>1 DEF Closed, Wrappers
  <2> QED BY <2>1, <2>2
<1>11. CASE Destory(o)
  <2> DEFINE x == [objs[o] EXCEPT !.batch = IF objs[o].open THEN {} ELSE @]
  <2>2. objs' = [objs EXCEPT ![o] = x]
    BY <1>11 DEF Destory
  <2>3. x \in Wrappers /\ x.path = objs[o].path /\ x.open = objs[o].open
    BY <1>1 DEF Wrappers
  <2> QED BY <2>2, <2>3
<1>12. CASE Delete(o)
  BY <1>12 DEF Delete
<1> QED BY <1>5, <1>6, <1>7, <1>8, <1>9, <1>10, <1>11, <1>12

(* new LevelDB.                                                            *)
LEMMA NewStep ==
    ASSUME FactoryInv, New
    PROVE  FactoryInv'
<1>1. Fresh \in Objects /\ ~Alive(Fresh)
  BY FreshFree DEF New
<1>2. Fresh \notin leveldbs
  BY <1>1 DEF FactoryInv, SharedOpen
<1>3. Wrapper \in Wrappers /\ ~Wrapper.open
  BY DEF Wrapper, Wrappers
<1>4. objs' = [objs EXCEPT ![Fresh] = Wrapper] /\ UNCHANGED <<leveldbs, holds>>
  BY DEF New
<1> QED BY <1>1, <1>2, <1>3, <1>4, OwnChanged

(* create finds a wrapper for the path: one more return, one more          *)
(* reference.                                                              *)
LEMMA CreateHitStep ==
    ASSUME FactoryInv, SharingRules, NEW c \in Sharers, NEW p \in Paths, NEW n \in 1..MaxHolds,
           \A h \in holds[c] : h.n # n, CreateHit(c, p, n)
    PROVE  FactoryInv'
<1>1. PICK o \in SharedFor(p) :
          /\ objs' = [objs EXCEPT ![o].refs = @ + 1]
          /\ holds' = [holds EXCEPT ![c] = @ \cup {[obj |-> o, path |-> p, n |-> n]}]
          /\ UNCHANGED leveldbs
  BY DEF CreateHit
<1>2. /\ objs \in [Objects -> Wrappers \cup {NULL}] /\ leveldbs \subseteq Objects
      /\ holds \in [Sharers -> SUBSET Holds]
  BY DEF FactoryInv, FactoryTypes
<1>3. /\ o \in leveldbs /\ o \in Objects /\ objs[o].path = p /\ Alive(o) /\ objs[o].open
      /\ objs[o] \in Wrappers
  BY <1>2 DEF SharedFor, FactoryInv, SharedOpen, Alive
<1> DEFINE w == [objs[o] EXCEPT !.refs = @ + 1]
           new == [obj |-> o, path |-> p, n |-> n]
<1>4. /\ w \in Wrappers /\ w.path = p /\ w.open /\ w.refs = objs[o].refs + 1 /\ w # NULL
      /\ new \in Holds /\ new.obj = o /\ new.path = p /\ new.n = n
  BY <1>3 DEF Wrappers, Holds, SharingRules, NullIsNoWrapper
<1>5. objs' = [objs EXCEPT ![o] = w]
  BY <1>1
<1>6. /\ holds'[c] = holds[c] \cup {new}
      /\ \A d \in Sharers : d # c => holds'[d] = holds[d]
  BY <1>1, <1>2
<1> HIDE DEF w, new
<1>7. objs'[o] = w /\ \A q \in Objects : q # o => objs'[q] = objs[q]
  BY <1>2, <1>3, <1>5
<1>8. FactoryTypes'
  <2>1. objs' \in [Objects -> Wrappers \cup {NULL}]
    BY <1>2, <1>4, <1>5
  <2>2. holds' \in [Sharers -> SUBSET Holds]
    BY <1>1, <1>2, <1>4 DEF new
  <2> QED BY <1>1, <1>2, <2>1, <2>2 DEF FactoryTypes
<1>9. SharedOpen'
  BY <1>1, <1>2, <1>4, <1>7 DEF FactoryInv, SharedOpen, Alive
<1>10. HeldShared'
  BY <1>1, <1>2, <1>3, <1>4, <1>6, <1>7 DEF FactoryInv, HeldShared
<1>11. NumbersApart'
  BY <1>4, <1>6 DEF FactoryInv, NumbersApart
<1>12. Counted'
  <2>1. /\ Holders(o)' = Holders(o) \cup {<<c, n>>}
        /\ \A q \in Objects : q # o => Holders(q)' = Holders(q)
    <3>1. FactoryTypes
      BY DEF FactoryInv
    <3>2. holds' = [holds EXCEPT ![c] = @ \cup {new}]
      BY <1>1 DEF new
    <3> QED BY ZenonT(40), <1>3, <1>4, <3>1, <3>2, HoldersAdded
  <2>2. <<c, n>> \notin Holders(o)
    BY DEF Holders
  <2>3. IsFiniteSet(Holders(o)) /\ Cardinality(Holders(o)) \in Nat
    BY HoldersFinite
  <2>4. Cardinality(Holders(o) \cup {<<c, n>>}) = Cardinality(Holders(o)) + 1
    BY <2>2, <2>3, FS_AddElement
  <2>5. objs[o].refs = Cardinality(Holders(o))
    BY <1>3 DEF FactoryInv, Counted
  <2>6. objs'[o].refs = Cardinality(Holders(o)')
    BY <1>4, <1>7, <2>1, <2>4, <2>5
  <2>7. \A q \in leveldbs : q # o => objs'[q].refs = Cardinality(Holders(q)')
    BY <1>2, <1>7, <2>1 DEF FactoryInv, Counted
  <2> QED BY <1>1, <2>6, <2>7 DEF Counted
<1>13. OpenOnce'
  BY <1>2, <1>3, <1>4, <1>7 DEF FactoryInv, OpenOnce, Alive
<1> QED BY <1>8, <1>9, <1>10, <1>11, <1>12, <1>13 DEF FactoryInv

(* create makes a wrapper and opens it.                                    *)
LEMMA CreateMissStep ==
    ASSUME FactoryInv, SharingRules, NEW c \in Sharers, NEW p \in Paths, NEW n \in 1..MaxHolds,
           \A h \in holds[c] : h.n # n, CreateMiss(c, p, n)
    PROVE  FactoryInv'
<1>0. CASE ~CanOpen(p, TRUE, FALSE)
  BY <1>0, NothingChanged DEF CreateMiss
<1>. SUFFICES ASSUME CanOpen(p, TRUE, FALSE) PROVE FactoryInv'
  BY <1>0
<1>1. PICK o \in Objects : o = Fresh /\ ~Alive(o)
  BY FreshFree DEF CreateMiss
<1> DEFINE w == [Opened(Wrapper, p, TRUE) EXCEPT !.refs = 1]
           new == [obj |-> o, path |-> p, n |-> n]
<1>2. /\ objs' = [objs EXCEPT ![o] = w]
      /\ leveldbs' = leveldbs \cup {o}
      /\ holds' = [holds EXCEPT ![c] = @ \cup {new}]
  BY <1>1 DEF CreateMiss
<1>3. /\ objs \in [Objects -> Wrappers \cup {NULL}] /\ leveldbs \subseteq Objects
      /\ holds \in [Sharers -> SUBSET Holds]
  BY DEF FactoryInv, FactoryTypes
<1>4. /\ w \in Wrappers /\ w.path = p /\ w.open /\ w.refs = 1
      /\ new \in Holds /\ new.obj = o /\ new.path = p /\ new.n = n
  BY DEF Wrappers, Wrapper, Opened, Holds
<1>5. w # NULL /\ o \notin leveldbs /\ ~Locked(p)
  BY <1>1, <1>4 DEF SharingRules, NullIsNoWrapper, FactoryInv, SharedOpen, CanOpen
<1>6. /\ holds'[c] = holds[c] \cup {new}
      /\ \A d \in Sharers : d # c => holds'[d] = holds[d]
  BY <1>2, <1>3
<1>7. /\ Holders(o)' = Holders(o) \cup {<<c, n>>}
      /\ \A q \in Objects : q # o => Holders(q)' = Holders(q)
  <2>1. FactoryTypes
    BY DEF FactoryInv
  <2> HIDE DEF new
  <2> QED BY ZenonT(40), <1>2, <1>4, <2>1, HoldersAdded
<1>8. FactoryTypes'
  <2>1. holds' \in [Sharers -> SUBSET Holds]
    BY <1>2, <1>3, <1>4
  <2> HIDE DEF w, new
  <2>2. objs' \in [Objects -> Wrappers \cup {NULL}]
    BY <1>2, <1>3, <1>4
  <2> QED BY <1>2, <1>3, <2>1, <2>2 DEF FactoryTypes
<1> HIDE DEF w, new
<1>9. objs'[o] = w /\ \A q \in Objects : q # o => objs'[q] = objs[q]
  BY <1>2, <1>3
<1>10. SharedOpen'
  BY <1>2, <1>3, <1>4, <1>5, <1>9 DEF FactoryInv, SharedOpen, Alive
<1>11. HeldShared'
  BY <1>2, <1>3, <1>4, <1>5, <1>6, <1>9 DEF FactoryInv, HeldShared
<1>12. NumbersApart'
  BY <1>4, <1>6 DEF FactoryInv, NumbersApart
<1>13. Counted'
  <2>1. Holders(o) = {}
    BY <1>5 DEF Holders, FactoryInv, HeldShared
  <2>2. Cardinality(Holders(o)') = 1
    BY ZenonT(40), <1>7, <2>1, FS_Singleton
  <2>3. \A q \in leveldbs : q # o => objs'[q].refs = Cardinality(Holders(q)')
    BY <1>3, <1>7, <1>9 DEF FactoryInv, Counted
  <2> QED BY <1>2, <1>4, <1>5, <1>9, <2>2, <2>3 DEF Counted
<1>14. OpenOnce'
  BY <1>3, <1>4, <1>5, <1>9 DEF FactoryInv, OpenOnce, Alive, Locked
<1> QED BY <1>8, <1>10, <1>11, <1>12, <1>13, <1>14 DEF FactoryInv

(* remove: the last one deletes the wrapper, and nobody else has it.       *)
LEMMA RemoveStep ==
    ASSUME FactoryInv, SharingRules, NEW c \in Sharers, NEW h \in holds[c], Remove(c, h)
    PROVE  FactoryInv'
<1>1. /\ objs \in [Objects -> Wrappers \cup {NULL}] /\ leveldbs \subseteq Objects
      /\ holds \in [Sharers -> SUBSET Holds]
  BY DEF FactoryInv, FactoryTypes
<1>2. PICK o \in leveldbs : o = h.obj
  BY DEF FactoryInv, HeldShared
<1>3. o \in Objects /\ Alive(o) /\ objs[o].open /\ objs[o] \in Wrappers
  BY <1>1, <1>2 DEF FactoryInv, SharedOpen, Alive
<1>4. holds' = [holds EXCEPT ![c] = @ \ {h}]
  BY DEF Remove
<1>5. /\ holds'[c] = holds[c] \ {h}
      /\ \A d \in Sharers : d # c => holds'[d] = holds[d]
  BY <1>1, <1>4
<1>6. /\ <<c, h.n>> \in Holders(o)
      /\ Holders(o)' = Holders(o) \ {<<c, h.n>>}
      /\ \A q \in Objects : q # o => Holders(q)' = Holders(q)
  BY <1>2, <1>4, HoldersTaken DEF FactoryInv
<1>7. IsFiniteSet(Holders(o)) /\ Cardinality(Holders(o)) \in Nat
  BY HoldersFinite
<1>8. objs[o].refs = Cardinality(Holders(o))
  BY DEF FactoryInv, Counted
<1>9. Cardinality(Holders(o) \ {<<c, h.n>>}) = Cardinality(Holders(o)) - 1
  BY <1>6, <1>7, FS_RemoveElement
<1>10. IsFiniteSet(Holders(o) \ {<<c, h.n>>}) /\ Cardinality(Holders(o) \ {<<c, h.n>>}) \in Nat
  BY <1>7, FS_RemoveElement, FS_CardinalityType
<1>11. holds' \in [Sharers -> SUBSET Holds] /\ NumbersApart'
  BY <1>1, <1>4, <1>5 DEF FactoryInv, NumbersApart
<1>12. CASE objs[o].refs = 1
  <2>1. objs' = [objs EXCEPT ![o] = NULL] /\ leveldbs' = leveldbs \ {o}
    BY <1>2, <1>12 DEF Remove
  <2>2. objs'[o] = NULL /\ \A q \in Objects : q # o => objs'[q] = objs[q]
    BY <1>1, <1>3, <2>1
  <2>3. Holders(o)' = {}
    BY <1>6, <1>8, <1>9, <1>10, <1>12, FS_EmptySet
  <2>4. \A d \in Sharers : \A g \in holds'[d] : g.obj # o
    <3>1. ASSUME NEW d \in Sharers, NEW g \in holds'[d], g.obj = o PROVE FALSE
      <4>1. g.n \in 1..MaxHolds
        BY <1>11, <3>1 DEF Holds
      <4>2. <<d, g.n>> \in Holders(o)'
        BY <3>1, <4>1 DEF Holders
      <4> QED BY <2>3, <4>2
    <3> QED BY <3>1
  <2>5. FactoryTypes'
    BY <1>1, <1>11, <2>1 DEF FactoryTypes
  <2>6. SharedOpen'
    BY <1>1, <2>1, <2>2 DEF FactoryInv, SharedOpen, Alive
  <2>7. HeldShared'
    BY <1>1, <1>5, <2>1, <2>2, <2>4 DEF FactoryInv, HeldShared
  <2>8. Counted'
    BY <1>1, <1>6, <2>1, <2>2 DEF FactoryInv, Counted
  <2>9. OpenOnce'
    BY <1>1, <2>2 DEF FactoryInv, OpenOnce, Alive
  <2> QED BY <1>11, <2>5, <2>6, <2>7, <2>8, <2>9 DEF FactoryInv
<1>13. CASE objs[o].refs # 1
  <2> DEFINE w == [objs[o] EXCEPT !.refs = @ - 1]
  <2>1. objs' = [objs EXCEPT ![o] = w] /\ leveldbs' = leveldbs
    BY <1>2, <1>13 DEF Remove
  <2>2. objs[o].refs - 1 \in Nat
    BY <1>8, <1>9, <1>10
  <2>3. /\ w \in Wrappers /\ w.path = objs[o].path /\ w.open
        /\ w.refs = objs[o].refs - 1 /\ w # NULL
    BY <1>3, <2>2 DEF Wrappers, SharingRules, NullIsNoWrapper
  <2> HIDE DEF w
  <2>4. objs'[o] = w /\ \A q \in Objects : q # o => objs'[q] = objs[q]
    BY <1>1, <1>3, <2>1
  <2>5. FactoryTypes'
    BY <1>1, <1>11, <2>1, <2>3 DEF FactoryTypes
  <2>6. SharedOpen'
    BY <1>1, <2>1, <2>3, <2>4 DEF FactoryInv, SharedOpen, Alive
  <2>7. HeldShared'
    BY <1>1, <1>5, <2>1, <2>3, <2>4 DEF FactoryInv, HeldShared
  <2>8. Counted'
    <3>1. objs'[o].refs = Cardinality(Holders(o)')
      BY <1>6, <1>8, <1>9, <2>3, <2>4
    <3>2. \A q \in leveldbs : q # o => objs'[q].refs = Cardinality(Holders(q)')
      BY <1>1, <1>6, <2>4 DEF FactoryInv, Counted
    <3> QED BY <2>1, <3>1, <3>2 DEF Counted
  <2>9. OpenOnce'
    BY <1>1, <1>3, <2>3, <2>4 DEF FactoryInv, OpenOnce, Alive
  <2> QED BY <1>11, <2>5, <2>6, <2>7, <2>8, <2>9 DEF FactoryInv
<1> QED BY <1>12, <1>13

-----------------------------------------------------------------------------
(* No wrapper, no handle.                                                  *)
LEMMA FactoryInit ==
    ASSUME FInit
    PROVE  FactoryInv
  BY DEF FInit, FactoryInv, FactoryTypes, SharedOpen, HeldShared, NumbersApart, Counted,
         OpenOnce, Alive

(* Every call keeps the invariant.                                         *)
LEMMA FactoryStep ==
    ASSUME SharingRules, FactoryInv, [FNext]_fvars
    PROVE  FactoryInv'
<1>1. CASE UNCHANGED fvars
  BY <1>1, NothingChanged DEF fvars
<1>2. ASSUME NEW c \in Sharers, NEW p \in Paths, Create(c, p)
      PROVE  FactoryInv'
  <2>1. PICK n \in 1..MaxHolds :
            /\ \A m \in 1..n : (\A h \in holds[c] : h.n # m) <=> m = n
            /\ CreateHit(c, p, n) \/ CreateMiss(c, p, n)
    BY <1>2 DEF Create
  <2>2. n \in 1..n
    BY DEF SharingRules
  <2>3. \A h \in holds[c] : h.n # n
    BY <2>1, <2>2
  <2> QED BY <2>1, <2>3, CreateHitStep, CreateMissStep
<1>3. ASSUME NEW c \in Sharers, NEW h \in holds[c], Remove(c, h)
      PROVE  FactoryInv'
  BY <1>3, RemoveStep
<1>4. CASE New
  BY <1>4, NewStep
<1>5. ASSUME NEW o \in Own,
             \/ \E p \in Paths, r, w \in BOOLEAN : OpenPath(o, p, r, w)
             \/ \E v \in Values : Insert(o, v)
             \/ AtomReady(o) \/ AtomCommit(o) \/ Make(o) \/ Close(o) \/ Destory(o) \/ Delete(o)
      PROVE  FactoryInv'
  BY <1>5, OwnStep
<1> QED BY <1>1, <1>2, <1>3, <1>4, <1>5 DEF FNext, SharingRules

(* What LevelDBFactory::create returned is alive, open and for its path    *)
(* until it is given back, its count is right, and a database is open once *)
(* in the process, if no client of the factory calls make().               *)
THEOREM HandlesStayShared == SharingRules => (FSpec => []HandlesShared)
<1>1. SUFFICES ASSUME SharingRules PROVE FSpec => []HandlesShared
  OBVIOUS
<1>2. FInit => FactoryInv
  BY FactoryInit
<1>3. FactoryInv /\ [FNext]_fvars => FactoryInv'
  BY <1>1, FactoryStep
<1>4. FactoryInv => HandlesShared
  BY DEF FactoryInv, HandlesShared, HeldShared, SharedOpen, Counted, OpenOnce
<1> QED BY <1>2, <1>3, <1>4, PTL DEF FSpec
=============================================================================
