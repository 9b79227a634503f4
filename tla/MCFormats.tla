----------------------------- MODULE MCFormats -----------------------------
\* Three ways to read what was written, which share no state, in one run: the
\* log, a table and the iterator of the database. `part` says which of them
\* moves.
EXTENDS MCLogFormat

CONSTANTS
    InternalKeys, MaxEntries, Top, MaxTag, Intervals, BlockSizes, FilterBase,
    BitsPerKey, MinBits, HashOf, Spaces,
    Keys, Runs, Loaded, MaxSequence

VARIABLES
    part,
    opt, added, builder, damaged, table, titer, tcall,
    runs, sequence, iter, call

tablevars == <<opt, added, builder, damaged, table, titer, tcall>>
itervars == <<runs, sequence, iter, call>>

\* User keys with a tag each: keys that are prefixes of others, that end in the
\* largest byte, that have two versions.
TableKeys == {<<0, 2>>, <<0, 1>>, <<0, 0, 1>>, <<0, 3, 1>>, <<3, 1>>, <<3, 3, 1>>}
TableHashes ==
    [u \in {<<0>>, <<0, 0>>, <<0, 3>>, <<3>>, <<3, 3>>} |->
        CASE u = <<0>> -> 538 [] u = <<0, 0>> -> 16689 [] u = <<0, 3>> -> 16710
          [] u = <<3>> -> 559 [] u = <<3, 3>> -> 17361]
Table == INSTANCE SortedTable
Iter == INSTANCE DBIter

NoTable ==
    /\ opt = 0 /\ added = 0 /\ builder = 0 /\ damaged = 0 /\ table = 0 /\ titer = 0
    /\ tcall = 0
NoIter == runs = 0 /\ sequence = 0 /\ iter = 0 /\ call = 0

MCInit ==
    /\ part \in {"log", "table", "iter"}
    /\ Init
    /\ IF part = "table" THEN Table!TInit ELSE NoTable
    /\ IF part = "iter" THEN Iter!Init ELSE NoIter

\* A client may stop using a table at any time: a builder that failed and a
\* table that could not be opened are of no more use.
Abandoned == part = "table" /\ builder.closed /\ titer = NULL /\ UNCHANGED tablevars

MCNext ==
    \/ part = "log" /\ Next /\ UNCHANGED <<part, tablevars, itervars>>
    \/ part = "table" /\ (Table!TNext \/ Abandoned) /\ UNCHANGED <<part, vars, itervars>>
    \/ part = "iter" /\ Iter!Next /\ UNCHANGED <<part, vars, tablevars>>

MCSpec == MCInit /\ [][MCNext]_<<part, vars, tablevars, itervars>>

\* A lookup finds the newest entry its tag allows, through index block, filter
\* and restart points, or fails because of a damaged block (SortedTable).
TableGets == part = "table" => Table!GetExact

\* The iterator of a table is a cursor over its readable blocks, and says so
\* when it passed over one that cannot be read (SortedTable).
TableIterates == [][part = "table" => Table!CursorStep /\ Table!SkipTold]_tablevars

\* DBIter implements Cursor over its snapshot (DBIter).
IterImplementsCursor ==
    /\ part = "iter" => Iter!C!Init
    /\ [][part = "iter" => Iter!CursorStep]_itervars
=============================================================================
