------------------------------- MODULE Cursor -------------------------------
\* What an iterator promises: a cursor over a map that does not change. Every
\* call moves it to one definite key, or off the map.
CONSTANTS
    NULL,
    Targets,            \* what Seek may be called with
    Before(_, _)        \* the order of keys and targets

VARIABLES
    view,               \* the map the cursor shows
    call,               \* the last call
    at                  \* the key and the value shown, or NULL

cvars == <<view, call, at>>

Least(S) ==
    IF S = {} THEN NULL ELSE CHOOSE k \in S : \A j \in S : ~Before(j, k)
Greatest(S) ==
    IF S = {} THEN NULL ELSE CHOOSE k \in S : \A j \in S : ~Before(k, j)

Show(k) == IF k = NULL THEN NULL ELSE [key |-> k, value |-> view[k]]

Init == call = <<"new">> /\ at = NULL

SeekToFirst == call' = <<"first">> /\ at' = Show(Least(DOMAIN view))
SeekToLast == call' = <<"last">> /\ at' = Show(Greatest(DOMAIN view))

Seek(t) ==
    /\ call' = <<"seek", t>>
    /\ at' = Show(Least({k \in DOMAIN view : ~Before(k, t)}))

Step ==
    /\ at # NULL
    /\ call' = <<"next">>
    /\ at' = Show(Least({k \in DOMAIN view : Before(at.key, k)}))

StepBack ==
    /\ at # NULL
    /\ call' = <<"prev">>
    /\ at' = Show(Greatest({k \in DOMAIN view : Before(k, at.key)}))

Next ==
    /\ SeekToFirst \/ SeekToLast \/ (\E t \in Targets : Seek(t)) \/ Step \/ StepBack
    /\ UNCHANGED view

Spec == Init /\ [][Next]_cvars
=============================================================================
