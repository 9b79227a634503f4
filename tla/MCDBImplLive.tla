---------------------------- MODULE MCDBImplLive ----------------------------
(* TLC instance of DBImpl for liveness: at most two clients make a call,   *)
(* two writers, a writer and a TEST_CompactRange, or two of the latter.    *)
(* Nothing obliges a client to call, so every behaviour of this instance   *)
(* is one of FairSpec.  I/O fails beside two writers only: a failed merge  *)
(* that TEST_CompactRange cancelled stops the model (ManualStillThere).    *)
EXTENDS DBImpl
CONSTANTS w1, w2, m1, m2

(* More failures than the bound have been: none is left. *)
NoFailures == fails > MaxFail

LiveInit ==
    /\ AfterOpen
    /\ fails \in {0, MaxFail + 1}
    /\ ~NoFailures => \A m \in Manual : mleft[m] = 0

(* Clients of one kind call in order, which is no restriction. *)
Called(p) == pc[p] # "idle"

WriterMayCall(w) ==
    \/ w = w1 /\ ~Called(m2)
    \/ w = w2 /\ Called(w1) /\ ~NoFailures

ManualMayCall(m) ==
    NoFailures /\ (m = m1 \/ (m = m2 /\ Called(m1) /\ ~Called(w1)))

LiveNext ==
    \/ \E p \in Thread : Lock(p)
    \/ \E w \in Writer : WriterStep(w)
    \/ \E w \in Writer, sy \in BOOLEAN, b \in Counts \cup {NULL} :
          WriterMayCall(w) /\ Write(w, sy, b)
    \/ \E m \in Manual : ManualMayCall(m) /\ CompactRange(m)
    \/ \E m \in Manual : ManualStep(m)
    \/ Close \/ CloserStep
    \/ BgStep
    \/ Terminated

LiveSpec == LiveInit /\ [][LiveNext]_vars /\ Fairness
=============================================================================
