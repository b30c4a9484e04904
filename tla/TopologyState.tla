--------------------------- MODULE TopologyState ---------------------------
(***************************************************************************)
(* The states of a topology or a node (core/topology_state.go) and the     *)
(* two tests every method of topologyStateHolder is built from: which      *)
(* assignments setWithoutLock accepts, and when waitWithoutLock returns.   *)
(*                                                                         *)
(* The states are numbered as the Go constants are (iota), because the     *)
(* code compares them with <, > and >=.                                    *)
(***************************************************************************)
EXTENDS Naturals

TSInitialized == 0
TSStarting    == 1
TSRunning     == 2
TSPaused      == 3
TSStopping    == 4
TSStopped     == 5

TopologyStates == TSInitialized..TSStopped

\* setWithoutLock: a state never goes back, except from paused to running.
MaySet(h, s) ==
    \/ h <= s
    \/ h = TSPaused /\ s = TSRunning

\* Mutant: the comparison dropped.
SetUnchecked(h, s) == s

\* What setWithoutLock leaves in the holder: s, or the old state when the
\* assignment is refused with an error.
SetWithoutLock(h, s) ==
    IF MaySet(h, s) THEN s ELSE h

\* Mutant: the wait ends one state too early.
WaitDoneEarly(h, s) == h + 1 >= s

\* waitWithoutLock(s) returns in state h. A paused component does not
\* satisfy a wait for TSRunning.
WaitDone(h, s) ==
    /\ h >= s
    /\ ~(h = TSPaused /\ s = TSRunning)
=============================================================================
