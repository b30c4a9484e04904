---------------------------- MODULE StateHolder ----------------------------
(***************************************************************************)
(* topologyStateHolder (core/topology_state.go) shared by goroutines that  *)
(* run, stop, pause, resume and wait for one component: a node, its input  *)
(* side (dataSources) or a topology.                                       *)
(*                                                                         *)
(* Every method runs under the mutex of the holder's condition variable,   *)
(* so what it does between two waits is one step.  A wait gives the mutex  *)
(* up: it is a program point (pc) of its own, left when WaitDone holds.    *)
(*                                                                         *)
(* The argument keepInitialized of checkAndPrepareForStopping is left out: *)
(* all of its callers pass false.                                          *)
(***************************************************************************)
EXTENDS TopologyState

CONSTANT Client      \* the goroutines that use the holder

VARIABLES
    state,           \* topologyStateHolder.state
    pc,              \* where each goroutine is
    target,          \* the state a goroutine inside Wait asked for
    returned         \* the state its last completed Wait returned

vars == <<state, pc, target, returned>>

PC == { "idle",      \* outside of every method
        "runWait",   \* checkAndPrepareForRunning: another one is starting
        "runEnd",    \* checkAndPrepareForRunning: another one is stopping
        "starting",  \* granted: the component boots, then sets TSRunning
        "running",   \* granted: the component runs, then sets TSStopped
        "stopWait",  \* checkAndPrepareForStopping: waits for TSRunning
        "stopper",   \* granted alreadyStopped = false: stops the component
        "stopEnd",   \* waits for TSStopped
        "waiting",   \* Wait
        "done" }     \* its call returned

Goto(c, from, to) ==
    /\ pc[c] = from
    /\ pc' = [pc EXCEPT ![c] = to]

Init ==
    /\ state = TSInitialized
    /\ pc = [c \in Client |-> "idle"]
    /\ target = [c \in Client |-> TSInitialized]
    /\ returned = [c \in Client |-> TSInitialized]

-----------------------------------------------------------------------------
(* checkAndPrepareForRunning: only the caller that finds TSInitialized may  *)
(* run the component; the others get an error, some of them after a wait.   *)

RunGranted(c) ==
    /\ state = TSInitialized
    /\ Goto(c, "idle", "starting")
    /\ state' = SetWithoutLock(state, TSStarting)
    /\ UNCHANGED <<target, returned>>

RunRefused(c) ==
    /\ \/ state = TSStarting /\ Goto(c, "idle", "runWait")
       \/ state = TSStopping /\ Goto(c, "idle", "runEnd")
       \/ state \in {TSRunning, TSPaused, TSStopped} /\ Goto(c, "idle", "done")
    /\ UNCHANGED <<state, target, returned>>

RunWaitReturns(c) ==
    /\ \/ WaitDone(state, TSRunning) /\ Goto(c, "runWait", "done")
       \/ WaitDone(state, TSStopped) /\ Goto(c, "runEnd", "done")
    /\ UNCHANGED <<state, target, returned>>

\* The goroutine that was granted: Set(TSRunning), or Set(TSPaused) for a source
\* that is paused on startup, and Set(TSStopped) when the component ends, by
\* itself or because it was told to stop.
SetRunning(c) ==
    /\ Goto(c, "starting", "running")
    /\ \E s \in {TSRunning, TSPaused} : state' = SetWithoutLock(state, s)
    /\ UNCHANGED <<target, returned>>

\* Mutant: the goroutine ends without Set(TSStopped).
SetStoppedForgotten(c) ==
    /\ Goto(c, "running", "done")
    /\ UNCHANGED <<state, target, returned>>

SetStopped(c) ==
    /\ Goto(c, "running", "done")
    /\ state' = SetWithoutLock(state, TSStopped)
    /\ UNCHANGED <<target, returned>>

-----------------------------------------------------------------------------
(* checkAndPrepareForStopping, from its entry and from its wait for         *)
(* TSRunning, after which the loop looks at the state again.                *)

\* Mutant: a running component is handed to the caller without TSStopping.
StopDecisionNoMark(c, from) ==
    \/ /\ state \in {TSRunning, TSPaused}
       /\ Goto(c, from, "stopper")
       /\ UNCHANGED state
    \/ /\ state = TSStarting
       /\ Goto(c, from, "stopWait")
       /\ UNCHANGED state

StopDecision(c, from) ==
    \/ /\ state = TSInitialized
       /\ Goto(c, from, "done")
       /\ state' = SetWithoutLock(state, TSStopped)
    \/ /\ state = TSStarting
       /\ Goto(c, from, "stopWait")
       /\ UNCHANGED state
    \/ /\ state \in {TSRunning, TSPaused}
       /\ Goto(c, from, "stopper")
       /\ state' = SetWithoutLock(state, TSStopping)
    \/ /\ state = TSStopping
       /\ Goto(c, from, "stopEnd")
       /\ UNCHANGED state
    \/ /\ state = TSStopped
       /\ Goto(c, from, "done")
       /\ UNCHANGED state

CheckAndPrepareForStopping(c) ==
    /\ StopDecision(c, "idle")
    /\ UNCHANGED <<target, returned>>

StopWaitReturns(c) ==
    /\ WaitDone(state, TSRunning)
    /\ StopDecision(c, "stopWait")
    /\ UNCHANGED <<target, returned>>

\* The caller that got alreadyStopped = false tells the component to stop
\* and waits for it.  defaultBoxNode.stop first sets TSStopping once more, by
\* which time the component may have stopped by itself.
StopComponent(c) ==
    /\ Goto(c, "stopper", "stopEnd")
    /\ state' \in {state, SetWithoutLock(state, TSStopping)}
    /\ UNCHANGED <<target, returned>>

StopReturns(c) ==
    /\ WaitDone(state, TSStopped)
    /\ Goto(c, "stopEnd", "done")
    /\ UNCHANGED <<state, target, returned>>

-----------------------------------------------------------------------------
(* Pause and Resume of a source node, and Wait.                             *)

Pause(c) ==
    /\ state = TSRunning
    /\ pc[c] = "idle"
    /\ state' = SetWithoutLock(state, TSPaused)
    /\ UNCHANGED <<pc, target, returned>>

Resume(c) ==
    /\ state = TSPaused
    /\ pc[c] = "idle"
    /\ state' = SetWithoutLock(state, TSRunning)
    /\ UNCHANGED <<pc, target, returned>>

Wait(c) ==
    /\ Goto(c, "idle", "waiting")
    /\ \E s \in TopologyStates : target' = [target EXCEPT ![c] = s]
    /\ UNCHANGED <<state, returned>>

WaitReturns(c) ==
    /\ WaitDone(state, target[c])
    /\ Goto(c, "waiting", "done")
    /\ returned' = [returned EXCEPT ![c] = state]
    /\ UNCHANGED <<state, target>>

-----------------------------------------------------------------------------
Runner(c) ==
    RunGranted(c) \/ RunRefused(c) \/ RunWaitReturns(c) \/ SetRunning(c) \/ SetStopped(c)

Stopper(c) ==
    \/ CheckAndPrepareForStopping(c) \/ StopWaitReturns(c)
    \/ StopComponent(c) \/ StopReturns(c)

Next ==
    \E c \in Client :
        Runner(c) \/ Stopper(c) \/ Pause(c) \/ Resume(c) \/ Wait(c) \/ WaitReturns(c)

\* The goroutine that boots the component reaches Set(TSRunning), a component
\* that was told to stop ends, and a goroutine whose wait is over proceeds.
Fairness ==
    \A c \in Client :
        /\ WF_vars(SetRunning(c))
        /\ WF_vars(state = TSStopping /\ SetStopped(c))
        /\ WF_vars(StopComponent(c))
        /\ WF_vars(StopWaitReturns(c))
        /\ WF_vars(StopReturns(c))
        /\ WF_vars(RunWaitReturns(c))

Spec == Init /\ [][Next]_vars

FairSpec == Spec /\ Fairness

-----------------------------------------------------------------------------
TypeOK ==
    /\ state \in TopologyStates
    /\ pc \in [Client -> PC]
    /\ target \in [Client -> TopologyStates]
    /\ returned \in [Client -> TopologyStates]

Granted(c) == pc[c] \in {"starting", "running"}

\* checkAndPrepareForRunning lets one caller run the component ("only a single
\* caller will succeed"), and the state never says that the component boots,
\* runs or stops while nobody is left who will move it on to TSStopped.
RunnerOwnsState ==
    /\ \A c, d \in Client : Granted(c) /\ Granted(d) => c = d
    /\ state = TSStarting <=> \E c \in Client : pc[c] = "starting"
    /\ state \in TSRunning..TSStopping <=> \E c \in Client : pc[c] = "running"

\* checkAndPrepareForStopping tells one caller only to stop the component
\* (alreadyStopped = false), and nobody restarts or resumes it behind its back.
SoleStopper ==
    \A c \in Client : pc[c] = "stopper" =>
        /\ state >= TSStopping
        /\ \A d \in Client : pc[d] = "stopper" => d = c

\* One goroutine runs a component and at most one is told to stop it, whoever else
\* tries to: the two checks decide and mark the state under one lock.
OneRunnerOneStopper == RunnerOwnsState /\ SoleStopper

\* The promise of TopologyStateHolder.Wait: what it returned is a successor of
\* the state that was asked for, and stays behind the holder's state whatever
\* the other goroutines do afterwards.
WaitedStateReached ==
    \A c \in Client : pc[c] # "waiting" =>
        /\ MaySet(target[c], returned[c])
        /\ MaySet(returned[c], state)

\* The holder's state only moves forward, except for a resume, whichever
\* methods the goroutines interleave.
StateMovesForward ==
    [][MaySet(state, state') /\ state # TSStopped]_state

\* Whoever stops the component, or waits for somebody else to stop it, returns.
StopTerminates ==
    \A c \in Client : pc[c] \in {"stopper", "stopEnd"} ~> pc[c] = "done"
=============================================================================
