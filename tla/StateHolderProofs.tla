------------------------- MODULE StateHolderProofs -------------------------
(***************************************************************************)
(* What topologyStateHolder guarantees for any number of goroutines.       *)
(*                                                                         *)
(* RunnerOwnsState /\ SoleStopper is inductive together with TypeOK: it     *)
(* ties the state to the program points of the one goroutine that was      *)
(* granted to run and of the one that was told to stop.  The promise of    *)
(* Wait needs in addition that every step moves the state along MaySet,    *)
(* which is transitive on the states a component goes through.             *)
(***************************************************************************)
EXTENDS StateHolder, TLAPS

USE DEF TSInitialized, TSStarting, TSRunning, TSPaused, TSStopping, TSStopped,
        TopologyStates

\* Every method of the holder keeps the variables within their types.
THEOREM TypeCorrect == Spec => []TypeOK
<1>1. Init => TypeOK
  BY DEF Init, TypeOK, PC
<1>2. TypeOK /\ [Next]_vars => TypeOK'
  <2> SUFFICES ASSUME TypeOK, [Next]_vars PROVE TypeOK'
    OBVIOUS
  <2> USE DEF TypeOK, PC, Goto, SetWithoutLock, MaySet
  <2>1. CASE UNCHANGED vars
    BY <2>1 DEF vars
  <2>2. ASSUME NEW c \in Client, Runner(c) PROVE TypeOK'
    BY <2>2 DEF Runner, RunGranted, RunRefused, RunWaitReturns, SetRunning, SetStopped
  <2>3. ASSUME NEW c \in Client, Stopper(c) PROVE TypeOK'
    BY <2>3 DEF Stopper, CheckAndPrepareForStopping, StopWaitReturns, StopDecision,
                StopComponent, StopReturns
  <2>4. ASSUME NEW c \in Client, Pause(c) \/ Resume(c) PROVE TypeOK'
    BY <2>4 DEF Pause, Resume
  <2>5. ASSUME NEW c \in Client, Wait(c) \/ WaitReturns(c) PROVE TypeOK'
    BY <2>5 DEF Wait, WaitReturns
  <2>6. QED
    BY <2>1, <2>2, <2>3, <2>4, <2>5 DEF Next
<1>3. QED
  BY <1>1, <1>2, PTL DEF Spec

ForwardStep ==
    /\ state' \in TopologyStates
    /\ state' = state \/ (MaySet(state, state') /\ state # TSStopped)

\* Whatever the goroutines interleave, a step moves the state forward or
\* resumes a paused component, and a stopped one stays stopped.
LEMMA StepForward ==
    ASSUME TypeOK, RunnerOwnsState, [Next]_vars
    PROVE  ForwardStep
<1> USE DEF TypeOK, Goto, SetWithoutLock, MaySet, ForwardStep
<1>1. CASE UNCHANGED vars
  BY <1>1 DEF vars
<1>2. ASSUME NEW c \in Client, Runner(c)
      PROVE  ForwardStep
  BY <1>2 DEF Runner, RunGranted, RunRefused, RunWaitReturns, SetRunning, SetStopped,
              RunnerOwnsState
<1>3. ASSUME NEW c \in Client, Stopper(c)
      PROVE  ForwardStep
  BY <1>3 DEF Stopper, CheckAndPrepareForStopping, StopWaitReturns, StopDecision,
              StopComponent, StopReturns
<1>4. ASSUME NEW c \in Client, Pause(c) \/ Resume(c) \/ Wait(c) \/ WaitReturns(c)
      PROVE  ForwardStep
  BY <1>4 DEF Pause, Resume, Wait, WaitReturns
<1>5. QED
  BY <1>1, <1>2, <1>3, <1>4 DEF Next

\* A step keeps RunnerOwnsState when the goroutine told to stop the component
\* finds it stopping or stopped: it sets TSStopping a second time.
LEMMA RunnerStep ==
    ASSUME TypeOK, RunnerOwnsState, SoleStopper, [Next]_vars
    PROVE  RunnerOwnsState'
<1> USE DEF TypeOK, PC, RunnerOwnsState, Granted, Goto, SetWithoutLock, MaySet
<1>1. CASE UNCHANGED vars
  BY <1>1 DEF vars
<1>2. ASSUME NEW c \in Client, Runner(c) PROVE RunnerOwnsState'
  <2>1. CASE RunGranted(c)
    BY <2>1 DEF RunGranted
  <2>2. CASE RunRefused(c) \/ RunWaitReturns(c)
    BY <2>2 DEF RunRefused, RunWaitReturns
  <2>3. CASE SetRunning(c)
    BY <2>3 DEF SetRunning
  <2>4. CASE SetStopped(c)
    BY <2>4 DEF SetStopped
  <2>5. QED
    BY <1>2, <2>1, <2>2, <2>3, <2>4 DEF Runner
<1>3. ASSUME NEW c \in Client, NEW from \in {"idle", "stopWait"}, StopDecision(c, from)
      PROVE  RunnerOwnsState'
  BY <1>3 DEF StopDecision
<1>4. ASSUME NEW c \in Client, StopComponent(c) PROVE RunnerOwnsState'
  BY <1>4 DEF StopComponent, SoleStopper
<1>5. ASSUME NEW c \in Client, Stopper(c) PROVE RunnerOwnsState'
  BY <1>3, <1>4, <1>5 DEF Stopper, CheckAndPrepareForStopping, StopWaitReturns, StopReturns
<1>6. ASSUME NEW c \in Client, Pause(c) \/ Resume(c) PROVE RunnerOwnsState'
  BY <1>6 DEF Pause, Resume
<1>7. ASSUME NEW c \in Client, Wait(c) \/ WaitReturns(c) PROVE RunnerOwnsState'
  BY <1>7 DEF Wait, WaitReturns
<1>8. QED
  BY <1>1, <1>2, <1>5, <1>6, <1>7 DEF Next

\* A step keeps SoleStopper: once a goroutine is told to stop the component, the
\* state is past the point where another one would be told so.
LEMMA StopperStep ==
    ASSUME TypeOK, RunnerOwnsState, SoleStopper, [Next]_vars
    PROVE  SoleStopper'
<1> USE DEF TypeOK, SoleStopper, Goto, SetWithoutLock, MaySet
<1>1. CASE UNCHANGED vars
  BY <1>1 DEF vars
<1>2. ASSUME NEW c \in Client, Runner(c) PROVE SoleStopper'
  BY <1>2 DEF Runner, RunGranted, RunRefused, RunWaitReturns, SetRunning, SetStopped,
              RunnerOwnsState
<1>3. ASSUME NEW c \in Client, NEW from \in {"idle", "stopWait"}, StopDecision(c, from)
      PROVE  SoleStopper'
  BY <1>3 DEF StopDecision
<1>4. ASSUME NEW c \in Client, Stopper(c) PROVE SoleStopper'
  BY <1>3, <1>4 DEF Stopper, CheckAndPrepareForStopping, StopWaitReturns,
                    StopComponent, StopReturns
<1>5. ASSUME NEW c \in Client, Pause(c) \/ Resume(c) \/ Wait(c) \/ WaitReturns(c)
      PROVE  SoleStopper'
  BY <1>5 DEF Pause, Resume, Wait, WaitReturns
<1>6. QED
  BY <1>1, <1>2, <1>4, <1>5 DEF Next

\* One goroutine owns a component that boots, runs or stops (RunnerOwnsState),
\* and at most one is told to stop it (SoleStopper), for any number of goroutines
\* that try to run, stop, pause or wait for it.  Neither is inductive alone.
THEOREM Ownership == Spec => []OneRunnerOneStopper
<1>1. Init => RunnerOwnsState /\ SoleStopper
  BY DEF Init, RunnerOwnsState, Granted, SoleStopper
<1>2. TypeOK /\ RunnerOwnsState /\ SoleStopper /\ [Next]_vars
        => (RunnerOwnsState /\ SoleStopper)'
  BY RunnerStep, StopperStep
<1>3. QED
  BY <1>1, <1>2, TypeCorrect, PTL DEF Spec, OneRunnerOneStopper

\* The state of a component never goes back, except for a resume, and never
\* leaves TSStopped.
THEOREM ForwardOnly == Spec => StateMovesForward
<1>1. TypeOK /\ RunnerOwnsState /\ [Next]_vars
        => [MaySet(state, state') /\ state # TSStopped]_state
  BY StepForward DEF ForwardStep
<1>2. QED
  BY <1>1, TypeCorrect, Ownership, PTL DEF Spec, OneRunnerOneStopper, StateMovesForward

\* What Wait returned is a successor of the state asked for, and the state of
\* the holder stays one of its successors.
THEOREM WaitKeepsPromise == Spec => []WaitedStateReached
<1>1. Init => WaitedStateReached
  BY DEF Init, WaitedStateReached, WaitDone, MaySet
<1>2. TypeOK /\ RunnerOwnsState /\ WaitedStateReached /\ [Next]_vars => WaitedStateReached'
  <2> SUFFICES ASSUME TypeOK, RunnerOwnsState, WaitedStateReached, [Next]_vars,
                      NEW d \in Client, pc'[d] # "waiting"
               PROVE  MaySet(target'[d], returned'[d]) /\ MaySet(returned'[d], state')
    BY DEF WaitedStateReached
  <2>1. ForwardStep
    BY StepForward
  <2>2. \/ \E c \in Client : WaitReturns(c)
        \/ returned' = returned /\ target'[d] = target[d] /\ pc[d] # "waiting"
    BY DEF Next, vars, Goto, TypeOK, PC, Runner, RunGranted, RunRefused, RunWaitReturns,
           SetRunning, SetStopped, Stopper, CheckAndPrepareForStopping, StopWaitReturns,
           StopDecision, StopComponent, StopReturns, Pause, Resume, Wait
  <2>3. ASSUME NEW c \in Client, WaitReturns(c)
        PROVE  MaySet(target'[d], returned'[d]) /\ MaySet(returned'[d], state')
    BY <2>3 DEF WaitReturns, WaitDone, Goto, TypeOK, WaitedStateReached, MaySet
  <2>4. CASE returned' = returned /\ target'[d] = target[d] /\ pc[d] # "waiting"
    BY <2>1, <2>4 DEF WaitedStateReached, MaySet, TypeOK, ForwardStep
  <2>5. QED
    BY <2>2, <2>3, <2>4
<1>3. QED
  BY <1>1, <1>2, TypeCorrect, Ownership, PTL DEF Spec, OneRunnerOneStopper
=============================================================================
