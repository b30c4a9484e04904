----------------------------- MODULE SourceNode -----------------------------
(***************************************************************************)
(* A source node (core/default_source_node.go) around a source made with     *)
(* NewRewindableSource or ImplementSourceStop (core/source.go).              *)
(*                                                                         *)
(* Callers: run of the node, which ends in the source's GenerateStream;   *)
(* the generating goroutine that GenerateStream starts; and the callers of   *)
(* Pause, Resume, Rewind and Stop.  The node's stateMutex stays locked while *)
(* Rewind and Stop wait for the source, so its owner is a variable; what     *)
(* happens under the source's rwm is one step.                              *)
(*                                                                         *)
(* The wrapped source (external) writes the tuples 1..Tuples in order, gives *)
(* up when the writer returns an error, and may fail.                       *)
(***************************************************************************)
EXTENDS TopologyState, FiniteSets

CONSTANTS
    Callers,        \* goroutines that call methods of the node, once each
    Tuples          \* the number of tuples of the wrapped source

ASSUME SourceAssumption == Tuples \in Nat

VARIABLES
    conf,       \* rewindEnabled, pausedOnStartup; the source may fail to run, to stop
    node,       \* the node's state
    mu,         \* the owner of the node's stateMutex
    run,        \* where run of the node is
    closed,     \* the node's destinations are closed
    rs,         \* the state of the rewindable source
    rewind,     \* rewindableSource.rewind
    waiting,    \* rewindableSource.waitingForRewind
    force,      \* something is in the channel forceStop
    gen,        \* where the generating goroutine is
    pos,        \* the tuples that this call of the source's GenerateStream has written
    gens,       \* history: the number of calls of the source's GenerateStream
    call,       \* caller -> where its call is
    op,         \* caller -> the method it has called
    asked,      \* history: caller -> gens when it called Rewind
    late        \* history: the tuples written since the node is paused or stopped

nodeVars == <<node, mu, run, closed>>
srcVars == <<rs, rewind, waiting, force>>
genVars == <<gen, pos, gens>>
callVars == <<call, op, asked>>
vars == <<conf, nodeVars, srcVars, genVars, callVars, late>>

Init ==
    /\ conf \in [rewindEnabled : BOOLEAN, paused : BOOLEAN, mayFail : BOOLEAN, stopFails : BOOLEAN]
    /\ node = TSStarting /\ mu = "free" /\ run = "boot"
    /\ closed = FALSE
    /\ rs = TSInitialized /\ rewind = FALSE /\ waiting = FALSE /\ force = FALSE
    /\ gen = "none" /\ pos = 0 /\ gens = 0
    /\ call = [c \in Callers |-> "idle"]
    /\ op = [c \in Callers |-> "none"]
    /\ asked = [c \in Callers |-> 0]
    /\ late = 0

-----------------------------------------------------------------------------
(* run                                                                      *)

Boot ==
    /\ run = "boot" /\ mu = "free"
    /\ node' = IF conf.paused THEN TSPaused ELSE TSRunning
    /\ rs' = IF conf.paused THEN SetWithoutLock(rs, TSPaused) ELSE rs
    /\ run' = "generate"
    /\ UNCHANGED <<conf, mu, closed, rewind, waiting, force, genVars, callVars, late>>

\* GenerateStream starts the generating goroutine and waits for it or for forceStop.
StartGenerating ==
    /\ run = "generate" /\ gen = "none"
    /\ gen' = "source" /\ gens' = 1
    /\ UNCHANGED <<conf, nodeVars, srcVars, pos, callVars, late>>

GenerateReturns ==
    /\ run = "generate"
    /\ gen = "ended" \/ (gen # "none" /\ force)
    /\ run' = "close"
    /\ rs' = SetWithoutLock(rs, TSStopped)
    /\ force' = FALSE
    /\ UNCHANGED <<conf, node, mu, closed, rewind, waiting, genVars, callVars, late>>

CloseDestinations ==
    /\ run = "close"
    /\ run' = "closed"
    /\ closed' = TRUE
    /\ UNCHANGED <<conf, node, mu, srcVars, genVars, callVars, late>>

RunReturns ==
    /\ run = "closed" /\ mu = "free"
    /\ run' = "returned"
    /\ node' = SetWithoutLock(node, TSStopped)
    /\ UNCHANGED <<conf, mu, closed, srcVars, genVars, callVars, late>>

-----------------------------------------------------------------------------
(* The generating goroutine                                                 *)

\* The wrapped source calls the writer for its next tuple.
Generate ==
    /\ gen = "source" /\ pos < Tuples
    /\ gen' = "check"
    /\ UNCHANGED <<conf, nodeVars, srcVars, pos, gens, callVars, late>>

\* What the goroutine does when the wrapped source returned anything but nil and
\* ErrSourceRewound.
GeneratorEnds ==
    /\ rewind' = FALSE
    /\ gen' = "ended"
    /\ UNCHANGED <<conf, nodeVars, rs, waiting, force, pos, gens, callVars, late>>

\* Mutants: a paused writer does not look at the flag rewind; the writer does not wait.
MCheckPausedFirst ==
    /\ gen = "check"
    /\ \/ /\ rewind /\ rs # TSPaused
          /\ gen' = "wait"
          /\ UNCHANGED <<conf, nodeVars, srcVars, pos, gens, callVars, late>>
       \/ ~rewind /\ rs >= TSStopping /\ GeneratorEnds
       \/ /\ ~rewind /\ rs < TSPaused
          /\ gen' = "write"
          /\ UNCHANGED <<conf, nodeVars, srcVars, pos, gens, callVars, late>>

MCheckPauseForgotten ==
    /\ gen = "check"
    /\ \/ /\ rewind
          /\ gen' = "wait"
          /\ UNCHANGED <<conf, nodeVars, srcVars, pos, gens, callVars, late>>
       \/ ~rewind /\ rs >= TSStopping /\ GeneratorEnds
       \/ /\ ~rewind /\ rs < TSStopping
          /\ gen' = "write"
          /\ UNCHANGED <<conf, nodeVars, srcVars, pos, gens, callVars, late>>

\* rewindWriter: while the source is paused and not rewound, the writer waits.
CheckRewindAndState ==
    /\ gen = "check"
    /\ \/ /\ rewind                           \* ErrSourceRewound
          /\ gen' = "wait"
          /\ UNCHANGED <<conf, nodeVars, srcVars, pos, gens, callVars, late>>
       \/ ~rewind /\ rs >= TSStopping /\ GeneratorEnds      \* ErrSourceStopped
       \/ /\ ~rewind /\ rs < TSPaused
          /\ gen' = "write"
          /\ UNCHANGED <<conf, nodeVars, srcVars, pos, gens, callVars, late>>

\* History: some call of Stop has returned.
HasStopped == \E c \in Callers : op[c] = "Stop" /\ call[c] = "returned"

\* w.Write, outside of the lock; closed destinations take nothing.
WriteTuple ==
    /\ gen = "write"
    /\ gen' = "source"
    /\ pos' = pos + 1
    /\ late' = IF ~closed /\ (node = TSPaused \/ HasStopped) THEN late + 1 ELSE late
    /\ UNCHANGED <<conf, nodeVars, srcVars, gens, callVars>>

SourceReturns ==
    /\ gen = "source" /\ pos = Tuples
    /\ gen' = "wait"
    /\ UNCHANGED <<conf, nodeVars, srcVars, pos, gens, callVars, late>>

SourceFails == conf.mayFail /\ gen = "source" /\ GeneratorEnds

\* "wait for rewind or stop", from the first look at the flags and after a wake-up.
WaitForRewind ==
    /\ gen = "wait"
    /\ UNCHANGED <<conf, nodeVars, rs, force, callVars, late>>
    /\ \/ /\ ~conf.rewindEnabled
          /\ gen' = "ended"
          /\ UNCHANGED <<rewind, waiting, pos, gens>>
       \/ /\ conf.rewindEnabled /\ rs >= TSStopping
          /\ gen' = "ended"
          /\ rewind' = FALSE /\ waiting' = FALSE
          /\ UNCHANGED <<pos, gens>>
       \/ /\ conf.rewindEnabled /\ rs < TSStopping /\ rewind
          /\ gen' = "source" /\ pos' = 0 /\ gens' = gens + 1
          /\ rewind' = FALSE /\ waiting' = FALSE
       \/ /\ conf.rewindEnabled /\ rs < TSStopping /\ ~rewind /\ ~waiting
          /\ waiting' = TRUE
          /\ UNCHANGED <<gen, rewind, pos, gens>>

-----------------------------------------------------------------------------
(* Pause, Resume and Rewind of the node.  The node is handed out when it runs. *)

Begin(c, name) ==
    /\ call[c] = "idle" /\ node >= TSRunning
    /\ op' = [op EXCEPT ![c] = name]

Go(c, to) == call' = [call EXCEPT ![c] = to]

\* The method of the source sets the source's state or fails; then the node's is set.
SetBoth(s) ==
    IF MaySet(rs, s)
    THEN rs' = s /\ node' = SetWithoutLock(node, s)
    ELSE UNCHANGED <<rs, node>>

Pause(c) ==
    /\ Begin(c, "Pause") /\ Go(c, "returned") /\ mu = "free"
    /\ IF node = TSRunning THEN SetBoth(TSPaused) ELSE UNCHANGED <<rs, node>>
    /\ late' = IF node = TSRunning /\ node' = TSPaused THEN 0 ELSE late
    /\ UNCHANGED <<conf, mu, run, closed, rewind, waiting, force, genVars, asked>>

Resume(c) ==
    /\ Begin(c, "Resume") /\ Go(c, "returned") /\ mu = "free"
    /\ IF node = TSPaused THEN SetBoth(TSRunning) ELSE UNCHANGED <<rs, node>>
    /\ UNCHANGED <<conf, mu, run, closed, rewind, waiting, force, genVars, asked, late>>

\* Mutant: the source's Rewind does not wait for the generating goroutine.
MRewindWithoutWait(c) ==
    /\ Begin(c, "Rewind") /\ mu = "free"
    /\ Go(c, "returned")
    /\ rewind' = (conf.rewindEnabled /\ node < TSStopping)
    /\ asked' = [asked EXCEPT ![c] = gens]
    /\ UNCHANGED <<conf, mu, node, run, closed, rs, waiting, force, genVars, late>>

\* A source from ImplementSourceStop is not a RewindableSource.
Rewind(c) ==
    /\ Begin(c, "Rewind") /\ mu = "free"
    /\ IF conf.rewindEnabled /\ node < TSStopping
       THEN Go(c, "rewinding") /\ mu' = c /\ rewind' = TRUE
       ELSE Go(c, "refused") /\ UNCHANGED <<mu, rewind>>
    /\ asked' = [asked EXCEPT ![c] = gens]
    /\ UNCHANGED <<conf, node, run, closed, rs, waiting, force, genVars, late>>

RewindReturns(c) ==
    /\ call[c] = "rewinding" /\ ~rewind
    /\ Go(c, "returned") /\ mu' = "free"
    /\ UNCHANGED <<conf, node, run, closed, srcVars, genVars, op, asked, late>>

-----------------------------------------------------------------------------
(* Stop of the node, and in it Stop of the source with stateMutex locked.     *)

CallStop(c) ==
    /\ Begin(c, "Stop") /\ Go(c, "stop")
    /\ UNCHANGED <<conf, nodeVars, srcVars, genVars, asked, late>>

Stop(c) ==
    /\ call[c] = "stop" /\ mu = "free"
    /\ \/ /\ node \in {TSRunning, TSPaused}
          /\ node' = TSStopping /\ mu' = c /\ Go(c, "stopSource")
       \/ node = TSStopping /\ Go(c, "stopEnd") /\ UNCHANGED <<node, mu>>
       \/ node = TSStopped /\ Go(c, "returned") /\ UNCHANGED <<node, mu>>
    /\ late' = 0
    /\ UNCHANGED <<conf, run, closed, srcVars, genVars, op, asked>>

\* rewindableSource.Stop.  Between its two looks at the state GenerateStream may return.
StopSource(c) ==
    /\ call[c] = "stopSource"
    /\ Go(c, IF rs >= TSStopping THEN "stopWait" ELSE "setStopping")
    /\ UNCHANGED <<conf, nodeVars, srcVars, genVars, op, asked, late>>

SetStopping(c) ==
    /\ call[c] = "setStopping"
    /\ rs' = SetWithoutLock(rs, TSStopping)
    /\ Go(c, "callStop")
    /\ UNCHANGED <<conf, nodeVars, rewind, waiting, force, genVars, op, asked, late>>

\* The wrapped source's Stop may fail.  GenerateStream is then made to return.
CallSourceStop(c) ==
    /\ call[c] = "callStop"
    /\ Go(c, IF conf.stopFails THEN "failWait" ELSE "stopWait")
    /\ force' = conf.stopFails
    /\ UNCHANGED <<conf, nodeVars, rs, rewind, waiting, genVars, op, asked, late>>

\* The source has stopped: wait for the node, or close the destinations and return
\* the error.
SourceStopped(c) ==
    /\ call[c] \in {"stopWait", "failWait"} /\ WaitDone(rs, TSStopped)
    /\ mu' = "free"
    /\ \/ call[c] = "failWait" /\ Go(c, "returned") /\ closed' = TRUE
       \/ call[c] = "stopWait" /\ Go(c, "stopEnd") /\ UNCHANGED closed
    /\ UNCHANGED <<conf, node, run, srcVars, genVars, op, asked, late>>

StopReturns(c) ==
    /\ call[c] = "stopEnd" /\ mu = "free" /\ WaitDone(node, TSStopped)
    /\ Go(c, "returned")
    /\ UNCHANGED <<conf, nodeVars, srcVars, genVars, op, asked, late>>

-----------------------------------------------------------------------------
Runner == Boot \/ StartGenerating \/ GenerateReturns \/ CloseDestinations \/ RunReturns
Generator == Generate \/ CheckRewindAndState \/ WriteTuple \/ SourceReturns \/ WaitForRewind
GoOn(c) ==
    \/ RewindReturns(c)
    \/ Stop(c) \/ StopSource(c) \/ SetStopping(c) \/ CallSourceStop(c)
    \/ SourceStopped(c) \/ StopReturns(c)
Call(c) == Pause(c) \/ Resume(c) \/ Rewind(c) \/ CallStop(c)

Next ==
    \/ Runner \/ Generator \/ SourceFails
    \/ \E c \in Callers : Call(c) \/ GoOn(c)

\* Callers that can go on do so.  A wrapped source generates, returns and obeys
\* the writer (the requirements of NewRewindableSource); nobody has to call a method
\* and no source has to fail.
Fairness ==
    /\ WF_vars(Runner)
    /\ WF_vars(Generator)
    /\ \A c \in Callers : WF_vars(GoOn(c))

Spec == Init /\ [][Next]_vars /\ Fairness

-----------------------------------------------------------------------------
(* Properties                                                               *)

\* The variables have the types of their declarations, and stateMutex is locked
\* exactly while one call of Rewind or Stop waits for the source.
TypeOK ==
    /\ {node, rs} \subseteq TopologyStates
    /\ run \in {"boot", "generate", "close", "closed", "returned"}
    /\ gen \in {"none", "source", "check", "write", "wait", "ended"}
    /\ pos \in 0..Tuples /\ gens \in 0..(1 + Cardinality(Callers))
    /\ mu = "free" \/ call[mu] \in {"rewinding", "stopSource", "setStopping", "callStop",
                                   "stopWait", "failWait"}

\* "Rewind": when the node's Rewind returns without an error, the wrapped source's
\* GenerateStream has been called again since, so that the stream starts over,
\* unless the generating goroutine has ended (source.go, Rewind).
RewindStartsOver ==
    \A c \in Callers :
        (op[c] = "Rewind" /\ call[c] = "returned" /\ gen # "ended") => gens > asked[c]

\* A paused node is quiet: after Pause has returned at most the tuple that had passed
\* the writer's check arrives, even when the source is rewound meanwhile ("the Source
\* must not be resumed until Resume is explicitly called").
PausedIsQuiet == node = TSPaused => late <= 1

\* Once a call of Stop has returned, with or without an error, no tuple leaves the node:
\* a source that is stopped by force may still generate, but into closed destinations.
StoppedIsQuiet == HasStopped => late = 0

\* The source's and the node's states agree: a paused node has a paused source or
\* one that has ended, and a node stops only after its source has.
StatesAgree ==
    /\ node = TSPaused => rs >= TSPaused
    /\ node = TSRunning => rs \in {TSInitialized, TSRunning, TSStopped}
    /\ node = TSStopped => rs = TSStopped

\* A source does what its node was told: it is quiet when paused or stopped, and the two
\* states, which two locks protect, agree.
SourceFollowsNode == TypeOK /\ PausedIsQuiet /\ StoppedIsQuiet /\ StatesAgree

\* Rewind waits for a goroutine that has ended: the source failed, and Rewind came
\* before the node was marked as stopped.  Nothing resets the flag rewind any more.
RewindAfterEnd == \E c \in Callers : call[c] = "rewinding" /\ rewind /\ gen = "ended"

\* Every call returns, Stop and Rewind of a paused source included, except after
\* RewindAfterEnd, which blocks them all: Rewind keeps stateMutex locked.
CallsReturn ==
    \A c \in Callers :
        call[c] \notin {"idle", "returned", "refused"}
            ~> (call[c] = "returned" \/ RewindAfterEnd)

\* The generating goroutine of a source that is stopped ends, also when the source
\* was paused or waiting for a Rewind.
GeneratorIsStopped == HasStopped ~> gen = "ended"

\* Nobody hangs on a source: the calls return and the generating goroutine ends.
NobodyHangs == CallsReturn /\ GeneratorIsStopped
=============================================================================
