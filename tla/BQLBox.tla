------------------------------- MODULE BQLBox -------------------------------
(***************************************************************************)
(* The box of a CREATE STREAM ... AS SELECT statement (bql/bql_box.go): its    *)
(* LIMIT, its sampling and the end it puts to itself.                        *)
(*                                                                         *)
(* Goroutines: the thread that pours tuples into Process; the time-based      *)
(* emitter, which writes with timeEmitterMutex locked; the goroutine that     *)
(* removeMe starts; and the receiver of the output.  The node calls Terminate *)
(* and closes the output when no Process runs any more.                      *)
(*                                                                         *)
(* The execution plan (see StreamRelationPlan) returns some number of results *)
(* or an error.  Results are numbered in the order they are visited.  The     *)
(* writer is dataDestinations, whose Write returns no error.                 *)
(***************************************************************************)
EXTENDS Integers, Sequences

CONSTANTS
    Options,        \* limit (-1: none), sampling, and the n of EVERY n-TH TUPLE
    MaxTuples,      \* how many tuples arrive
    MaxResults,     \* how many results the plan returns for one of them
    QueueSize       \* the capacity of the output

ASSUME BoxAssumption ==
    /\ MaxTuples \in Nat /\ MaxResults \in Nat /\ QueueSize \in Nat \ {0}
    /\ \A o \in Options :
           /\ o.limit \in Int /\ o.n \in Nat \ {0}
           /\ o.sampling \in {"none", "count", "random", "time"}

VARIABLES
    opt,        \* the options of the statement
    arrived,    \* the number of tuples that have arrived
    pour,       \* where Process is
    rest,       \* the results of this tuple that are not yet visited
    made,       \* the number of results visited
    emitCount, lastTuple, stopped,  \* as in the code; no last tuple is 0
    removeMe,   \* removeMe is not nil
    emitter,    \* where timeEmitter is
    tmu,        \* the owner of timeEmitterMutex
    out,        \* the number of tuples in the output queue
    node,       \* running, stopping, terminated or closed
    removals,   \* history: how often removeMe was called
    written     \* history: the results written

boxVars == <<emitCount, lastTuple, stopped, removeMe, tmu>>
vars == <<opt, arrived, pour, rest, made, boxVars, emitter, out, node, removals, written>>

Init ==
    /\ opt \in Options
    /\ arrived = 0 /\ pour = "idle" /\ rest = 0 /\ made = 0
    /\ emitCount = 0 /\ lastTuple = 0 /\ stopped = FALSE /\ removeMe = TRUE
    /\ emitter = IF opt.sampling = "time" THEN "tick" ELSE "none"
    /\ tmu = "free" /\ out = 0 /\ node = "running"
    /\ removals = 0 /\ written = <<>>

OverLimit(count) == opt.limit >= 0 /\ count >= opt.limit

-----------------------------------------------------------------------------
(* Process                                                                  *)

\* A tuple arrives: nothing happens over the limit, nor if the plan fails.
Arrive ==
    /\ pour = "idle" /\ node = "running" /\ arrived < MaxTuples /\ tmu = "free"
    /\ arrived' = arrived + 1
    /\ \/ UNCHANGED <<rest, pour>>
       \/ /\ ~OverLimit(emitCount)
          /\ \E n \in 0..MaxResults :
                 rest' = n /\ pour' = IF n = 0 THEN "limit" ELSE "result"
    /\ UNCHANGED <<opt, made, boxVars, emitter, out, node, removals, written>>

\* Whether the sampling lets the next result pass; with RANDOM it may and may not.
Sampled(pass) ==
    CASE opt.sampling = "count"  -> pass = (made % opt.n = 0)
      [] opt.sampling = "random" -> TRUE
      [] opt.sampling = "none"   -> pass

Visit ==
    /\ pour = "result" /\ opt.sampling # "time"
    /\ \E pass \in BOOLEAN : Sampled(pass) /\ pour' = IF pass THEN "write" ELSE "check"
    /\ made' = made + 1 /\ rest' = rest - 1
    /\ UNCHANGED <<opt, arrived, boxVars, emitter, out, node, removals, written>>

Remember ==
    /\ pour = "result" /\ opt.sampling = "time" /\ tmu = "free"
    /\ made' = made + 1 /\ rest' = rest - 1
    /\ lastTuple' = made'
    /\ pour' = IF rest' = 0 THEN "limit" ELSE "result"
    /\ UNCHANGED <<opt, arrived, emitCount, stopped, removeMe, tmu, emitter, out, node, removals, written>>

Write ==
    /\ pour = "write" /\ out < QueueSize
    /\ out' = out + 1 /\ written' = Append(written, made)
    /\ pour' = "count"
    /\ UNCHANGED <<opt, arrived, rest, made, boxVars, emitter, node, removals>>

Count ==
    /\ pour = "count" /\ tmu = "free"
    /\ emitCount' = emitCount + 1
    /\ pour' = "check"
    /\ UNCHANGED <<opt, arrived, rest, made, lastTuple, stopped, removeMe, tmu, emitter, out, node, removals, written>>

\* "stop emitting if we have hit the limit"
CheckLimit ==
    /\ pour = "check" /\ tmu = "free"
    /\ pour' = IF rest = 0 \/ OverLimit(emitCount) THEN "limit" ELSE "result"
    /\ rest' = IF pour' = "limit" THEN 0 ELSE rest
    /\ UNCHANGED <<opt, arrived, made, boxVars, emitter, out, node, removals, written>>

\* Mutants: removeMe is called again; removeMe is not called.
MRemoveAgain(count) ==
    /\ removals' = IF OverLimit(count) THEN removals + 1 ELSE removals
    /\ UNCHANGED removeMe

\* removeMe starts a goroutine that removes the box; it is called at most once.
RemoveIfOver(count) ==
    IF OverLimit(count) /\ removeMe
    THEN removals' = removals + 1 /\ removeMe' = FALSE
    ELSE UNCHANGED <<removals, removeMe>>

Return ==
    /\ pour = "limit" /\ tmu = "free"
    /\ RemoveIfOver(emitCount)
    /\ pour' = "idle"
    /\ UNCHANGED <<opt, arrived, rest, made, emitCount, lastTuple, stopped, tmu, emitter, out, node, written>>

-----------------------------------------------------------------------------
(* timeEmitter: a tick without a tuple changes nothing.                       *)

\* Mutants: the flag is looked at only if there is a tuple; the mutex is not locked.
MTickWithTuple ==
    /\ emitter = "tick" /\ tmu = "free" /\ lastTuple # 0
    /\ \/ stopped /\ emitter' = "ended" /\ UNCHANGED tmu
       \/ ~stopped /\ emitter' = "write" /\ tmu' = "emitter"
    /\ UNCHANGED <<opt, arrived, pour, rest, made, emitCount, lastTuple, stopped, removeMe,
                   out, node, removals, written>>

Tick ==
    /\ emitter = "tick" /\ tmu = "free"
    /\ \/ stopped /\ emitter' = "ended" /\ UNCHANGED tmu
       \/ ~stopped /\ lastTuple # 0 /\ emitter' = "write" /\ tmu' = "emitter"
    /\ UNCHANGED <<opt, arrived, pour, rest, made, emitCount, lastTuple, stopped, removeMe,
                   out, node, removals, written>>

\* Mutant: the last tuple is kept.
MEmit ==
    /\ emitter = "write" /\ out < QueueSize
    /\ out' = out + 1 /\ written' = Append(written, lastTuple)
    /\ emitCount' = emitCount + 1
    /\ RemoveIfOver(emitCount')
    /\ stopped' = (stopped \/ OverLimit(emitCount'))
    /\ emitter' = IF OverLimit(emitCount') THEN "ended" ELSE "tick"
    /\ tmu' = "free"
    /\ UNCHANGED <<opt, arrived, pour, rest, made, lastTuple, node>>

Emit ==
    /\ emitter = "write" /\ out < QueueSize
    /\ out' = out + 1 /\ written' = Append(written, lastTuple)
    /\ lastTuple' = 0
    /\ emitCount' = emitCount + 1
    /\ RemoveIfOver(emitCount')
    /\ stopped' = (stopped \/ OverLimit(emitCount'))
    /\ emitter' = IF OverLimit(emitCount') THEN "ended" ELSE "tick"
    /\ tmu' = "free"
    /\ UNCHANGED <<opt, arrived, pour, rest, made, node>>

-----------------------------------------------------------------------------
(* The node (external): it is stopped by a user or by removeMe's goroutine.    *)

UserStops ==
    /\ node = "running"
    /\ node' = "stopping"
    /\ UNCHANGED <<opt, arrived, pour, rest, made, boxVars, emitter, out, removals, written>>

RemoveStops == removals > 0 /\ UserStops

\* Mutant: the flag for the emitter is not set.
MTerminate ==
    /\ node = "stopping" /\ pour = "idle"
    /\ node' = "terminated"
    /\ UNCHANGED <<opt, arrived, pour, rest, made, boxVars, emitter, out, removals, written>>

Terminate ==
    /\ node = "stopping" /\ pour = "idle" /\ tmu = "free"
    /\ stopped' = TRUE
    /\ node' = "terminated"
    /\ UNCHANGED <<opt, arrived, pour, rest, made, emitCount, lastTuple, removeMe, tmu, emitter,
                   out, removals, written>>

Receive ==
    /\ out > 0
    /\ out' = out - 1
    /\ UNCHANGED <<opt, arrived, pour, rest, made, boxVars, emitter, node, removals, written>>

-----------------------------------------------------------------------------
Process == Visit \/ Remember \/ Write \/ Count \/ CheckLimit \/ Return
Emitter == Tick \/ Emit
Next == Arrive \/ Process \/ Emitter \/ UserStops \/ RemoveStops \/ Terminate \/ Receive

\* Process, the ticker, the node and the receiver go on; nobody has to stop the box,
\* and tuples may stay away.
Fairness ==
    WF_vars(Process) /\ WF_vars(Emitter) /\ WF_vars(RemoveStops) /\ WF_vars(Terminate) /\ WF_vars(Receive)

Spec == Init /\ [][Next]_vars /\ Fairness

-----------------------------------------------------------------------------
(* Properties                                                               *)

\* The variables have the types of their declarations; timeEmitterMutex is locked
\* between steps only while the emitter writes.
TypeOK ==
    /\ pour \in {"idle", "result", "write", "count", "check", "limit"}
    /\ pour = "result" => rest > 0
    /\ emitter \in {"none", "tick", "write", "ended"} /\ (tmu = "emitter") = (emitter = "write")
    /\ node \in {"running", "stopping", "terminated"} /\ out \in 0..QueueSize
    /\ lastTuple \in 0..made

\* LIMIT n: no more than n results are ever written, whichever of Process and the
\* time-based emitter writes them.
LimitHolds == opt.limit >= 0 => Len(written) <= opt.limit

\* Results are written in the order they were made and none of them twice ("we do not
\* want to emit the same tuple twice").
InOrderOnce == \A i, j \in DOMAIN written : i < j => written[i] < written[j]

\* EVERY n-TH TUPLE writes the first of every n results, also when the results of
\* one tuple are fewer or more than n.
EveryNth == opt.sampling = "count" => \A i \in DOMAIN written : written[i] = (i - 1) * opt.n + 1

\* What is written is a sample of the results in their order, none of them twice,
\* whichever goroutine writes it.
SampledInOrder == InOrderOnce /\ EveryNth

\* The box asks to be removed at most once, and only when it has written all it may.
RemovedAtLimit == removals > 0 => removals = 1 /\ Len(written) = opt.limit

\* LIMIT is kept: n results at most, and one removal when all n are written.
LimitIsKept == TypeOK /\ LimitHolds /\ RemovedAtLimit

\* After Terminate nothing is written: "in that case we may in no case write any
\* further tuples to any writer".
NothingAfterTerminate == [][node = "terminated" => written' = written]_vars

\* A box that has reached its limit is removed and terminated, unless the limit is 0:
\* Process then returns before it gets to removeMe, and the emitter writes nothing.
LimitRemoves == (opt.limit > 0 /\ Len(written) = opt.limit) ~> node = "terminated"

\* The goroutine of the time-based emitter ends with its box.
EmitterEnds == node = "terminated" ~> emitter \in {"none", "ended"}

\* A box that is done goes, and its emitter with it: Process, removeMe and the emitter's
\* goroutine do not wait for each other.
EventuallyGone == LimitRemoves /\ EmitterEnds
=============================================================================
