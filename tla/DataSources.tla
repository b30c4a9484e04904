----------------------------- MODULE DataSources -----------------------------
(***************************************************************************)
(* The input side of a box or a sink: dataSources (core/pipe.go).  pour    *)
(* starts threads that select over a control channel and the connected     *)
(* pipes; add, remove, enableGracefulStop, stopOnDisconnect and stop send  *)
(* them control messages through unbuffered channels.                      *)
(*                                                                         *)
(* dataSources.m is held across steps only while a call sends messages     *)
(* (lock); every other critical section is one step that needs lock = None *)
(* and the wait inside stop gives it up.  A thread that has left its loop  *)
(* still receives messages: the goroutine it leaves behind drops them.     *)
(*                                                                         *)
(* Calls start when the state is TSRunning or later: AddBox and AddSink    *)
(* hand a node out only then.  Every pipe has one goroutine writing to it, *)
(* the upstream node; DataDestinations models that side in full.           *)
(***************************************************************************)
EXTENDS TopologyState, Sequences, FiniteSets

CONSTANTS
    Recv,            \* the pipes, each with the receiver at this node
    None,
    Call,            \* calls made to the dataSources, each at most once
    Op,              \* what a call is: a member of OpName
    Arg,             \* the pipe an add or remove is about
    Parallelism,     \* number of threads pour starts
    Capacity,        \* of the pipes
    MaxTuple,        \* bound: tuples written to a pipe
    Scenario         \* which calls are made together, whether Write of the box
                     \* or sink may fail fatally, and the tuples for each pipe

OpName == {"add", "remove", "graceful", "disconnect", "stop", "status"}
Thread == 1..Parallelism

ASSUME SourcesAssumption ==
    /\ Op \in [Call -> OpName]
    /\ \A c \in Call : Op[c] \in {"add", "remove"} => Arg[c] \in Recv
    /\ Parallelism \in Nat \ {0}
    /\ Capacity \in Nat \ {0}
    /\ MaxTuple \in Nat
    /\ Scenario \subseteq [calls : SUBSET Call, fatalErrors : BOOLEAN, tuples : 0..MaxTuple]
    /\ None \notin Call

VARIABLES
    st,              \* dataSources.state
    recvs,           \* dataSources.recvs
    lock,            \* the call that holds dataSources.m to send, or None
    idx,             \* the thread whose channel it sends to next
    cpc,             \* per call: idle, send, waitStopped, done
    ppc,             \* pour: idle, started, running, ended
    tpc,             \* per thread: none, select, write, exited, done
    cs,              \* per thread: the pipes it selects over
    cur,             \* per thread: the tuple it is writing
    graceful, onDisc, default,  \* per thread: its three flags
    inputs,          \* pour: the pipes of the thread that ended first
    collected,       \* pour: collectInputs has run
    drain,           \* the pipes the goroutine started by pour drains
    chan, closed, closing,      \* the pipes, as in DataDestinations
    wpc, count,      \* per pipe: its writer is idle or sending; tuples written
    accepted,        \* history: the pipes add accepted
    attached,        \* history: the pipes that reached a running thread
    handled, lost,   \* history: tuples <<r, k>> written to w, or drained
    due,             \* history: queued when a graceful stop was called
    fatal,           \* history: some thread ended with a fatal error
    scenario         \* the member of Scenario this behaviour is about

cvars == <<st, recvs, lock, idx, cpc>>
tvars == <<tpc, cs, cur, graceful, onDisc, default>>
ovars == <<ppc, inputs, collected, drain>>
pvars == <<chan, closed, closing, wpc, count>>
hvars == <<accepted, attached, handled, lost, due, fatal, scenario>>
vars == <<cvars, tvars, ovars, pvars, hvars>>

Tuple == Recv \X (1..MaxTuple)
NoTuple == <<>>

Init ==
    /\ st = TSInitialized /\ recvs = {} /\ lock = None /\ idx = 1
    /\ cpc = [c \in Call |-> "idle"]
    /\ ppc = "idle" /\ inputs = {} /\ collected = FALSE /\ drain = {}
    /\ tpc = [i \in Thread |-> "none"]
    /\ cs = [i \in Thread |-> {}]
    /\ cur = [i \in Thread |-> NoTuple]
    /\ graceful = [i \in Thread |-> FALSE]
    /\ onDisc = [i \in Thread |-> FALSE]
    /\ default = [i \in Thread |-> FALSE]
    /\ chan = [r \in Recv |-> <<>>] /\ closed = {} /\ closing = {}
    /\ wpc = [r \in Recv |-> "idle"] /\ count = [r \in Recv |-> 0]
    /\ accepted = {} /\ attached = {} /\ handled = {} /\ lost = {}
    /\ due = {} /\ fatal = FALSE /\ scenario \in Scenario

-----------------------------------------------------------------------------
(* pour *)

\* Under the lock: checkAndPrepareForRunning and the threads.  Each of them
\* makes its cases from s.recvs before the lock is given up.
PourStart ==
    /\ lock = None /\ st = TSInitialized
    /\ st' = SetWithoutLock(st, TSStarting)
    /\ ppc' = "started"
    /\ tpc' = [i \in Thread |-> "select"]
    /\ cs' = [i \in Thread |-> recvs]
    /\ UNCHANGED <<recvs, lock, idx, cpc, cur, graceful, onDisc, default>>
    /\ UNCHANGED <<inputs, collected, drain, pvars, hvars>>

PourRunning ==
    /\ lock = None /\ ppc = "started"
    /\ st' = SetWithoutLock(st, TSRunning)
    /\ ppc' = "running"
    /\ UNCHANGED <<recvs, lock, idx, cpc, inputs, collected, drain, tvars, pvars, hvars>>

\* wg.Wait returned: what the threads and the map still have is closed and left
\* to a goroutine to drain.
PourEnd ==
    /\ lock = None /\ ppc = "running" /\ \A i \in Thread : tpc[i] = "done"
    /\ drain' = inputs \cup recvs
    /\ closing' = closing \cup recvs
    /\ recvs' = {}
    /\ st' = SetWithoutLock(st, TSStopped)
    /\ ppc' = "ended"
    /\ UNCHANGED <<lock, idx, cpc, inputs, collected, tvars, chan, closed, wpc, count, hvars>>

\* The goroutine over drainTargets.
DrainTake(r) ==
    /\ r \in drain /\ chan[r] # <<>>
    /\ chan' = [chan EXCEPT ![r] = Tail(@)]
    /\ lost' = lost \cup {Head(chan[r])}
    /\ UNCHANGED <<closed, closing, wpc, count, cvars, tvars, ovars>>
    /\ UNCHANGED <<accepted, attached, handled, due, fatal, scenario>>

DrainClosed(r) ==
    /\ r \in drain /\ r \in closed /\ chan[r] = <<>>
    /\ drain' = drain \ {r}
    /\ UNCHANGED <<ppc, inputs, collected, cvars, tvars, pvars, hvars>>

-----------------------------------------------------------------------------
(* Calls.  msgChs is nil once pour has ended: there is nothing to send then. *)

Start(c, op) ==
    /\ c \in scenario.calls /\ lock = None
    /\ cpc[c] = "idle" /\ Op[c] = op /\ st >= TSRunning
Goto(c, to) == cpc' = [cpc EXCEPT ![c] = to]
BeginSend(c) == lock' = c /\ idx' = 1 /\ Goto(c, "send")
NoSend(c, to) == Goto(c, to) /\ UNCHANGED <<lock, idx>>

Add(c) ==
    /\ Start(c, "add")
    /\ \/ /\ st < TSStopping
          /\ recvs' = recvs \cup {Arg[c]}
          /\ accepted' = accepted \cup {Arg[c]}
          /\ BeginSend(c)
       \/ /\ st >= TSStopping          \* "already closed its input"
          /\ NoSend(c, "done")
          /\ UNCHANGED <<recvs, accepted>>
    /\ UNCHANGED <<st, tvars, ovars, pvars, attached, handled, lost, due, fatal, scenario>>

Remove(c) ==
    /\ Start(c, "remove")
    /\ NoSend(c, "done")
    /\ \/ /\ st < TSStopping /\ Arg[c] \in recvs
          /\ recvs' = recvs \ {Arg[c]}
          /\ closing' = closing \cup {Arg[c]}
       \/ /\ st >= TSStopping \/ Arg[c] \notin recvs
          /\ UNCHANGED <<recvs, closing>>
    /\ UNCHANGED <<st, tvars, ovars, chan, closed, wpc, count, hvars>>

\* enableGracefulStop and stopOnDisconnect.
SendFlag(c) ==
    /\ Start(c, "graceful") \/ Start(c, "disconnect")
    /\ IF ppc = "ended" THEN NoSend(c, "done") ELSE BeginSend(c)
    /\ UNCHANGED <<st, recvs, tvars, ovars, pvars, hvars>>

\* The tuples in the queues the threads read from.
Queued ==
    {t \in Tuple : t[1] \in attached /\ \E i \in 1..Len(chan[t[1]]) : chan[t[1]][i] = t}

Stop(c) ==
    /\ Start(c, "stop")
    /\ \/ /\ st \in {TSRunning, TSPaused}
          /\ st' = SetWithoutLock(st, TSStopping)
          /\ closing' = closing \cup recvs
          /\ recvs' = {}
          /\ BeginSend(c)
          /\ due' = IF \A i \in Thread : graceful[i] THEN Queued ELSE {}
       \/ /\ st = TSStopping
          /\ NoSend(c, "waitStopped")
          /\ UNCHANGED <<st, closing, recvs, due>>
       \/ /\ st = TSStopped
          /\ NoSend(c, "done")
          /\ UNCHANGED <<st, closing, recvs, due>>
    /\ UNCHANGED <<tvars, ovars, chan, closed, wpc, count>>
    /\ UNCHANGED <<accepted, attached, handled, lost, fatal, scenario>>

\* status forgets the receivers whose pipe was closed by the other side.
Status(c) ==
    /\ Start(c, "status")
    /\ NoSend(c, "done")
    /\ recvs' = recvs \ closed
    /\ UNCHANGED <<st, tvars, ovars, pvars, hvars>>

\* ch <- msg is received by thread i.
Receives(i, c) ==
    /\ \/ /\ Op[c] = "add"
          /\ cs' = [cs EXCEPT ![i] = @ \cup {Arg[c]}]
          /\ attached' = attached \cup {Arg[c]}
          /\ UNCHANGED <<tpc, graceful, onDisc, default>>
       \/ /\ Op[c] = "graceful"
          /\ graceful' = [graceful EXCEPT ![i] = TRUE]
          /\ UNCHANGED <<tpc, cs, attached, onDisc, default>>
       \/ /\ Op[c] = "disconnect"
          /\ onDisc' = [onDisc EXCEPT ![i] = TRUE]
          /\ UNCHANGED <<tpc, cs, attached, graceful, default>>
       \/ /\ Op[c] = "stop" /\ graceful[i]
          /\ default' = [default EXCEPT ![i] = TRUE]
          /\ UNCHANGED <<tpc, cs, attached, graceful, onDisc>>
       \/ /\ Op[c] = "stop" /\ ~graceful[i]
          /\ tpc' = [tpc EXCEPT ![i] = "exited"]
          /\ UNCHANGED <<cs, attached, graceful, onDisc, default>>
    /\ UNCHANGED <<cur, accepted, handled, lost, due, fatal, scenario>>

\* The thread is at reflect.Select: the loop has not ended for want of inputs.
Selecting(i) == tpc[i] = "select" /\ ~(onDisc[i] /\ cs[i] = {})

\* Mutant: nobody receives the messages for a thread that has ended.
DeliverToRunning(c) ==
    /\ lock = c /\ idx \in Thread
    /\ Selecting(idx) /\ Receives(idx, c)
    /\ idx' = idx + 1
    /\ UNCHANGED <<st, recvs, lock, cpc, ovars, pvars>>

Deliver(c) ==
    /\ lock = c /\ idx \in Thread
    /\ \/ Selecting(idx) /\ Receives(idx, c)
       \/ tpc[idx] \in {"exited", "done"} /\ UNCHANGED <<tvars, hvars>>
    /\ idx' = idx + 1
    /\ UNCHANGED <<st, recvs, lock, cpc, ovars, pvars>>

SendEnd(c) ==
    /\ lock = c /\ idx \notin Thread
    /\ lock' = None
    /\ Goto(c, IF Op[c] = "stop" THEN "waitStopped" ELSE "done")
    /\ UNCHANGED <<st, recvs, idx, tvars, ovars, pvars, hvars>>

StopReturns(c) ==
    /\ lock = None /\ cpc[c] = "waitStopped" /\ WaitDone(st, TSStopped)
    /\ Goto(c, "done")
    /\ UNCHANGED <<st, recvs, lock, idx, tvars, ovars, pvars, hvars>>

-----------------------------------------------------------------------------
(* pouringThread *)

\* stopOnDisconnect and no input left.
ExitDisconnected(i) ==
    /\ tpc[i] = "select" /\ onDisc[i] /\ cs[i] = {}
    /\ tpc' = [tpc EXCEPT ![i] = "exited"]
    /\ UNCHANGED <<cs, cur, graceful, onDisc, default, cvars, ovars, pvars, hvars>>

\* A tuple is received and handed to Write of the box or sink ...
Take(i, r) ==
    /\ Selecting(i) /\ r \in cs[i] /\ chan[r] # <<>>
    /\ tpc' = [tpc EXCEPT ![i] = "write"]
    /\ cur' = [cur EXCEPT ![i] = Head(chan[r])]
    /\ chan' = [chan EXCEPT ![r] = Tail(@)]
    /\ UNCHANGED <<cs, graceful, onDisc, default, closed, closing, wpc, count>>
    /\ UNCHANGED <<cvars, ovars, hvars>>

\* ... which returns nil, or an error after which the tuple is reported as
\* dropped and skipped ...
WriteReturns(i) ==
    /\ tpc[i] = "write"
    /\ tpc' = [tpc EXCEPT ![i] = "select"]
    /\ cur' = [cur EXCEPT ![i] = NoTuple]
    /\ handled' = handled \cup {cur[i]}
    /\ UNCHANGED <<cs, graceful, onDisc, default, cvars, ovars, pvars>>
    /\ UNCHANGED <<accepted, attached, lost, due, fatal, scenario>>

\* ... or a fatal error or a panic.
WriteFails(i) ==
    /\ scenario.fatalErrors /\ tpc[i] = "write"
    /\ tpc' = [tpc EXCEPT ![i] = "exited"]
    /\ cur' = [cur EXCEPT ![i] = NoTuple]
    /\ handled' = handled \cup {cur[i]}
    /\ fatal' = TRUE
    /\ UNCHANGED <<cs, graceful, onDisc, default, cvars, ovars, pvars>>
    /\ UNCHANGED <<accepted, attached, lost, due, scenario>>

\* Mutant: a closed channel stays among the cases.
DropClosedKeeps(i, r) ==
    /\ Selecting(i) /\ r \in cs[i] /\ r \in closed /\ chan[r] = <<>>
    /\ UNCHANGED vars

\* A closed and empty channel is removed from the cases.
DropClosed(i, r) ==
    /\ Selecting(i) /\ r \in cs[i] /\ r \in closed /\ chan[r] = <<>>
    /\ cs' = [cs EXCEPT ![i] = @ \ {r}]
    /\ UNCHANGED <<tpc, cur, graceful, onDisc, default, cvars, ovars, pvars, hvars>>

\* Mutant: the loop ends on stop whether or not tuples are queued.
ExitDefaultNow(i) ==
    /\ Selecting(i) /\ default[i]
    /\ tpc' = [tpc EXCEPT ![i] = "exited"]
    /\ UNCHANGED <<cs, cur, graceful, onDisc, default, cvars, ovars, pvars, hvars>>

\* The default case: stopped gracefully and no channel is ready.
ExitDefault(i) ==
    /\ Selecting(i) /\ default[i]
    /\ \A r \in cs[i] : chan[r] = <<>> /\ r \notin closed
    /\ tpc' = [tpc EXCEPT ![i] = "exited"]
    /\ UNCHANGED <<cs, cur, graceful, onDisc, default, cvars, ovars, pvars, hvars>>

\* collectInputs.Do and wg.Done, after pouringThread has returned.
Collect(i) ==
    /\ tpc[i] = "exited"
    /\ tpc' = [tpc EXCEPT ![i] = "done"]
    /\ inputs' = IF collected THEN inputs ELSE cs[i]
    /\ collected' = TRUE
    /\ UNCHANGED <<cs, cur, graceful, onDisc, default, ppc, drain, cvars, pvars, hvars>>

-----------------------------------------------------------------------------
(* The other end of the pipes. *)

WriterBegin(r) ==
    /\ r \in accepted /\ r \notin closed /\ wpc[r] = "idle" /\ count[r] < scenario.tuples
    /\ wpc' = [wpc EXCEPT ![r] = "sending"]
    /\ count' = [count EXCEPT ![r] = @ + 1]
    /\ UNCHANGED <<chan, closed, closing, cvars, tvars, ovars, hvars>>

WriterSend(r) ==
    /\ wpc[r] = "sending" /\ Len(chan[r]) < Capacity
    /\ chan' = [chan EXCEPT ![r] = Append(@, <<r, count[r]>>)]
    /\ wpc' = [wpc EXCEPT ![r] = "idle"]
    /\ UNCHANGED <<closed, closing, count, cvars, tvars, ovars, hvars>>

\* pipeSender.close: for a receiver that closes, or by the upstream node.
SenderClose(r) ==
    /\ r \in closing /\ wpc[r] = "idle"
    /\ closing' = closing \ {r}
    /\ closed' = closed \cup {r}
    /\ UNCHANGED <<chan, wpc, count, cvars, tvars, ovars, hvars>>

UpstreamClose(r) ==
    /\ r \in accepted /\ r \notin closed /\ wpc[r] = "idle"
    /\ closed' = closed \cup {r}
    /\ UNCHANGED <<chan, closing, wpc, count, cvars, tvars, ovars, hvars>>

-----------------------------------------------------------------------------
CallStart(c) == Add(c) \/ Remove(c) \/ SendFlag(c) \/ Stop(c) \/ Status(c)
CallStep(c) == Deliver(c) \/ SendEnd(c) \/ StopReturns(c)
ThreadStep(i) ==
    \/ ExitDisconnected(i) \/ ExitDefault(i) \/ Collect(i)
    \/ WriteReturns(i) \/ WriteFails(i)
    \/ \E r \in Recv : Take(i, r) \/ DropClosed(i, r)
PourStep == PourStart \/ PourRunning \/ PourEnd
DrainStep(r) == DrainTake(r) \/ DrainClosed(r)

Next ==
    \/ PourStep
    \/ \E c \in Call : CallStart(c) \/ CallStep(c)
    \/ \E i \in Thread : ThreadStep(i)
    \/ \E r \in Recv :
          \/ DrainStep(r) \/ WriterBegin(r) \/ WriterSend(r)
          \/ SenderClose(r) \/ UpstreamClose(r)

Spec == Init /\ [][Next]_vars

\* Goroutines that can go on do: pour, its threads (Write of the box or sink
\* returns), the drain goroutine, calls that were made, writers and closers.
\* Nobody has to make a call, to write or to close from upstream.
GoOn ==
    \/ PourStep
    \/ \E c \in Call : CallStep(c)
    \/ \E i \in Thread : ThreadStep(i)
    \/ \E r \in Recv : DrainStep(r) \/ WriterSend(r) \/ SenderClose(r)

\* Every call is made once and the tuples are bounded, so behaviours are finite and
\* one condition on all of these steps says the same as one for each goroutine.
Fairness == WF_vars(GoOn)

FairSpec == Spec /\ Fairness

-----------------------------------------------------------------------------
(* Properties. *)

\* The variables have their types; no pipe holds more than its capacity.
TypeOK ==
    /\ st \in TopologyStates /\ recvs \subseteq Recv
    /\ lock \in Call \cup {None} /\ idx \in 1..(Parallelism + 1)
    /\ cpc \in [Call -> {"idle", "send", "waitStopped", "done"}]
    /\ ppc \in {"idle", "started", "running", "ended"}
    /\ inputs \subseteq Recv /\ collected \in BOOLEAN /\ drain \subseteq Recv
    /\ tpc \in [Thread -> {"none", "select", "write", "exited", "done"}]
    /\ cs \in [Thread -> SUBSET Recv] /\ cur \in [Thread -> Tuple \cup {NoTuple}]
    /\ graceful \in [Thread -> BOOLEAN] /\ onDisc \in [Thread -> BOOLEAN]
    /\ default \in [Thread -> BOOLEAN]
    /\ chan \in [Recv -> Seq(Tuple)] /\ \A r \in Recv : Len(chan[r]) <= Capacity
    /\ closed \subseteq Recv /\ closing \subseteq Recv
    /\ wpc \in [Recv -> {"idle", "sending"}] /\ count \in [Recv -> 0..MaxTuple]
    /\ accepted \subseteq Recv /\ attached \subseteq Recv
    /\ handled \subseteq Tuple /\ lost \subseteq Tuple /\ due \subseteq Tuple
    /\ fatal \in BOOLEAN /\ scenario \in Scenario

\* With graceful stop enabled, stop ends only after every tuple that was in a
\* queue of a thread when it was called has been processed ("stop stops the source after
\* processing tuples which it currently has"), unless processing fails fatally.
GracefulStopDrains == st = TSStopped /\ ~fatal => due \subseteq handled

\* Without stop and fatal errors, a node ends by stopOnDisconnect, and then it has
\* processed everything written to the pipes its threads knew of: tuples are only
\* drained away unprocessed from a pipe connected after the threads had ended.
DisconnectLosesNothing ==
    /\ \A c \in Call : Op[c] = "stop" => cpc[c] = "idle"
    /\ ~fatal
    => \A t \in lost : t[1] \notin attached

\* Nothing that was in the queues of a node is lost when it ends, by stop with graceful
\* stop enabled or by stopOnDisconnect, and the variables keep their types.
QueuedIsKept == TypeOK /\ GracefulStopDrains /\ DisconnectLosesNothing

\* When pour has ended every pipe it ever accepted is closed or being drained:
\* "all inputs can be drained and no sender will be blocked".
EveryInputDrained == ppc = "ended" => accepted \subseteq closed \cup drain

\* Every call returns: a control message is always received, by a thread or in
\* its place, and stop sees TSStopped.
CallsReturn ==
    (\E c \in Call : cpc[c] \in {"send", "waitStopped"})
        ~> (\A c \in Call : cpc[c] \notin {"send", "waitStopped"})

\* No upstream writer blocks forever on a pipe of this node, whatever ended it.
WritersReturn == (\E r \in Recv : wpc[r] = "sending") ~> (\A r \in Recv : wpc[r] = "idle")

\* Nobody hangs on a node: its callers, its upstream writers, and those that write after
\* pour has ended.
NobodyHangs == []EveryInputDrained /\ CallsReturn /\ WritersReturn

\* A node told to stop on disconnect stops once all of its pipes are closed: what
\* Topology.Stop relies on for boxes and sinks.
DisconnectEnds ==
    (/\ \A c \in scenario.calls : cpc[c] = "done"
     /\ \E c \in scenario.calls : Op[c] = "disconnect"
     /\ accepted \subseteq closed) ~> st = TSStopped
=============================================================================
