------------------------------ MODULE Topology ------------------------------
(***************************************************************************)
(* defaultTopology and its nodes (core/default_topology.go and             *)
(* core/default_*_node.go): sources, boxes and sinks that run in           *)
(* goroutines of their own, are connected by pipes, and are stopped by     *)
(* Stop, by Remove, by disconnection or by themselves.                     *)
(*                                                                         *)
(* Pipes are modelled by what DataDestinations and DataSources establish   *)
(* about them: a queue of Capacity tuples, closed by either end through    *)
(* the goroutines of pipeReceiver.close and pipeSender.close.  Only the    *)
(* number of queued tuples is kept; a box forwards what it reads.          *)
(*                                                                         *)
(* Calls into the topology are the elements of Op, pairs <<method, arg>>,  *)
(* each made at most once by a goroutine of its own.                       *)
(***************************************************************************)
EXTENDS Naturals, FiniteSets, TopologyState

CONSTANTS Source, Box, Sink, \* the nodes that may be created
          NameOf,            \* their names
          Edge,              \* the inputs that may be connected: <<from, to>>
          Op,                \* the calls that may be made
          Scenario,          \* nodes and edges to start with, calls, nodes that may
                             \* fail, sources that read the list of nodes (node_statuses),
                             \* and how many tuples a source generates
          Capacity,          \* of every pipe
          MaxTuple,          \* bound: tuples a source generates
          None

Node == Source \cup Box \cup Sink
Self == {<<"self", n>> : n \in Node}   \* the removal a stopped node does itself

ASSUME TopologyAssumption ==
    /\ Source \cap Box = {} /\ Source \cap Sink = {} /\ Box \cap Sink = {}
    /\ Edge \subseteq (Source \cup Box) \X (Box \cup Sink)
    /\ Scenario \subseteq [nodes : SUBSET Node, edges : SUBSET Edge, calls : SUBSET Op,
                       faulty : SUBSET Node, watcher : SUBSET Source, tuples : 0..MaxTuple]
    /\ Capacity \in Nat \ {0} /\ MaxTuple \in Nat
    /\ None \notin Node /\ Op \cap Self = {}

VARIABLES
    topology,     \* state of the topology
    mutex,        \* the call that holds nodeMutex for longer than a step
    registered,   \* nodes in the maps sources, boxes and sinks
    state,        \* node -> its state
    run,          \* node -> where its goroutine is
    told,         \* nodes whose source or dataSources was told to stop
    inFlag,       \* nodes whose pouring thread stops without inputs
    outFlag,      \* nodes that stop without outputs
    graceful,     \* nodes whose pouring thread empties its inputs before stopping
    removeOnStop, \* nodes that are removed when they stop
    paused,       \* sources whose output is paused
    open          \* sources and boxes whose output is not closed

VARIABLES
    link,         \* edges in the destinations of their writer
    closed,       \* edges whose channel is closed
    queue,        \* edge -> number of queued tuples
    attached,     \* edges their receiver reads
    closing,      \* edges a goroutine is about to close from the reader's side
    removing,     \* edges a goroutine is about to take out of the destinations
    todo,         \* edges a Write in progress still has to send to
    sending,      \* edges a Write is waiting for, holding the lock of the sender
    found,        \* edges a Write in progress found closed
    fresh,        \* source -> tuples it still generates
    events        \* node -> ddeDisconnect callbacks that have not run yet

VARIABLES
    pc, at,       \* call -> program point and node it works on
    left,         \* nodes Topology.Stop has not handled yet
    calls,        \* the calls of this behaviour
    faulty,       \* sources whose Stop fails, boxes that may fail fatally
    watcher,      \* sources that look at the topology before they write
    quiet,        \* history: no other call was in progress when Topology.Stop began
    atStop,       \* history: the edges at that time
    lost          \* history: edges that lost a tuple afterwards

scenario == <<calls, faulty, watcher>>
svars == <<topology, mutex, registered>>
flags == <<told, inFlag, outFlag, graceful, removeOnStop>>
nvars == <<state, run, flags, paused, open>>
evars == <<link, closed, queue, attached, closing, removing, todo, sending, found>>
cvars == <<pc, at, left, scenario>>
hvars == <<quiet, atStop, lost>>
vars == <<svars, nvars, evars, fresh, events, cvars, hvars>>

Running == {TSRunning, TSPaused}
Out(n) == {e \in link : e[1] = n}
In(n) == {e \in attached : e[2] = n}
Writing(n) == \E e \in todo \cup sending : e[1] = n   \* holds the read lock of dsts
Pouring(n) == run[n] \in {"idle", "hold", "write", "over"}

\* The topology has been set up by Add* and Input calls, as the scenario says.
Init ==
    /\ topology = TSRunning /\ mutex = None
    /\ \E sc \in Scenario :
          /\ registered = sc.nodes
          /\ state = [n \in Node |-> IF n \in sc.nodes THEN TSRunning ELSE TSInitialized]
          /\ run = [n \in Node |-> IF n \in sc.nodes THEN "idle" ELSE "none"]
          /\ open = sc.nodes \ Sink
          /\ link = sc.edges /\ attached = sc.edges
          /\ calls = sc.calls /\ faulty = sc.faulty /\ watcher = sc.watcher
          /\ fresh = [n \in Source |-> sc.tuples]
    /\ told = {} /\ inFlag = {} /\ outFlag = {} /\ graceful = {} /\ removeOnStop = {}
    /\ paused = {} /\ closed = {} /\ closing = {} /\ removing = {}
    /\ queue = [e \in Edge |-> 0]
    /\ todo = {} /\ sending = {} /\ found = {}
    /\ events = [n \in Node |-> 0]
    /\ pc = [o \in Op \cup Self |-> IF o \in calls THEN "ready" ELSE "off"]
    /\ at = [o \in Op \cup Self |-> None]
    /\ left = {} /\ quiet = FALSE /\ atStop = {} /\ lost = {}

-----------------------------------------------------------------------------
(* Pipes.                                                                  *)

\* pipeSender.close by the goroutine of pipeReceiver.close; waits for a send.
SenderClose(e) ==
    /\ e \in closing \ sending
    /\ closing' = closing \ {e}
    /\ closed' = closed \cup {e}
    /\ removing' = removing \cup {e}
    /\ UNCHANGED <<svars, nvars, link, queue, attached, todo, sending, found, fresh, events, cvars, hvars>>

\* dataDestinations.remove by the goroutine of pipeSender.close; waits for Write.
\* ddeDisconnect is sent to the writer that is left without destinations.
RemoveLink(e) ==
    /\ e \in removing /\ ~Writing(e[1])
    /\ removing' = removing \ {e}
    /\ link' = link \ {e}
    /\ events' = IF Out(e[1]) = {e} THEN [events EXCEPT ![e[1]] = @ + 1] ELSE events
    /\ UNCHANGED <<svars, nvars, closed, queue, attached, closing, todo, sending, found, fresh, cvars, hvars>>

\* The goroutine left behind by pour reads until the channels are closed.
Drain(e) ==
    /\ e \in attached /\ run[e[2]] \in {"ended", "closed", "done", "gone"}
    /\ \/ /\ queue[e] > 0
          /\ queue' = [queue EXCEPT ![e] = @ - 1]
          /\ lost' = lost \cup ({e} \cap atStop)
          /\ UNCHANGED attached
       \/ /\ queue[e] = 0 /\ e \in closed
          /\ attached' = attached \ {e}
          /\ UNCHANGED <<queue, lost>>
    /\ UNCHANGED <<svars, nvars, link, closed, closing, removing, todo, sending, found, fresh, events, cvars, quiet, atStop>>

-----------------------------------------------------------------------------
(* Writing: dataDestinations.Write of node n.                              *)

Goto(n, from, to) ==
    /\ run[n] = from
    /\ run' = [run EXCEPT ![n] = to]

StartWrite(n) ==
    /\ n \notin paused
    /\ Goto(n, "hold", IF Out(n) = {} THEN "idle" ELSE "write")
    /\ todo' = todo \cup Out(n)
    /\ lost' = lost \cup (IF n \in open THEN {e \in atStop \ link : e[1] = n} ELSE {})
    /\ UNCHANGED <<svars, state, flags, paused, open>>
    /\ UNCHANGED <<link, closed, queue, attached, closing, removing, sending, found>>
    /\ UNCHANGED <<fresh, events, cvars, quiet, atStop>>

\* pipeSender.write finds the pipe closed, has room in it, or waits for room.
Send(n, e) ==
    /\ e \in todo /\ e[1] = n /\ \A f \in sending : f[1] # n
    /\ todo' = todo \ {e}
    /\ \/ /\ e \in closed
          /\ found' = found \cup {e}
          /\ lost' = lost \cup ({e} \cap atStop)
          /\ UNCHANGED <<queue, sending>>
       \/ /\ e \notin closed /\ queue[e] < Capacity
          /\ queue' = [queue EXCEPT ![e] = @ + 1]
          /\ UNCHANGED <<sending, found, lost>>
       \/ /\ e \notin closed /\ queue[e] = Capacity
          /\ sending' = sending \cup {e}
          /\ UNCHANGED <<queue, found, lost>>
    /\ UNCHANGED <<svars, nvars, link, closed, attached, closing, removing, fresh, events, cvars, quiet, atStop>>

Sent(e) ==
    /\ e \in sending /\ queue[e] < Capacity
    /\ sending' = sending \ {e}
    /\ queue' = [queue EXCEPT ![e] = @ + 1]
    /\ UNCHANGED <<svars, nvars, link, closed, attached, closing, removing, todo, found>>
    /\ UNCHANGED <<fresh, events, cvars, hvars>>

\* Write takes the destinations it found closed away, with the lock released and
\* taken again, and sends ddeDisconnect if none is there afterwards.
WriteEnd(n) ==
    /\ ~Writing(n)
    /\ Goto(n, "write", "idle")
    /\ link' = link \ {e \in found : e[1] = n}
    /\ events' = IF (\E e \in found : e[1] = n) /\ Out(n) \subseteq found
                 THEN [events EXCEPT ![n] = @ + 1] ELSE events
    /\ found' = {e \in found : e[1] # n}
    /\ UNCHANGED <<svars, state, flags, paused, open>>
    /\ UNCHANGED <<closed, queue, attached, closing, removing, todo, sending, fresh, cvars, hvars>>

-----------------------------------------------------------------------------
(* The goroutine of a source.                                              *)

Emit(n) ==
    /\ fresh[n] > 0
    /\ Goto(n, "idle", IF n \in watcher THEN "look" ELSE "hold")
    /\ fresh' = [fresh EXCEPT ![n] = @ - 1]
    /\ UNCHANGED <<svars, state, flags, paused, open>>
    /\ UNCHANGED <<evars, events, cvars, hvars>>

\* node_statuses reads Topology.Nodes before it writes.
Look(n) ==
    /\ mutex = None
    /\ Goto(n, "look", "hold")
    /\ UNCHANGED <<svars, state, flags, paused, open>>
    /\ UNCHANGED <<evars, fresh, events, cvars, hvars>>

\* GenerateStream returns, because it was told to or by itself.
SourceReturns(n) ==
    /\ n \in Source
    /\ Goto(n, "idle", "over")
    /\ UNCHANGED <<svars, state, flags, paused, open>>
    /\ UNCHANGED <<evars, fresh, events, cvars, hvars>>

-----------------------------------------------------------------------------
(* The goroutine of a box or a sink: dataSources.pour with one thread.     *)

Take(n, e) ==
    /\ e \in In(n) /\ queue[e] > 0
    /\ Goto(n, "idle", IF n \in Box THEN "hold" ELSE "idle")
    /\ queue' = [queue EXCEPT ![e] = @ - 1]
    /\ UNCHANGED <<svars, state, flags, paused, open>>
    /\ UNCHANGED <<link, closed, attached, closing, removing, todo, sending, found>>
    /\ UNCHANGED <<fresh, events, cvars, hvars>>

DropInput(n, e) ==
    /\ run[n] = "idle" /\ e \in In(n) /\ queue[e] = 0 /\ e \in closed
    /\ attached' = attached \ {e}
    /\ UNCHANGED <<svars, nvars, link, closed, queue, closing, removing, todo, sending, found>>
    /\ UNCHANGED <<fresh, events, cvars, hvars>>

\* dataSources.stop, called after the node became TSStopping.
SrcsStop(n) ==
    /\ n \notin Source /\ state[n] = TSStopping /\ n \notin told /\ Pouring(n)
    /\ told' = told \cup {n}
    /\ closing' = closing \cup (In(n) \ closed)
    /\ UNCHANGED <<svars, state, run, inFlag, outFlag, graceful, removeOnStop, paused, open>>
    /\ UNCHANGED <<link, closed, queue, attached, removing, todo, sending, found>>
    /\ UNCHANGED <<fresh, events, cvars, hvars>>

\* Mutant: the thread ends when its inputs are closed, not when they are empty.
ThreadStopsEarly(n) ==
    \/ n \in told /\ n \notin graceful
    \/ n \in told /\ \A e \in In(n) : queue[e] = 0 /\ e \notin closed
    \/ n \in inFlag /\ In(n) \subseteq closed

\* Mutant: the default case of the select is missing.
ThreadStopsNever(n) ==
    \/ n \in told /\ n \notin graceful
    \/ n \in inFlag /\ In(n) = {}

\* The thread ends: stopped (gracefully, when nothing is ready), without inputs
\* after stopOnDisconnect, or with a fatal error.
ThreadStops(n) ==
    \/ n \in told /\ n \notin graceful
    \/ n \in told /\ \A e \in In(n) : queue[e] = 0 /\ e \notin closed
    \/ n \in inFlag /\ In(n) = {}

ThreadExit(n) ==
    /\ n \notin Source
    /\ ThreadStops(n) /\ Goto(n, "idle", "over")
    /\ UNCHANGED <<svars, state, flags, paused, open>>
    /\ UNCHANGED <<evars, fresh, events, cvars, hvars>>

Fail(n) ==
    /\ n \in faulty \cap Box
    /\ Goto(n, "hold", "over")
    /\ UNCHANGED <<svars, state, flags, paused, open>>
    /\ UNCHANGED <<evars, fresh, events, cvars, hvars>>

-----------------------------------------------------------------------------
(* The end of a node's goroutine.                                          *)

\* dataDestinations.Close of node n, which waits for a Write in progress.
CloseOut(n) ==
    /\ ~Writing(n)
    /\ open' = open \ {n}
    /\ paused' = paused \ {n}
    /\ link' = link \ Out(n)
    /\ closed' = closed \cup Out(n)

\* The last part of pour: every input is closed and left to a draining goroutine.
PourEnd(n) ==
    /\ n \notin Source
    /\ Goto(n, "over", "ended")
    /\ closing' = closing \cup (In(n) \ closed)
    /\ UNCHANGED <<svars, state, flags, paused, open>>
    /\ UNCHANGED <<link, closed, queue, attached, removing, todo, sending, found>>
    /\ UNCHANGED <<fresh, events, cvars, hvars>>

CloseOutput(n) ==
    /\ n \notin Sink
    /\ CloseOut(n)
    /\ Goto(n, IF n \in Source THEN "over" ELSE "ended", "closed")
    /\ UNCHANGED <<svars, state, flags, queue, attached, closing, removing, todo, sending, found>>
    /\ UNCHANGED <<fresh, events, cvars, hvars>>

SetStopped(n) ==
    /\ Goto(n, IF n \in Sink THEN "ended" ELSE "closed", "done")
    /\ state' = [state EXCEPT ![n] = SetWithoutLock(@, TSStopped)]
    /\ UNCHANGED <<svars, flags, paused, open, evars, fresh, events, cvars, hvars>>

\* The goroutine started by AddSource, AddBox or AddSink ends with Remove(name)
\* if the node has to be removed.
CheckRemove(n) ==
    /\ Goto(n, "done", "gone")
    /\ pc' = IF n \in removeOnStop THEN [pc EXCEPT ![<<"self", n>>] = "remove"] ELSE pc
    /\ UNCHANGED <<svars, state, flags, paused, open, evars, fresh, events, at, left, scenario, hvars>>

-----------------------------------------------------------------------------
(* Stopping a node.  A source holds its stateMutex while its Source is      *)
(* stopped; a box or a sink goes on with dataSources.stop (SrcsStop).       *)

StopNode(n) ==
    \/ /\ state[n] \in Running
       /\ state' = [state EXCEPT ![n] = TSStopping]
       /\ told' = told \cup ({n} \cap (Source \ faulty))
       /\ \/ /\ n \in Source /\ (state[n] = TSPaused \/ n \in faulty)
             /\ CloseOut(n)
          \/ /\ ~(n \in Source /\ (state[n] = TSPaused \/ n \in faulty))
             /\ UNCHANGED <<paused, open, link, closed>>
    \/ /\ state[n] \notin Running
       /\ UNCHANGED <<state, told, paused, open, link, closed>>

\* dstCallback(ddeDisconnect)
Callback(n) ==
    /\ events[n] > 0
    /\ events' = [events EXCEPT ![n] = @ - 1]
    /\ \/ n \in outFlag /\ StopNode(n)
       \/ n \notin outFlag /\ UNCHANGED <<state, told, paused, open, link, closed>>
    /\ UNCHANGED <<svars, run, inFlag, outFlag, graceful, removeOnStop>>
    /\ UNCHANGED <<queue, attached, closing, removing, todo, sending, found, fresh, cvars, hvars>>

-----------------------------------------------------------------------------
(* Calls.                                                                  *)

Step(o, from, to) ==
    /\ pc[o] = from
    /\ pc' = [pc EXCEPT ![o] = to]

Return(o) == IF o[1] = "stop" THEN "next" ELSE "done"

\* n.Stop(), reached from Remove, StopOnDisconnect or Topology.Stop: the call
\* returns when the node is stopped, or at once when its Source cannot be.
StopCall(o) ==
    /\ pc[o] = "stop"
    /\ StopNode(at[o])
    /\ Step(o, "stop", IF at[o] \in Source \cap faulty /\ state[at[o]] \in Running
                       THEN Return(o) ELSE "wait")
    /\ UNCHANGED <<svars, run, inFlag, outFlag, graceful, removeOnStop>>
    /\ UNCHANGED <<queue, attached, closing, removing, todo, sending, found, fresh, events>>
    /\ UNCHANGED <<at, left, scenario, hvars>>

StopReturns(o) ==
    /\ pc[o] = "wait" /\ state[at[o]] = TSStopped
    /\ Step(o, "wait", Return(o))
    /\ UNCHANGED <<svars, nvars, evars, fresh, events, at, left, scenario, hvars>>

\* AddSource, AddBox and AddSink return when the node runs, or is paused if the
\* source has PausedOnStartup; they fail when the topology is stopped or the name
\* is used.
Add(o, n) ==
    /\ mutex = None
    /\ Step(o, "ready", "done")
    /\ \/ /\ topology < TSStopping /\ \A m \in registered : NameOf[m] # NameOf[n]
          /\ registered' = registered \cup {n}
          /\ \E p \in SUBSET ({n} \cap Source) :
                /\ state' = [state EXCEPT ![n] = IF n \in p THEN TSPaused ELSE TSRunning]
                /\ paused' = paused \cup p
          /\ run' = [run EXCEPT ![n] = "idle"]
          /\ open' = open \cup ({n} \ Sink)
       \/ /\ topology >= TSStopping \/ \E m \in registered : NameOf[m] = NameOf[n]
          /\ UNCHANGED <<registered, state, run, paused, open>>
    /\ UNCHANGED <<topology, mutex, flags, evars, fresh, events, at, left, scenario, hvars>>

\* Input: finds the data source under the lock of the topology ...
Lookup(o, e) ==
    /\ mutex = None /\ state[e[2]] # TSInitialized
    /\ Step(o, "ready", IF e[1] \in registered THEN "connect" ELSE "done")
    /\ UNCHANGED <<svars, nvars, evars, fresh, events, at, left, scenario, hvars>>

\* ... and connects to it later; the pipe is taken back when the node refuses it.
Connect(o, e) ==
    /\ Step(o, "connect", "done")
    /\ \/ /\ e[1] \in open /\ ~Writing(e[1]) /\ e[2] \notin told /\ Pouring(e[2])
          /\ link' = link \cup {e}
          /\ attached' = attached \cup {e}
          /\ UNCHANGED events
       \/ /\ e[1] \in open /\ ~Writing(e[1]) /\ (e[2] \in told \/ ~Pouring(e[2]))
          /\ events' = IF Out(e[1]) = {} THEN [events EXCEPT ![e[1]] = @ + 1] ELSE events
          /\ UNCHANGED <<link, attached>>
       \/ /\ e[1] \notin open
          /\ UNCHANGED <<link, attached, events>>
    /\ UNCHANGED <<svars, nvars, closed, queue, closing, removing, todo, sending, found>>
    /\ UNCHANGED <<fresh, at, left, scenario, hvars>>

\* Topology.Remove takes the node of that name out of the map, then stops it; it
\* is called by a user, or by the goroutine of a stopped node.
RemoveNode(o) ==
    /\ mutex = None
    /\ \/ \E m \in registered :
             /\ NameOf[m] = NameOf[o[2]]
             /\ registered' = registered \ {m}
             /\ at' = [at EXCEPT ![o] = m]
             /\ Step(o, pc[o], "stop")
       \/ /\ \A m \in registered : NameOf[m] # NameOf[o[2]]
          /\ Step(o, pc[o], "done")
          /\ UNCHANGED <<registered, at>>
    /\ UNCHANGED <<topology, mutex, nvars, evars, fresh, events, left, scenario, hvars>>

\* Mutant: only the goroutine of the node looks at the flag.
RemoveOnStopLater(o, n) ==
    /\ state[n] # TSInitialized
    /\ Step(o, "ready", "done")
    /\ removeOnStop' = removeOnStop \cup {n}
    /\ UNCHANGED <<svars, state, run, told, inFlag, outFlag, graceful, paused, open>>
    /\ UNCHANGED <<evars, fresh, events, at, left, scenario, hvars>>

\* RemoveOnStop of a node that may have stopped already.
RemoveOnStop(o, n) ==
    /\ state[n] # TSInitialized
    /\ Step(o, "ready", IF state[n] = TSStopped THEN "remove" ELSE "done")
    /\ removeOnStop' = removeOnStop \cup {n}
    /\ UNCHANGED <<svars, state, run, told, inFlag, outFlag, graceful, paused, open>>
    /\ UNCHANGED <<evars, fresh, events, at, left, scenario, hvars>>

\* StopOnDisconnect: the node's flag, then the message to its pouring thread,
\* then the number of destinations.  Sources have no thread, sinks no outputs.
StopOnDisconnect(o, n) ==
    /\ Step(o, pc[o], IF n \in Source THEN "len" ELSE "msg")
    /\ at' = [at EXCEPT ![o] = n]
    /\ outFlag' = outFlag \cup ({n} \ Sink)
    /\ UNCHANGED <<svars, state, run, told, inFlag, graceful, removeOnStop, paused, open>>
    /\ UNCHANGED <<evars, fresh, events, left, scenario, hvars>>

Message(o) ==
    /\ pc[o] = "msg"
    /\ Step(o, "msg", IF at[o] \in Sink THEN Return(o) ELSE "len")
    /\ \/ run[at[o]] = "idle" /\ inFlag' = inFlag \cup {at[o]}
       \/ run[at[o]] \notin {"idle", "hold", "write"} /\ UNCHANGED inFlag
    /\ UNCHANGED <<svars, state, run, told, outFlag, graceful, removeOnStop, paused, open>>
    /\ UNCHANGED <<evars, fresh, events, at, left, scenario, hvars>>

CountOutputs(o) ==
    /\ pc[o] = "len"
    /\ Step(o, "len", IF Out(at[o]) = {} THEN "stop" ELSE Return(o))
    /\ UNCHANGED <<svars, nvars, evars, fresh, events, at, left, scenario, hvars>>

EnableGracefulStop(o, n) ==
    /\ state[n] # TSInitialized
    /\ Step(o, "ready", "done")
    /\ \/ run[n] = "idle" /\ graceful' = graceful \cup {n}
       \/ run[n] \notin {"idle", "hold", "write"} /\ UNCHANGED graceful
    /\ UNCHANGED <<svars, state, run, told, inFlag, outFlag, removeOnStop, paused, open>>
    /\ UNCHANGED <<evars, fresh, events, at, left, scenario, hvars>>

\* Pause waits for a Write in progress; a stopping source cannot be paused.
Pause(o, n) ==
    /\ state[n] # TSInitialized
    /\ Step(o, "ready", "done")
    /\ \/ /\ state[n] = TSRunning /\ ~Writing(n)
          /\ state' = [state EXCEPT ![n] = TSPaused]
          /\ paused' = paused \cup {n}
       \/ state[n] # TSRunning /\ UNCHANGED <<state, paused>>
    /\ UNCHANGED <<svars, run, flags, open, evars, fresh, events, at, left, scenario, hvars>>

Resume(o, n) ==
    /\ state[n] # TSInitialized
    /\ Step(o, "ready", "done")
    /\ \/ /\ state[n] = TSPaused
          /\ state' = [state EXCEPT ![n] = TSRunning]
          /\ paused' = paused \ {n}
       \/ state[n] # TSPaused /\ UNCHANGED <<state, paused>>
    /\ UNCHANGED <<svars, run, flags, open, evars, fresh, events, at, left, scenario, hvars>>

-----------------------------------------------------------------------------
(* Topology.Stop, with nodeMutex locked from the first to the last step:   *)
(* the sources are stopped one after the other, then every box and every   *)
(* sink is told to stop on disconnect, then all of them are waited for.    *)

StopBegin(o) ==
    /\ o[1] = "stop" /\ mutex = None
    /\ \/ /\ topology = TSRunning
          /\ Step(o, "ready", "next")
          /\ topology' = TSStopping
          /\ mutex' = o
          /\ left' = registered
          /\ quiet' = \A c \in (Op \cup Self) \ {o} : pc[c] \in {"off", "ready", "done"}
          /\ atStop' = {e \in link : e[1] \in registered /\ e[2] \in registered}
       \/ /\ topology = TSStopped
          /\ Step(o, "ready", "done")
          /\ UNCHANGED <<topology, mutex, left, quiet, atStop>>
    /\ UNCHANGED <<registered, nvars, evars, fresh, events, at, scenario, lost>>

\* The next node to handle: sources before boxes before sinks.
StopOrder(n) ==
    /\ n \in Box => left \cap Source = {}
    /\ n \in Sink => left \cap (Source \cup Box) = {}

StopNext(o, n) ==
    /\ StopOrder(n)
    /\ Step(o, "next", IF n \in Source THEN "stop" ELSE "flag")
    /\ left' = left \ {n}
    /\ at' = [at EXCEPT ![o] = n]
    /\ UNCHANGED <<svars, nvars, evars, fresh, events, scenario, hvars>>

\* Mutant: nobody waits for the sinks.
StopEndEarly(o) ==
    /\ left = {}
    /\ \A n \in registered \cap Box : state[n] = TSStopped
    /\ Step(o, "next", "done")
    /\ registered' = {}
    /\ topology' = SetWithoutLock(topology, TSStopped)
    /\ mutex' = None
    /\ UNCHANGED <<nvars, evars, fresh, events, at, left, scenario, hvars>>

StopEnd(o) ==
    /\ left = {}
    /\ \A n \in registered \ Source : state[n] = TSStopped
    /\ Step(o, "next", "done")
    /\ registered' = {}
    /\ topology' = SetWithoutLock(topology, TSStopped)
    /\ mutex' = None
    /\ UNCHANGED <<nvars, evars, fresh, events, at, left, scenario, hvars>>

-----------------------------------------------------------------------------
PipeStep(e) == Sent(e) \/ SenderClose(e) \/ RemoveLink(e) \/ Drain(e)

InputStep(n) == \E e \in Edge : Take(n, e) \/ DropInput(n, e)

NodeStep(n) ==
    \/ StartWrite(n) \/ WriteEnd(n) \/ \E e \in Edge : Send(n, e)
    \/ Look(n) \/ SrcsStop(n) \/ ThreadExit(n)
    \/ PourEnd(n) \/ CloseOutput(n) \/ SetStopped(n) \/ CheckRemove(n) \/ Callback(n)

CallStep(o) ==
    \/ StopCall(o) \/ StopReturns(o) \/ Message(o) \/ CountOutputs(o)
    \/ pc[o] = "remove" /\ RemoveNode(o)
    \/ pc[o] = "flag" /\ StopOnDisconnect(o, at[o])
    \/ pc[o] = "connect" /\ Connect(o, o[2])
    \/ pc[o] = "next" /\ (StopEnd(o) \/ \E n \in left : StopNext(o, n))

Begin(o) ==
    \/ StopBegin(o)
    \/ o[1] = "remove" /\ RemoveNode(o)
    \/ o[1] = "input" /\ Lookup(o, o[2])
    \/ o[1] = "add" /\ Add(o, o[2])
    \/ o[1] = "removeOnStop" /\ RemoveOnStop(o, o[2])
    \/ o[1] = "disconnect" /\ state[o[2]] # TSInitialized /\ StopOnDisconnect(o, o[2])
    \/ o[1] = "graceful" /\ EnableGracefulStop(o, o[2])
    \/ o[1] = "pause" /\ Pause(o, o[2])
    \/ o[1] = "resume" /\ Resume(o, o[2])

\* Steps of goroutines that do not wait for anything outside.
GoOn ==
    \/ \E e \in Edge : PipeStep(e)
    \/ \E n \in Node : InputStep(n) \/ NodeStep(n)
    \/ \E n \in told \cap Source : SourceReturns(n)
    \/ \E o \in Op \cup Self : pc[o] \notin {"off", "ready", "done"} /\ CallStep(o)

Next ==
    \/ GoOn
    \/ \E n \in Source : Emit(n) \/ SourceReturns(n)
    \/ \E n \in Node : Fail(n)
    \/ \E o \in Op : pc[o] = "ready" /\ Begin(o)

Spec == Init /\ [][Next]_vars

\* The scheduler runs goroutines as long as one of them can go on.  Which calls
\* are made, when sources generate tuples and which node fails is open; a source
\* that was told to stop returns.  Every behaviour takes finitely many steps, so
\* this is all the fairness that is needed.
FairSpec == Spec /\ WF_vars(GoOn)

-----------------------------------------------------------------------------
RunPoints == {"none", "idle", "look", "hold", "write", "over", "ended", "closed", "done", "gone"}
CallPoints == {"off", "ready", "remove", "connect", "flag", "msg", "len", "stop", "wait", "next", "done"}

\* Every variable has its type, and no pipe holds more than its capacity.
TypeOK ==
    /\ topology \in TopologyStates /\ mutex \in Op \cup {None} /\ registered \subseteq Node
    /\ state \in [Node -> TopologyStates] /\ run \in [Node -> RunPoints]
    /\ \A s \in {told, inFlag, outFlag, graceful, removeOnStop, paused, open, left} : s \subseteq Node
    /\ \A s \in {link, closed, attached, closing, removing, todo, sending, found, atStop, lost} : s \subseteq Edge
    /\ queue \in [Edge -> 0..Capacity]
    /\ fresh \in [Source -> 0..MaxTuple] /\ events \in [Node -> Nat]
    /\ pc \in [Op \cup Self -> CallPoints] /\ at \in [Op \cup Self -> Node \cup {None}]
    /\ calls \subseteq Op /\ faulty \subseteq Node /\ watcher \subseteq Source /\ quiet \in BOOLEAN

\* The edges of the topology when Stop began lead from n to a sink.
SinkBelow(n) ==
    \A S \in SUBSET Node :
        n \in S /\ (\A e \in atStop : e[1] \in S => e[2] \in S) => S \cap Sink # {}

\* Topology.Stop "stops after all tuples generated from Sources at the time of
\* the invocation are written into Sinks": with pipes that block when they are
\* full, no tuple is discarded on an edge that leads to a sink, provided that no
\* other call was in progress and no node fails.
StopLosesNothing ==
    quiet /\ faulty = {} => \A e \in lost : ~SinkBelow(e[2])

\* When Topology.Stop has returned no node is running any more, except those that
\* a Remove has taken out of the maps and is stopping, and sources that cannot be
\* stopped.
StopLeavesNothingRunning ==
    topology = TSStopped =>
        \A n \in Node :
            \/ state[n] \in {TSInitialized, TSStopped}
            \/ n \in faulty \cap Source
            \/ \E o \in Op \cup Self : at[o] = n /\ pc[o] \in {"stop", "wait"}

\* Stop ends with everything stopped, and the variables keep their types.
StopIsClean == TypeOK /\ StopLeavesNothingRunning

\* Every call returns: Stop, Remove, StopOnDisconnect and the others wait for
\* goroutines that wait for pipes, messages and locks of each other.  Each call is
\* made once, so that eventually none is in progress.
CallsReturn ==
    <>[](\A o \in Op \cup Self : pc[o] \in {"off", "ready", "done"})

\* A node that has been told to stop when its outputs are gone does stop,
\* whichever of StopOnDisconnect and the last disconnection comes first.
DisconnectedNodeStops ==
    <>[](\A n \in outFlag : Out(n) = {} => state[n] = TSStopped)

\* A node that has to be removed when it stops leaves the topology, whether
\* RemoveOnStop is called before or after it has stopped.
StoppedNodeIsRemoved ==
    <>[](\A n \in removeOnStop : state[n] = TSStopped => n \notin registered)

\* Nodes go by themselves when they are told to: StopOnDisconnect(Outbound) stops them
\* and RemoveOnStop removes them, whatever happens first.
NodesGo == DisconnectedNodeStops /\ StoppedNodeIsRemoved
=============================================================================
