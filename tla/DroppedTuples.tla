---------------------------- MODULE DroppedTuples ----------------------------
(***************************************************************************)
(* Tuples that are dropped and the collectors that report them: the flags of *)
(* a tuple (core/tuple.go), the drop modes of a pipe (core/pipe.go), and      *)
(* droppedTuple with droppedTupleCollectorSource (core/context.go).          *)
(*                                                                         *)
(* A tuple is an object of the heap, as in the code: queues hold references, *)
(* and what is written through one of them is seen through the others.       *)
(* Pipes and the outputs of collectors are never closed here; see            *)
(* DataDestinations for that.                                               *)
(***************************************************************************)
EXTENDS TopologyState, Sequences, FiniteSets

CONSTANTS
    Scenarios,      \* the writing goroutines of a node, how many tuples they write in all
                    \* (max), the pipes with their drop modes, the collectors,
                    \* DestinationlessTupleLog
    QueueSize       \* the capacity of a pipe

ASSUME DroppedAssumption ==
    /\ QueueSize \in Nat \ {0}
    /\ \A s \in Scenarios :
           /\ DOMAIN s = {"writers", "max", "mode", "collectors", "log"}
           /\ s.max \in Nat /\ s.log \in BOOLEAN
           /\ \A p \in DOMAIN s.mode : s.mode[p] \in {"DropNone", "DropLatest", "DropOldest"}

VARIABLES
    sc,         \* the scenario
    heap,       \* the tuples: whose content they have, how often it is wrapped, their flags
    queue,      \* pipe or collector -> references in the queue of its output
    made,       \* the number of tuples made by the writers
    act,        \* goroutine -> what it does
    readers,    \* goroutines that hold dtMutex for reading
    pending,    \* goroutines that wait for dtMutex to write
    dtSources,  \* the registered collectors
    cs,         \* collector -> its state
    sm,         \* collector -> the owner of its mutex m
    gpc,        \* collector -> where its GenerateStream is
    spc,        \* collector -> where its Stop is
    drops,      \* history: tuple -> how often it was dropped
    got,        \* history: pipe -> what its receiver got
    sent        \* history: collector -> what was reported to it

flowVars == <<heap, queue, made, act, drops, got, sent>>
lifeVars == <<cs, sm, gpc, spc>>
vars == <<sc, flowVars, readers, pending, dtSources, lifeVars>>

Pipes == DOMAIN sc.mode
Outputs == Pipes \cup sc.collectors
Goroutines == sc.writers \cup Outputs      \* the receiver of an output is named after it

Idle == [pc |-> "idle", t |-> 0, todo |-> {}, dt |-> 0, to |-> {}]

Init ==
    /\ sc \in Scenarios
    /\ heap = <<>> /\ made = 0
    /\ queue = [o \in Outputs |-> <<>>]
    /\ act = [g \in Goroutines |-> Idle]
    /\ readers = {} /\ pending = {} /\ dtSources = {}
    /\ cs = [c \in sc.collectors |-> TSInitialized]
    /\ sm = [c \in sc.collectors |-> "free"]
    /\ gpc = [c \in sc.collectors |-> "none"]
    /\ spc = [c \in sc.collectors |-> "none"]
    /\ drops = [k \in 1..sc.max |-> 0]
    /\ got = [p \in Pipes |-> <<>>]
    /\ sent = [c \in sc.collectors |-> <<>>]

-----------------------------------------------------------------------------
(* Flags.  Set means to add TFSharedData with TFShared but does not.          *)

Set(h, t, f) == [h EXCEPT ![t].flags = @ \cup {f}]
IsSet(h, t, f) == f \in h[t].flags

\* Mutant: the copy's data is not marked.
MShallowCopy(h, t) ==
    Append(h, [h[t] EXCEPT !.flags = @ \ {"TFShared"}])

\* The heap with a shallow copy of t at its end.
ShallowCopy(h, t) ==
    LET marked == Set(h, t, "TFSharedData")
    IN  Append(marked, [marked[t] EXCEPT !.flags = @ \ {"TFShared"}])

\* The heap and the reference that pipeSender.write puts into the queue for t.
ForPipe(h, t) ==
    IF IsSet(h, t, "TFShared")
    THEN [heap |-> ShallowCopy(h, t), ref |-> Len(h) + 1]
    ELSE [heap |-> h, ref |-> t]

Content(t) == [of |-> heap[t].of, wraps |-> heap[t].wraps]
Full(o) == Len(queue[o]) = QueueSize

-----------------------------------------------------------------------------
(* dataDestinations.Write and pipeSender.write                               *)

\* What a goroutine does after droppedTuple: the rest of Write's loop, if any.
Back(a) == [a EXCEPT !.pc = IF a.todo = {} THEN "idle" ELSE "write", !.dt = 0]

Dropped(t) == drops' = [drops EXCEPT ![heap[t].of] = @ + 1]

Write(w) ==
    /\ act[w].pc = "idle" /\ made < sc.max
    /\ made' = made + 1
    /\ heap' = Append(heap, [of |-> made', wraps |-> 0,
                             flags |-> IF Cardinality(Pipes) > 1 THEN {"TFShared"} ELSE {}])
    /\ \/ /\ Pipes # {}
          /\ act' = [act EXCEPT ![w] = [Idle EXCEPT !.pc = "write", !.t = Len(heap'), !.todo = Pipes]]
          /\ UNCHANGED drops
       \/ /\ Pipes = {} /\ sc.log
          /\ act' = [act EXCEPT ![w] = [Idle EXCEPT !.pc = "report", !.t = Len(heap')]]
          /\ drops' = [drops EXCEPT ![made'] = @ + 1]
       \/ /\ Pipes = {} /\ ~sc.log
          /\ UNCHANGED <<act, drops>>
    /\ UNCHANGED <<sc, queue, got, sent, readers, pending, dtSources, lifeVars>>

Send(w, p) ==
    /\ act[w].pc = "write" /\ p \in act[w].todo /\ ~Full(p)
    /\ LET out == ForPipe(heap, act[w].t)
       IN  heap' = out.heap /\ queue' = [queue EXCEPT ![p] = Append(@, out.ref)]
    /\ act' = [act EXCEPT ![w] = Back([@ EXCEPT !.todo = @ \ {p}])]
    /\ UNCHANGED <<sc, made, drops, got, sent, readers, pending, dtSources, lifeVars>>

DropLatest(w, p) ==
    /\ act[w].pc = "write" /\ p \in act[w].todo
    /\ Full(p) /\ sc.mode[p] = "DropLatest"
    /\ heap' = ForPipe(heap, act[w].t).heap
    /\ Dropped(act[w].t)
    /\ act' = [act EXCEPT ![w].todo = @ \ {p}, ![w].pc = "report"]
    /\ UNCHANGED <<sc, queue, made, got, sent, readers, pending, dtSources, lifeVars>>

\* The oldest tuple leaves the queue; reportFunc reports the tuple being written.
DropOldest(w, p) ==
    /\ act[w].pc = "write" /\ p \in act[w].todo
    /\ Full(p) /\ sc.mode[p] = "DropOldest"
    /\ Dropped(Head(queue[p]))
    /\ queue' = [queue EXCEPT ![p] = Tail(@)]
    /\ act' = [act EXCEPT ![w].pc = "report"]
    /\ UNCHANGED <<sc, heap, made, got, sent, readers, pending, dtSources, lifeVars>>

-----------------------------------------------------------------------------
(* droppedTuple                                                             *)

\* The report made of t: its data becomes a map around the old one.  dt is t itself
\* unless t is shared.
ReportOf(t) ==
    LET shared == IsSet(heap, t, "TFShared")
        h == IF shared THEN ShallowCopy(heap, t) ELSE heap
        dt == IF shared THEN Len(h) ELSE t
        marks == {"TFDropped"} \cup (IF Cardinality(dtSources) > 1 THEN {"TFShared"} ELSE {})
    IN  [heap |-> [h EXCEPT ![dt].wraps = @ + 1, ![dt].flags = @ \cup marks], ref |-> dt]

\* "avoid infinite reporting"
IsReport(t) == IsSet(heap, t, "TFDropped")

\* dtMutex.RLock: a waiting writer keeps new readers out.
DroppedTuple(g) ==
    /\ act[g].pc = "report"
    /\ \/ /\ IsReport(act[g].t) \/ (pending = {} /\ dtSources = {})
          /\ act' = [act EXCEPT ![g] = Back(@)]
          /\ UNCHANGED <<heap, readers>>
       \/ /\ ~IsReport(act[g].t) /\ pending = {} /\ dtSources # {}
          /\ readers' = readers \cup {g}
          /\ LET report == ReportOf(act[g].t)
             IN  /\ heap' = report.heap
                 /\ act' = [act EXCEPT ![g].pc = "collect", ![g].to = dtSources, ![g].dt = report.ref]
    /\ UNCHANGED <<sc, queue, made, drops, got, sent, pending, dtSources, lifeVars>>

\* s.w.Write for one collector, with dtMutex locked for reading; RUnlock after the last.
Collect(g, c) ==
    /\ act[g].pc = "collect" /\ c \in act[g].to /\ ~Full(c)
    /\ LET out == ForPipe(heap, act[g].dt)
           left == act[g].to \ {c}
       IN  /\ heap' = out.heap
           /\ queue' = [queue EXCEPT ![c] = Append(@, out.ref)]
           /\ act' = [act EXCEPT ![g] = IF left = {} THEN Back([@ EXCEPT !.to = {}])
                                                   ELSE [@ EXCEPT !.to = left]]
           /\ readers' = IF left = {} THEN readers \ {g} ELSE readers
    /\ sent' = [sent EXCEPT ![c] = Append(@, Content(act[g].dt))]
    /\ UNCHANGED <<sc, made, drops, got, pending, dtSources, lifeVars>>

\* A receiver (external) takes a tuple and processes it; when that fails, its node
\* reports the tuple as dropped.
Receive(o, fails) ==
    /\ act[o].pc = "idle" /\ queue[o] # <<>>
    /\ LET t == Head(queue[o])
       IN  /\ queue' = [queue EXCEPT ![o] = Tail(@)]
           /\ act' = IF fails THEN [act EXCEPT ![o] = [Idle EXCEPT !.pc = "report", !.t = t]] ELSE act
           /\ IF fails /\ o \in Pipes THEN Dropped(t) ELSE UNCHANGED drops
           /\ got' = IF o \in Pipes THEN [got EXCEPT ![o] = Append(@, Content(t))] ELSE got
    /\ UNCHANGED <<sc, heap, made, sent, readers, pending, dtSources, lifeVars>>

-----------------------------------------------------------------------------
(* droppedTupleCollectorSource: GenerateStream and Stop, each called once      *)

GenerateStream(c) ==
    /\ gpc[c] = "none" /\ sm[c] = "free"
    /\ \/ /\ cs[c] >= TSStopping
          /\ gpc' = [gpc EXCEPT ![c] = "refused"]
          /\ UNCHANGED <<sm, pending>>
       \/ /\ cs[c] < TSStopping
          /\ gpc' = [gpc EXCEPT ![c] = "add"]
          /\ sm' = [sm EXCEPT ![c] = "generate"]
          /\ pending' = pending \cup {<<"add", c>>}
    /\ UNCHANGED <<sc, flowVars, readers, dtSources, cs, spc>>

AddDroppedTupleSource(c) ==
    /\ gpc[c] = "add" /\ readers = {}
    /\ pending' = pending \ {<<"add", c>>}
    /\ dtSources' = dtSources \cup {c}
    /\ cs' = [cs EXCEPT ![c] = SetWithoutLock(@, TSRunning)]
    /\ gpc' = [gpc EXCEPT ![c] = "wait"]
    /\ sm' = [sm EXCEPT ![c] = "free"]
    /\ UNCHANGED <<sc, flowVars, readers, spc>>

GenerateReturns(c) ==
    /\ gpc[c] = "wait" /\ sm[c] = "free" /\ WaitDone(cs[c], TSStopping)
    /\ cs' = [cs EXCEPT ![c] = SetWithoutLock(@, TSStopped)]
    /\ gpc' = [gpc EXCEPT ![c] = "returned"]
    /\ UNCHANGED <<sc, flowVars, readers, pending, dtSources, sm, spc>>

Stop(c) ==
    /\ spc[c] = "none" /\ sm[c] = "free"
    /\ spc' = [spc EXCEPT ![c] = "remove"]
    /\ sm' = [sm EXCEPT ![c] = "stop"]
    /\ pending' = pending \cup {<<"remove", c>>}
    /\ UNCHANGED <<sc, flowVars, readers, dtSources, cs, gpc>>

\* Mutants: dtMutex stays locked; the map is changed without waiting for the readers.
MRemoveKeepsLock(c) ==
    /\ spc[c] = "remove" /\ readers = {}
    /\ dtSources' = dtSources \ {c}
    /\ cs' = [cs EXCEPT ![c] = SetWithoutLock(@, TSStopping)]
    /\ spc' = [spc EXCEPT ![c] = "wait"]
    /\ sm' = [sm EXCEPT ![c] = "free"]
    /\ UNCHANGED <<sc, flowVars, readers, pending, gpc>>

MRemoveUnlocked(c) ==
    /\ spc[c] = "remove"
    /\ pending' = pending \ {<<"remove", c>>}
    /\ dtSources' = dtSources \ {c}
    /\ cs' = [cs EXCEPT ![c] = SetWithoutLock(@, TSStopping)]
    /\ spc' = [spc EXCEPT ![c] = "wait"]
    /\ sm' = [sm EXCEPT ![c] = "free"]
    /\ UNCHANGED <<sc, flowVars, readers, gpc>>

RemoveDroppedTupleSource(c) ==
    /\ spc[c] = "remove" /\ readers = {}
    /\ pending' = pending \ {<<"remove", c>>}
    /\ dtSources' = dtSources \ {c}
    /\ cs' = [cs EXCEPT ![c] = SetWithoutLock(@, TSStopping)]
    /\ spc' = [spc EXCEPT ![c] = "wait"]
    /\ sm' = [sm EXCEPT ![c] = "free"]
    /\ UNCHANGED <<sc, flowVars, readers, gpc>>

StopReturns(c) ==
    /\ spc[c] = "wait" /\ sm[c] = "free" /\ WaitDone(cs[c], TSStopped)
    /\ spc' = [spc EXCEPT ![c] = "returned"]
    /\ UNCHANGED <<sc, flowVars, readers, pending, dtSources, cs, sm, gpc>>

-----------------------------------------------------------------------------
GoOn(g) ==
    \/ \E p \in Pipes : Send(g, p) \/ DropLatest(g, p) \/ DropOldest(g, p)
    \/ DroppedTuple(g)
    \/ \E c \in sc.collectors : Collect(g, c)
Receiver(o) == \E fails \in BOOLEAN : Receive(o, fails)
Life(c) ==
    \/ GenerateStream(c) \/ AddDroppedTupleSource(c) \/ GenerateReturns(c)
    \/ RemoveDroppedTupleSource(c) \/ StopReturns(c)

Next ==
    \/ \E w \in sc.writers : Write(w)
    \/ \E g \in Goroutines : GoOn(g)
    \/ \E o \in Outputs : Receiver(o)
    \/ \E c \in sc.collectors : Life(c) \/ Stop(c)

\* Goroutines that can go on do so, receivers included; nobody has to write or stop.
AllGoroutines == UNION {s.writers \cup DOMAIN s.mode \cup s.collectors : s \in Scenarios}
Fairness ==
    \A g \in AllGoroutines :
        /\ WF_vars(g \in Goroutines /\ (GoOn(g) \/ (g \in Outputs /\ Receiver(g))))
        /\ WF_vars(g \in sc.collectors /\ Life(g))

Spec == Init /\ [][Next]_vars /\ Fairness

-----------------------------------------------------------------------------
(* Properties                                                               *)

\* The variables have the types of their declarations.
TypeOK ==
    /\ \A t \in DOMAIN heap : heap[t].flags \subseteq {"TFDropped", "TFShared", "TFSharedData"}
    /\ \A o \in Outputs : Len(queue[o]) <= QueueSize /\ \A i \in DOMAIN queue[o] : queue[o][i] \in DOMAIN heap
    /\ \A g \in Goroutines : act[g].pc \in {"idle", "write", "report", "collect"}
    /\ readers = {g \in Goroutines : act[g].pc = "collect"}
    /\ \A c \in sc.collectors : cs[c] \in TopologyStates

\* The places that hold a reference to t: positions of queues, goroutines at work.
Holders(t) ==
    {<<o, i>> \in Outputs \X (1..QueueSize) : i \in DOMAIN queue[o] /\ queue[o][i] = t}
    \cup {<<g, 0>> : g \in {h \in Goroutines :
            \/ act[h].pc \in {"write", "report"} /\ act[h].t = t
            \/ act[h].pc = "collect" /\ act[h].dt = t}}

\* The flags tell what is shared: a tuple that two places refer to has TFShared, and
\* two live tuples with the same data both have TFShared or TFSharedData, so that no
\* receiver changes what another one reads (tuple.go, on the flags).
FlagsTellSharing ==
    LET live == {t \in DOMAIN heap : Holders(t) # {}}
        dataIsMarked(t) == {"TFShared", "TFSharedData"} \cap heap[t].flags # {}
    IN  /\ \A t \in live : Cardinality(Holders(t)) > 1 => IsSet(heap, t, "TFShared")
        /\ \A t, u \in live :
               (t # u /\ heap[t].of = heap[u].of) => dataIsMarked(t) /\ dataIsMarked(u)

\* A receiver gets what was written, each tuple once, and never a report in its place.
DeliveredAsWritten ==
    \A p \in Pipes : \A i \in DOMAIN got[p] :
        /\ got[p][i].wraps = 0
        /\ \A j \in DOMAIN got[p] : i # j => got[p][i].of # got[p][j].of

\* Dropping a tuple in one pipe, and reporting it, disturbs no receiver of another one.
ReceiversUndisturbed == TypeOK /\ FlagsTellSharing /\ DeliveredAsWritten

\* A collector reports tuples that were dropped, with their original content, and no
\* more often than they were: reports that are dropped are not reported again.
ReportsAreOfDrops ==
    \A c \in sc.collectors, k \in 1..made :
        LET about == {i \in DOMAIN sent[c] : sent[c][i].of = k}
        IN  /\ Cardinality(about) <= drops[k]
            /\ \A i \in about : sent[c][i].wraps = 1

\* Stop of a collector removes it before anything else: once it waits for
\* GenerateStream, no report is written to it any more.
NoReportAfterStop ==
    [][\A c \in DOMAIN spc : spc[c] \in {"wait", "returned"} => sent'[c] = sent[c]]_vars

\* What a collector writes are reports of real drops, and only until it is stopped.
ReportsAreTrue == []ReportsAreOfDrops /\ NoReportAfterStop

\* Stop came before GenerateStream, which then returns an error and leaves the
\* collector in TSStopping: Stop waits forever.
StoppedBeforeStream(c) == gpc[c] = "refused"

\* Stop of a collector returns although it waits for dtMutex, which others hold while
\* they write reports.  The exception is StoppedBeforeStream.
StopReturnsEventually ==
    (\E c \in sc.collectors : spc[c] = "remove")
        ~> \A c \in sc.collectors :
               spc[c] \in {"none", "returned"} \/ StoppedBeforeStream(c)

\* Every write and every report comes to its end: droppedTuple holds dtMutex while it
\* writes to the collectors, and no report makes it lock dtMutex a second time.
WritesReturn ==
    (\E g \in Goroutines : act[g].pc # "idle") ~> \A g \in Goroutines : act[g].pc = "idle"

\* Nobody hangs because of dtMutex: neither those that write nor those that stop a collector.
NobodyHangs == WritesReturn /\ StopReturnsEventually
=============================================================================
