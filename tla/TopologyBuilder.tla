-------------------------- MODULE TopologyBuilder --------------------------
(***************************************************************************)
(* TopologyBuilder (bql/topology_builder.go): the statements that add, connect *)
(* and remove nodes, executed by goroutines side by side, and the statements  *)
(* on states (SharedStates).                                               *)
(*                                                                         *)
(* The topology is abstract here: a registry of names, nodes, connections,    *)
(* nodes that stop when they are disconnected and are removed when they stop   *)
(* (Topology and DataDestinations have the details).  A step is one call of    *)
(* the topology or a node.                                                   *)
(*                                                                         *)
(* A relation of a SELECT is a stream, or a UDSF: [udsf |-> FALSE, name |-> x], *)
(* [udsf |-> TRUE, inputs |-> names]; without inputs a UDSF is a source.       *)
(***************************************************************************)
EXTENDS SharedStates

CONSTANTS InitialNodes      \* name -> kind: the nodes the topology starts with

VARIABLES
    nodeReg,    \* registry: name -> node
    nodes,      \* the nodes: name, kind, run state, flags, the statement that made it
    edges,      \* the connections: pairs of nodes
    removing,   \* stopped nodes that RemoveOnStop still has to remove
    async,      \* sinks of SELECTs: RemoveOnStop and StopOnDisconnect not yet called
    blocked,    \* goroutines whose SELECT's sink is blocked in Write
    bld,        \* goroutine -> local variables of its statement
    returned,   \* history: the statements that succeeded
    failed,     \* history: the statements that failed
    left        \* history: nodes that failing statements left behind

topoVars == <<nodeReg, nodes, edges, removing>>
buildVars == <<topoVars, async, blocked, bld, returned, failed, left>>
vars == <<stateVars, buildVars>>

UserName(n) == <<n, 0>>
TempName == <<"tmp", Len(nodes) + 1>>
Node(name, kind, state, by) ==
    [name |-> name, kind |-> kind, state |-> state, onDisconnect |-> {},
     removeOnStop |-> FALSE, by |-> by]

\* select: number of the current SELECT; box: its box; relation: number of the current
\* relation; udsf, inputs: the current UDSF's node and the inputs it still needs; temps:
\* names of UDSF nodes; paused: UDSF sources; names: finished boxes of a UNION or SELECT;
\* top: the forwarder or the sink.
NoBuild == [select |-> 1, box |-> 0, relation |-> 1, joined |-> {}, udsf |-> 0, inputs |-> {},
            temps |-> {}, paused |-> <<>>, names |-> <<>>, top |-> 0]

InitialSeq == CHOOSE s \in [1..Cardinality(DOMAIN InitialNodes) -> DOMAIN InitialNodes] :
                  \A i, j \in DOMAIN s : s[i] = s[j] => i = j

StateOps == {"createState", "dropState", "updateState", "saveState", "loadState"}
OnlyStates == \A g \in Goroutines : \A i \in DOMAIN prog[g] : prog[g][i].op \in StateOps

\* One storage is enough for statements on nodes.
Init ==
    /\ StateInit
    /\ OnlyStates \/ storage = CHOOSE s \in Storages : TRUE
    /\ nodes = [i \in DOMAIN InitialSeq |->
                   Node(UserName(InitialSeq[i]), InitialNodes[InitialSeq[i]], "running", <<>>)]
    /\ nodeReg = [n \in {UserName(m) : m \in DOMAIN InitialNodes} |->
                     CHOOSE i \in DOMAIN InitialSeq : UserName(InitialSeq[i]) = n]
    /\ edges = {} /\ removing = {} /\ async = {} /\ blocked = {}
    /\ bld = [g \in DOMAIN prog |-> NoBuild]
    /\ returned = {} /\ failed = {} /\ left = {}

This(g) == <<g, at[g]>>
Unregistered(n) == n \notin DOMAIN nodeReg
Lookup(kind, n) == n \in DOMAIN nodeReg /\ nodes[nodeReg[n]].kind = kind

\* AddSource, AddBox and AddSink fail when the name is taken.
Added(name, kind, state, g) ==
    /\ nodes' = Append(nodes, Node(name, kind, state, This(g)))
    /\ nodeReg' = [n \in DOMAIN nodeReg \cup {name} |-> IF n = name THEN Len(nodes') ELSE nodeReg[n]]
    /\ UNCHANGED <<edges, removing>>

\* Input: whether the node named n can be connected to node b.
CanInput(b, n) ==
    /\ n \in DOMAIN nodeReg
    /\ nodes[nodeReg[n]].kind \in {"source", "box"}
    /\ nodes[nodeReg[n]].state # "stopped" /\ nodes[b].state # "stopped"
    /\ <<nodeReg[n], b>> \notin edges

Connected(b, n) == edges' = edges \cup {<<nodeReg[n], b>>}

\* Nodes stop: their connections go, and RemoveOnStop is to remove them.
Stopped(ids) ==
    /\ nodes' = [i \in DOMAIN nodes |-> IF i \in ids THEN [nodes[i] EXCEPT !.state = "stopped"] ELSE nodes[i]]
    /\ edges' = {e \in edges : e[1] \notin ids /\ e[2] \notin ids}
    /\ removing' = removing \cup {i \in ids : nodes[i].removeOnStop /\ nodes[i].state # "stopped"}

\* Remove of the topology, by name.
Removed(names) ==
    LET known == names \cap DOMAIN nodeReg
    IN  /\ Stopped({nodeReg[n] : n \in known})
        /\ nodeReg' = [n \in DOMAIN nodeReg \ known |-> nodeReg[n]]

\* StopOnDisconnect and RemoveOnStop; on a node that has stopped, RemoveOnStop removes it.
Flagged(ids, dirs, remove) ==
    /\ nodes' = [i \in DOMAIN nodes |-> IF i \in ids
                    THEN [nodes[i] EXCEPT !.onDisconnect = @ \cup dirs, !.removeOnStop = @ \/ remove]
                    ELSE nodes[i]]
    /\ removing' = removing \cup {i \in ids : remove /\ nodes[i].state = "stopped"}
    /\ UNCHANGED <<nodeReg, edges>>

Succeed(g) ==
    /\ Return(g)
    /\ bld' = [bld EXCEPT ![g] = NoBuild]
    /\ returned' = returned \cup {This(g)} /\ UNCHANGED failed

Fail(g) ==
    /\ Return(g)
    /\ bld' = [bld EXCEPT ![g] = NoBuild]
    /\ failed' = failed \cup {This(g)} /\ UNCHANGED returned

Continue(g, label, locals) ==
    /\ Goto(g, label, NoLocals)
    /\ bld' = [bld EXCEPT ![g] = locals]
    /\ UNCHANGED <<returned, failed>>

UnchangedStates == UNCHANGED <<prog, regVars, storage, storeVars, crashed>>

-----------------------------------------------------------------------------
(* CREATE SOURCE, CREATE SINK, DROP, INSERT INTO, PAUSE and RESUME SOURCE.       *)

KindOf(op) == CASE op = "createSource" -> "source" [] op = "createSink" -> "sink"
                [] op = "dropSource" -> "source" [] op = "dropStream" -> "box"
                [] op = "dropSink" -> "sink" [] op = "insert" -> "sink"
                [] op = "pause" -> "source" [] op = "resume" -> "source"

\* The creator of the type may fail, too.
CreateNode(g) ==
    /\ IsRunning(g, "createSource") \/ IsRunning(g, "createSink")
    /\ pc[g] = "start"
    /\ \/ Fail(g) /\ UNCHANGED topoVars
       \/ /\ Unregistered(UserName(Stmt(g).name))
          /\ Added(UserName(Stmt(g).name), KindOf(Stmt(g).op), "running", g)
          /\ Succeed(g)
    /\ UNCHANGED <<async, blocked, left>> /\ UnchangedStates

\* The statements that look a node of a kind up first.
LookUp(g) ==
    /\ \E op \in {"dropSource", "dropStream", "dropSink", "insert", "pause", "resume"} : IsRunning(g, op)
    /\ pc[g] = "start"
    /\ LET n == UserName(Stmt(g).name)
       IN  IF Lookup(KindOf(Stmt(g).op), n)
           THEN Continue(g, Stmt(g).op, [NoBuild EXCEPT !.top = nodeReg[n]])
           ELSE Fail(g)
    /\ UNCHANGED <<topoVars, async, blocked, left>> /\ UnchangedStates

RemoveNode(g) ==
    /\ pc[g] \in {"dropSource", "dropStream", "dropSink"}
    /\ IF Unregistered(UserName(Stmt(g).name))
       THEN Fail(g) /\ UNCHANGED topoVars
       ELSE Removed({UserName(Stmt(g).name)}) /\ Succeed(g)
    /\ UNCHANGED <<async, blocked, left>> /\ UnchangedStates

InsertInto(g) ==
    /\ pc[g] = "insert"
    /\ IF CanInput(bld[g].top, UserName(Stmt(g).from))
       THEN Connected(bld[g].top, UserName(Stmt(g).from)) /\ Succeed(g)
       ELSE Fail(g) /\ UNCHANGED edges
    /\ UNCHANGED <<nodeReg, nodes, removing, async, blocked, left>> /\ UnchangedStates

PauseOrResume(g) ==
    /\ pc[g] \in {"pause", "resume"}
    /\ IF nodes[bld[g].top].state = "stopped"
       THEN Fail(g) /\ UNCHANGED nodes
       ELSE /\ nodes' = [nodes EXCEPT ![bld[g].top].state = IF pc[g] = "pause" THEN "paused" ELSE "running"]
            /\ Succeed(g)
    /\ UNCHANGED <<nodeReg, edges, removing, async, blocked, left>> /\ UnchangedStates

-----------------------------------------------------------------------------
(* CREATE STREAM AS SELECT, with and without UNION ALL, and SELECT.             *)

Relations(g) == Stmt(g).selects[bld[g].select]
BoxName(g) == nodes[bld[g].box].name
Is(g, op) == Stmt(g).op = op

StartStream(g) ==
    /\ IsRunning(g, "createStream") \/ IsRunning(g, "createUnion")
    /\ pc[g] = "start"
    /\ Continue(g, "addBox", NoBuild)
    /\ UNCHANGED <<topoVars, async, blocked, left>> /\ UnchangedStates

StartSelect(g) ==
    /\ IsRunning(g, "select") /\ pc[g] = "start"
    /\ Added(TempName, "sink", "running", g)
    /\ Continue(g, "addBox", [NoBuild EXCEPT !.top = Len(nodes')])
    /\ UNCHANGED <<async, blocked, left>> /\ UnchangedStates

HasSelfLoop(g, name) == \E i \in DOMAIN Relations(g) :
                            ~Relations(g)[i].udsf /\ UserName(Relations(g)[i].name) = name

\* AddBox and the check for a selfloop, which comes before anything is cleaned up.
AddBox(g) ==
    /\ pc[g] = "addBox"
    /\ LET name == IF Is(g, "createStream") THEN UserName(Stmt(g).name) ELSE TempName
       IN  \/ /\ ~Unregistered(name)
              /\ Continue(g, "undo", bld[g])
              /\ UNCHANGED <<topoVars, left>>
           \/ /\ Unregistered(name)
              /\ Added(name, "box", "running", g)
              /\ IF HasSelfLoop(g, name)
                 THEN Fail(g) /\ left' = left \cup {Len(nodes')}
                 ELSE /\ Continue(g, "relation", [bld[g] EXCEPT !.box = Len(nodes'), !.relation = 1])
                      /\ UNCHANGED left
    /\ UNCHANGED <<async, blocked>> /\ UnchangedStates

\* Mutant: every relation after the first counts as connected already.
MInputStream(g) ==
    /\ pc[g] = "relation" /\ bld[g].relation <= Len(Relations(g))
    /\ LET rel == Relations(g)[bld[g].relation]
           n == UserName(rel.name)
           next == [bld[g] EXCEPT !.relation = @ + 1, !.joined = @ \cup {n}]
       IN  /\ ~rel.udsf
           /\ \/ bld[g].joined # {} /\ Continue(g, "relation", next) /\ UNCHANGED edges
              \/ /\ bld[g].joined = {} /\ CanInput(bld[g].box, n)
                 /\ Connected(bld[g].box, n)
                 /\ Continue(g, "relation", next)
              \/ /\ bld[g].joined = {} /\ ~CanInput(bld[g].box, n)
                 /\ Continue(g, "undo", bld[g]) /\ UNCHANGED edges
    /\ UNCHANGED <<nodeReg, nodes, removing, async, blocked, left>> /\ UnchangedStates

InputStream(g) ==
    /\ pc[g] = "relation" /\ bld[g].relation <= Len(Relations(g))
    /\ LET rel == Relations(g)[bld[g].relation]
           n == UserName(rel.name)
           next == [bld[g] EXCEPT !.relation = @ + 1, !.joined = @ \cup {n}]
       IN  /\ ~rel.udsf
           /\ \/ n \in bld[g].joined /\ Continue(g, "relation", next) /\ UNCHANGED edges
              \/ /\ n \notin bld[g].joined /\ CanInput(bld[g].box, n)
                 /\ Connected(bld[g].box, n)
                 /\ Continue(g, "relation", next)
              \/ /\ n \notin bld[g].joined /\ ~CanInput(bld[g].box, n)
                 /\ Continue(g, "undo", bld[g]) /\ UNCHANGED edges
    /\ UNCHANGED <<nodeReg, nodes, removing, async, blocked, left>> /\ UnchangedStates

\* setUpUDSFStream: parameters, lookup and creation of the UDSF may fail.
CreateUDSF(g) ==
    /\ pc[g] = "relation" /\ bld[g].relation <= Len(Relations(g))
    /\ LET rel == Relations(g)[bld[g].relation]
       IN  /\ rel.udsf
           /\ \/ Continue(g, "undo", bld[g]) /\ UNCHANGED topoVars
              \/ /\ IF rel.inputs = {} THEN Added(TempName, "source", "paused", g)
                                       ELSE Added(TempName, "box", "running", g)
                 /\ Continue(g, "udsf", [bld[g] EXCEPT !.udsf = Len(nodes'), !.inputs = rel.inputs])
    /\ UNCHANGED <<async, blocked, left>> /\ UnchangedStates

\* The UDSF's inputs, in the order of a map, and then the input of the box.  The node of
\* a UDSF that cannot be connected stays.
InputUDSF(g) ==
    /\ pc[g] = "udsf"
    /\ LET b == bld[g]
           Input(to, n, label, locals) ==
               IF CanInput(to, n)
               THEN Connected(to, n) /\ Continue(g, label, locals) /\ UNCHANGED left
               ELSE Continue(g, "undo", b) /\ left' = left \cup {b.udsf} /\ UNCHANGED edges
       IN  \/ \E n \in b.inputs : Input(b.udsf, UserName(n), "udsf", [b EXCEPT !.inputs = @ \ {n}])
           \/ b.inputs = {} /\ Input(b.box, nodes[b.udsf].name, "udsfFlags", b)
    /\ UNCHANGED <<nodeReg, nodes, removing, async, blocked>> /\ UnchangedStates

FlagUDSF(g) ==
    /\ pc[g] = "udsfFlags"
    /\ LET b == bld[g]
           source == nodes[b.udsf].kind = "source"
       IN  /\ Flagged({b.udsf}, IF source THEN {"out"} ELSE {"in", "out"}, TRUE)
           /\ Continue(g, "relation", [b EXCEPT !.relation = @ + 1, !.temps = @ \cup {nodes[b.udsf].name},
                                                !.paused = IF source THEN Append(@, b.udsf) ELSE @])
    /\ UNCHANGED <<async, blocked, left>> /\ UnchangedStates

\* All relations are there: the box stops when its inputs have gone.
FlagBox(g) ==
    /\ pc[g] = "relation" /\ bld[g].relation > Len(Relations(g))
    /\ Flagged({bld[g].box}, {"in"}, FALSE)
    /\ Continue(g, "resumeUDSF", bld[g])
    /\ UNCHANGED <<async, blocked, left>> /\ UnchangedStates

\* A UDSF source that has stopped cannot be resumed.
ResumeUDSF(g) ==
    /\ pc[g] = "resumeUDSF" /\ bld[g].paused # <<>>
    /\ LET s == Head(bld[g].paused)
       IN  IF nodes[s].state = "stopped"
           THEN Continue(g, "undo", bld[g]) /\ UNCHANGED nodes
           ELSE /\ nodes' = [nodes EXCEPT ![s].state = "running"]
                /\ Continue(g, "resumeUDSF", [bld[g] EXCEPT !.paused = Tail(@)])
    /\ UNCHANGED <<nodeReg, edges, removing, async, blocked, left>> /\ UnchangedStates

\* The next SELECT of the statement: its locals start anew.
NextSelect(g) == [NoBuild EXCEPT !.select = bld[g].select + 1, !.top = bld[g].top,
                                 !.names = Append(bld[g].names, BoxName(g))]
IsLastSelect(g) == bld[g].select = Len(Stmt(g).selects)

\* createStreamAsSelectStmt returns: to the client, to the UNION or to the SELECT.
FinishBox(g) ==
    /\ pc[g] = "resumeUDSF" /\ bld[g].paused = <<>>
    /\ \/ Is(g, "createStream") /\ Succeed(g) /\ UNCHANGED topoVars
       \/ /\ Is(g, "createUnion") /\ UNCHANGED topoVars
          /\ Continue(g, IF IsLastSelect(g) THEN "forwarder" ELSE "addBox", NextSelect(g))
       \/ /\ Is(g, "select")
          /\ Flagged({bld[g].box}, {}, TRUE)
          /\ Continue(g, "connectSink", bld[g])
    /\ UNCHANGED <<async, blocked, left>> /\ UnchangedStates

AddForwarder(g) ==
    /\ pc[g] = "forwarder"
    /\ LET n == UserName(Stmt(g).name)
       IN  \/ ~Unregistered(n) /\ Continue(g, "undo", bld[g]) /\ UNCHANGED topoVars
           \/ /\ Unregistered(n)
              /\ Added(n, "box", "running", g)
              /\ Continue(g, "connectForwarder", [bld[g] EXCEPT !.top = Len(nodes')])
    /\ UNCHANGED <<async, blocked, left>> /\ UnchangedStates

\* The forwarder itself is not removed when it cannot be connected.
ConnectForwarder(g) ==
    /\ pc[g] = "connectForwarder" /\ bld[g].relation <= Len(bld[g].names)
    /\ LET n == bld[g].names[bld[g].relation]
       IN  IF CanInput(bld[g].top, n)
           THEN /\ Connected(bld[g].top, n)
                /\ Continue(g, "connectForwarder", [bld[g] EXCEPT !.relation = @ + 1])
                /\ UNCHANGED left
           ELSE Continue(g, "undo", bld[g]) /\ left' = left \cup {bld[g].top} /\ UNCHANGED edges
    /\ UNCHANGED <<nodeReg, nodes, removing, async, blocked>> /\ UnchangedStates

\* The boxes of a UNION: the nodes this statement made other than UDSFs and the forwarder.
Members(g) == {i \in DOMAIN nodes : nodes[i].by = This(g) /\
                  \E k \in DOMAIN bld[g].names : bld[g].names[k] = nodes[i].name}

FlagMembers(g) ==
    /\ pc[g] = "connectForwarder" /\ bld[g].relation > Len(bld[g].names)
    /\ Flagged(Members(g), {"in", "out"}, TRUE)
    /\ Continue(g, "flagForwarder", bld[g])
    /\ UNCHANGED <<async, blocked, left>> /\ UnchangedStates

FlagForwarder(g) ==
    /\ pc[g] = "flagForwarder"
    /\ Flagged({bld[g].top}, {"in"}, TRUE)
    /\ Succeed(g)
    /\ UNCHANGED <<async, blocked, left>> /\ UnchangedStates

\* Connecting the sink sends a message to its pouring thread, which does not read it
\* while it is blocked in Write.
ConnectSink(g) ==
    /\ pc[g] = "connectSink" /\ g \notin blocked
    /\ IF CanInput(bld[g].top, BoxName(g))
       THEN Connected(bld[g].top, BoxName(g)) /\ Continue(g, "flagSelect", bld[g])
       ELSE Continue(g, "undo", [bld[g] EXCEPT !.temps = {}]) /\ UNCHANGED edges
    /\ UNCHANGED <<nodeReg, nodes, removing, async, blocked, left>> /\ UnchangedStates

\* Mutant: the sink's flags are set before the channel is returned.
MFlagSelect(g) ==
    /\ pc[g] = "flagSelect" /\ (IsLastSelect(g) => g \notin blocked)
    /\ Flagged({bld[g].box}, {"in", "out"}, FALSE)
    /\ IF IsLastSelect(g)
       THEN Continue(g, "reading", bld[g]) /\ async' = async \cup {bld[g].top}
       ELSE Continue(g, "addBox", NextSelect(g)) /\ UNCHANGED async
    /\ UNCHANGED <<blocked, left>> /\ UnchangedStates

\* After the last SELECT the channel is returned, and a goroutine sets the sink's flags.
FlagSelect(g) ==
    /\ pc[g] = "flagSelect"
    /\ Flagged({bld[g].box}, {"in", "out"}, FALSE)
    /\ IF IsLastSelect(g)
       THEN Continue(g, "reading", bld[g]) /\ async' = async \cup {bld[g].top}
       ELSE Continue(g, "addBox", NextSelect(g)) /\ UNCHANGED async
    /\ UNCHANGED <<blocked, left>> /\ UnchangedStates

IsBlocked(sink) == \E g \in blocked : bld[g].top = sink

FlagSink(sink) ==
    /\ sink \in async /\ ~IsBlocked(sink)
    /\ async' = async \ {sink}
    /\ Flagged({sink}, {"in"}, TRUE)
    /\ UNCHANGED <<blocked, bld, returned, failed, left, stmtVars>> /\ UnchangedStates

\* A tuple reaches the sink of a SELECT: Write waits for a reader of the channel.
WriteTuple(g) ==
    /\ g \notin blocked /\ at[g] <= Len(prog[g]) /\ Is(g, "select")
    /\ \E e \in edges : e[2] = bld[g].top /\ nodes[e[1]].state = "running"
    /\ blocked' = blocked \cup {g}
    /\ UNCHANGED <<topoVars, async, bld, returned, failed, left, stmtVars>> /\ UnchangedStates

\* handleSelectUnionStmt of the server reads the channel.
ReadTuple(g) ==
    /\ pc[g] = "reading" /\ g \in blocked
    /\ blocked' = blocked \ {g}
    /\ UNCHANGED <<topoVars, async, bld, returned, failed, left, stmtVars>> /\ UnchangedStates

\* The client leaves, or the channel is closed: the rest is vacuumed and the sink stopped.
Leave(g) ==
    /\ pc[g] = "reading"
    /\ Stopped({bld[g].top})
    /\ blocked' = blocked \ {g}
    /\ Succeed(g)
    /\ UNCHANGED <<nodeReg, async, left>> /\ UnchangedStates

\* Mutant: the finished boxes of the statement stay.
MUndo(g) ==
    /\ pc[g] = "undo"
    /\ Removed(bld[g].temps \cup (IF bld[g].box = 0 THEN {} ELSE {BoxName(g)}))
    /\ IF Is(g, "select") THEN Continue(g, "stopSink", bld[g]) ELSE Fail(g)
    /\ UNCHANGED <<async, blocked, left>> /\ UnchangedStates

\* What a failing statement removes: the UDSFs and the box of the SELECT that failed,
\* and the boxes of those before it.
Undo(g) ==
    /\ pc[g] = "undo"
    /\ Removed(bld[g].temps \cup {bld[g].names[k] : k \in DOMAIN bld[g].names}
                  \cup (IF bld[g].box = 0 THEN {} ELSE {BoxName(g)}))
    /\ IF Is(g, "select") THEN Continue(g, "stopSink", bld[g]) ELSE Fail(g)
    /\ UNCHANGED <<async, blocked, left>> /\ UnchangedStates

\* Stopping the sink sends a message to its pouring thread, too.
StopSink(g) ==
    /\ pc[g] = "stopSink" /\ g \notin blocked
    /\ Removed({nodes[bld[g].top].name})
    /\ Fail(g)
    /\ UNCHANGED <<async, blocked, left>> /\ UnchangedStates

-----------------------------------------------------------------------------
(* What nodes do by themselves.                                             *)

HasInput(i) == \E e \in edges : e[2] = i
HasOutput(i) == \E e \in edges : e[1] = i
MayStop(i) ==
    /\ nodes[i].state # "stopped" /\ ~IsBlocked(i)
    /\ \/ "in" \in nodes[i].onDisconnect /\ ~HasInput(i)
       \/ "out" \in nodes[i].onDisconnect /\ ~HasOutput(i)

StopDisconnected(i) ==
    /\ MayStop(i)
    /\ Stopped({i})
    /\ UNCHANGED <<nodeReg, async, blocked, bld, returned, failed, left, stmtVars>> /\ UnchangedStates

\* RemoveOnStop removes by name.
RemoveStopped(i) ==
    /\ i \in removing
    /\ LET n == nodes[i].name
           ids == IF Unregistered(n) THEN {} ELSE {nodeReg[n]}
       IN  /\ nodes' = [j \in DOMAIN nodes |-> IF j \in ids THEN [nodes[j] EXCEPT !.state = "stopped"] ELSE nodes[j]]
           /\ edges' = {e \in edges : e[1] \notin ids /\ e[2] \notin ids}
           /\ removing' = (removing \ {i}) \cup {j \in ids : nodes[j].removeOnStop /\ nodes[j].state # "stopped"}
           /\ nodeReg' = [m \in DOMAIN nodeReg \ {n} |-> nodeReg[m]]
    /\ UNCHANGED <<async, blocked, bld, returned, failed, left, stmtVars>> /\ UnchangedStates

\* The stream of a source ends.
EndSource(i) ==
    /\ nodes[i].kind = "source" /\ nodes[i].state = "running"
    /\ Stopped({i})
    /\ UNCHANGED <<nodeReg, async, blocked, bld, returned, failed, left, stmtVars>> /\ UnchangedStates

\* What a goroutine of the server does, but for Leave, which the client decides.
Step(g) ==
    \/ StateStep(g) /\ UNCHANGED buildVars
    \/ CreateNode(g) \/ LookUp(g) \/ RemoveNode(g) \/ InsertInto(g) \/ PauseOrResume(g)
    \/ StartStream(g) \/ StartSelect(g) \/ AddBox(g) \/ InputStream(g)
    \/ CreateUDSF(g) \/ InputUDSF(g) \/ FlagUDSF(g) \/ FlagBox(g) \/ ResumeUDSF(g) \/ FinishBox(g)
    \/ AddForwarder(g) \/ ConnectForwarder(g) \/ FlagMembers(g) \/ FlagForwarder(g)
    \/ ConnectSink(g) \/ FlagSelect(g) \/ ReadTuple(g) \/ Undo(g) \/ StopSink(g)

NodeStep(i) == FlagSink(i) \/ StopDisconnected(i) \/ RemoveStopped(i)

\* A crash is examined for statements on states only: nodes are not stored.
Next ==
    \/ \E g \in Goroutines : Step(g) \/ WriteTuple(g) \/ Leave(g)
    \/ \E i \in DOMAIN nodes : NodeStep(i) \/ EndSource(i)
    \/ OnlyStates /\ Crash /\ UNCHANGED buildVars

\* The server's goroutines and the nodes' are scheduled; clients and sources are not.
Fairness ==
    /\ \A g \in UNION {DOMAIN p : p \in Programs} : WF_vars(g \in Goroutines /\ Step(g))
    /\ WF_vars(\E i \in DOMAIN nodes : NodeStep(i))

Spec == Init /\ [][Next]_vars /\ Fairness

-----------------------------------------------------------------------------
(* Properties                                                               *)

Registered(i) == \E n \in DOMAIN nodeReg : nodeReg[n] = i
IsTemporary(i) == nodes[i].name[1] = "tmp"
Finished(g) == at[g] > Len(prog[g])

\* Nothing is under way: all statements returned and no node is about to stop or go.
Quiet ==
    /\ \A g \in Goroutines : Finished(g)
    /\ removing = {} /\ async = {} /\ \A i \in DOMAIN nodes : ~MayStop(i)

\* A name is registered for the node that has it, and connections are between nodes
\* that have not stopped.
TypeOK ==
    /\ \A n \in DOMAIN nodeReg : nodes[nodeReg[n]].name = n
    /\ \A e \in edges : nodes[e[1]].state # "stopped" /\ nodes[e[2]].state # "stopped"
    /\ \A g \in Goroutines : at[g] \in 1..(Len(prog[g]) + 1)
    /\ returned \cap failed = {}

\* A statement that fails leaves none of the nodes it made ("Others won't be
\* registered"), wherever it fails and whatever other statements do meanwhile.  The
\* exceptions are the box of a selfloop, a forwarder and a UDSF that cannot be connected.
FailedLeavesNothing ==
    Quiet => \A i \in DOMAIN nodes : Registered(i) /\ nodes[i].by \in failed => i \in left

\* Temporary nodes (of UDSFs, UNIONs and SELECTs) go with the stream or the SELECT they
\* were made for: when everything is quiet, each has a running stream that needs it.
TemporariesGo ==
    Quiet => \A i \in DOMAIN nodes :
                 Registered(i) /\ IsTemporary(i) /\ i \notin left =>
                     \E m \in DOMAIN nodes : /\ nodes[m].by = nodes[i].by /\ ~IsTemporary(m)
                                             /\ Registered(m) /\ nodes[m].state = "running"

\* No statement leaves nodes behind, neither one that fails nor one whose stream has gone.
NothingLeftBehind == TypeOK /\ FailedLeavesNothing /\ TemporariesGo

\* A stream made by a successful CREATE STREAM gets the tuples of each of its relations
\* whose node has not stopped, also when the same relation is joined with itself.
InputsConnected ==
    \A i \in DOMAIN nodes :
        (nodes[i].by \in returned /\ nodes[i].kind = "box" /\ ~IsTemporary(i) /\ nodes[i].state = "running") =>
            LET stmt == prog[nodes[i].by[1]][nodes[i].by[2]]
            IN  stmt.op = "createStream" =>
                    \A k \in DOMAIN stmt.selects[1] :
                        \E j \in DOMAIN nodes :
                            /\ IF stmt.selects[1][k].udsf
                               THEN nodes[j].by = nodes[i].by /\ j # i
                               ELSE nodes[j].name = UserName(stmt.selects[1][k].name)
                            /\ nodes[j].state = "stopped" \/ <<j, i>> \in edges

\* The sink of a SELECT is blocked, its channel is not handed out yet, and the statement
\* has to connect or to stop the sink.
Unread(g) == g \in blocked /\ pc[g] \in {"connectSink", "stopSink"}

\* Every statement returns (a SELECT: its channel).  The exception is a SELECT whose first
\* tuple comes before its sink has all its inputs.
StatementsReturn == <>(\A g \in Goroutines : Finished(g) \/ pc[g] = "reading" \/ Unread(g))

\* The same without an exception: "this method must return the chan".
SelectReturns == <>(\A g \in Goroutines : Finished(g) \/ pc[g] = "reading")
=============================================================================
