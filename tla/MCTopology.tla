----------------------------- MODULE MCTopology -----------------------------
(***************************************************************************)
(* A source s1 writes to box b1, which writes to sink k1 and, in some of   *)
(* the scenarios, to box b2, which leads nowhere, or to sink k2.           *)
(***************************************************************************)
EXTENDS Topology

CONSTANTS s1, b1, b2, k1, k2

OwnName == [n \in Node |-> n]

First == <<s1, b1>>
Last == <<b1, k1>>
Leaf == <<b1, b2>>
Late == <<b1, k2>>
Short == <<s1, k1>>
Line == {First, Last}
Edges == Line \cup {Leaf, Late, Short}

Stop == <<"stop", s1>>
Again == <<"stop", b1>>
Make(ns, es, ops, k) ==
    [nodes |-> ns, edges |-> es, calls |-> ops, faulty |-> {}, watcher |-> {}, tuples |-> k]
OnLine(ops, k) == Make({s1, b1, k1}, Line, ops, k)

\* Stop, alone and while nodes are paused, added, connected or removed.
Stopped ==
    { Make({s1, b1, b2, k1}, Line \cup {Leaf}, {Stop}, 1),
      OnLine({Stop, Again}, 0),
      OnLine({Stop, <<"pause", s1>>, <<"resume", s1>>}, 2),
      Make({s1, b1, k1, k2}, Line, {Stop, <<"input", Late>>}, 0),
      OnLine({Stop, <<"add", k2>>}, 1),
      OnLine({Stop, <<"remove", b1>>}, 1),
      OnLine({Stop, <<"removeOnStop", b1>>}, 1) }

\* The other calls, without Stop.
Changed ==
    { OnLine({<<"add", k2>>, <<"input", Late>>}, 1),
      Make({b1, k1}, {Last}, {<<"add", s1>>, <<"input", First>>, <<"resume", s1>>}, 1),
      OnLine({<<"remove", b1>>, <<"removeOnStop", b1>>}, 1),
      Make({s1, k1}, {Short}, {<<"remove", k1>>, <<"disconnect", s1>>, <<"pause", s1>>}, 1),
      Make({s1, k1}, {Short}, {<<"removeOnStop", s1>>}, 1),
      Make({b1, k1}, {Last}, {<<"remove", k1>>, <<"disconnect", b1>>}, 0),
      OnLine({<<"graceful", b1>>, <<"remove", b1>>}, 2),
      OnLine({<<"disconnect", s1>>, <<"remove", b1>>}, 1) }

\* A source that cannot be stopped, a box that fails, a source that looks at the
\* topology while it changes.
Disturbed ==
    { [OnLine({Stop}, 2) EXCEPT !.faulty = {s1}],
      [OnLine({Stop}, 1) EXCEPT !.faulty = {b1}],
      [OnLine({<<"remove", b1>>}, 1) EXCEPT !.watcher = {s1}] }

All == Stopped \cup Changed \cup Disturbed

\* Topology.Stop with a node_statuses source.
Watched == {[OnLine({Stop}, 1) EXCEPT !.watcher = {s1}]}

\* The sink is replaced before Stop.
Replaced == {Make({s1, b1, k1, k2}, Line, {<<"remove", k1>>, <<"input", Late>>, Stop}, 1)}

CallsOf(scs) == UNION {sc.calls : sc \in scs}
AllCalls == CallsOf(All)
WatchedCalls == CallsOf(Watched)
ReplacedCalls == CallsOf(Replaced)
=============================================================================
