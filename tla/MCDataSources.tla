---------------------------- MODULE MCDataSources ----------------------------
(* Instances of DataSources for TLC. *)
EXTENDS DataSources, TLC

CONSTANTS r1, r2, a1, a2, rm, gr, di, s1, s2, su

OpOf ==
    a1 :> "add" @@ a2 :> "add" @@ rm :> "remove" @@ gr :> "graceful"
    @@ di :> "disconnect" @@ s1 :> "stop" @@ s2 :> "stop" @@ su :> "status"
ArgOf == [c \in Call |-> IF c = a2 THEN r2 ELSE r1]

Calls(set, fatalErrors, tuples) == [calls |-> set, fatalErrors |-> fatalErrors, tuples |-> tuples]

\* The node is stopped without having failed or lost its inputs before, or it
\* ends by itself and is not stopped, or it is stopped and fails, but no pipe is
\* connected after it has failed.
StoppedOrEnding ==
    {Calls({a1, rm, gr, s1, s2}, FALSE, 2), Calls({a1, a2, di, su}, TRUE, 1),
     Calls({a1, gr, s1}, TRUE, 2), Calls({a1, a2, gr, s1}, FALSE, 1)}

\* A node that fails is stopped while a pipe is being connected.
FailedAndStopped == {Calls({a1, a2, s1}, TRUE, 2)}
=============================================================================
