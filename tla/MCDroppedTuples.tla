--------------------------- MODULE MCDroppedTuples ---------------------------
(* Instances of DroppedTuples for TLC. *)
EXTENDS DroppedTuples, TLC

CONSTANTS w1, w2, p1, p2, c1, c2

Scenario(writers, max, mode, collectors, log) ==
    [writers |-> writers, max |-> max, mode |-> mode, collectors |-> collectors, log |-> log]

\* No destination, with and without the log; one that drops the latest tuple; two, of
\* which one blocks; one that drops the oldest while nothing collects dropped tuples.
Dropping ==
    {Scenario({w1, w2}, 2, <<>>, {c1}, TRUE),
     Scenario({w1}, 2, <<>>, {c1}, FALSE),
     Scenario({w1}, 2, p1 :> "DropLatest", {c1, c2}, FALSE),
     Scenario({w1}, 2, p1 :> "DropLatest" @@ p2 :> "DropNone", {c1}, FALSE),
     Scenario({w1, w2}, 3, p1 :> "DropOldest", {}, FALSE)}

\* The oldest tuple is dropped while a collector listens.
OldestCollected == {Scenario({w1}, 2, p1 :> "DropOldest", {c1}, FALSE)}
=============================================================================
