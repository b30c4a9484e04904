------------------------ MODULE MCStreamRelationPlan ------------------------
(***************************************************************************)
(* Queries on one stream, a join of two, and a self-join next to another   *)
(* stream.  A value of 3 makes the projection fail where it is selected,   *)
(* and the filter where it meets a smaller value; 4 never passes a filter. *)
(***************************************************************************)
EXTENDS StreamRelationPlan

Rel(s, u, r) == [input |-> s, unit |-> u, range |-> r]
Tuples(ins, vals, times) == [input : ins, value : vals, time : times]

Single(u, r) == ("l" :> Rel("a", u, r))
Join == ("l" :> Rel("a", "tuples", 2)) @@ ("r" :> Rel("b", "time", 1))
SelfJoin == ("l" :> Rel("a", "tuples", 2)) @@ ("m" :> Rel("a", "time", 1)) @@ ("r" :> Rel("b", "tuples", 1))

\* The statement with each of the emitters.
Emitted(rels, g, n, ts, k) ==
    [relations : {rels}, emitter : {"rstream", "istream", "dstream"}, grouping : {g},
     having : {n}, tuples : {ts}, bound : {k}]

Statements ==
    UNION { Emitted(Single("tuples", 1), "none", 0, Tuples({"a"}, {1, 2, 3}, {0}), 3),
            Emitted(Single("tuples", 2), "none", 0, Tuples({"a"}, {1, 2, 3}, {0}), 5),
            Emitted(Single("time", 1), "none", 0, Tuples({"a"}, {1, 2}, {0, 1, 2}), 4),
            Emitted(Single("tuples", 3), "all", 0, Tuples({"a"}, {1, 3, 4}, {0}), 5),
            Emitted(Join, "none", 0, Tuples({"a", "b"}, {1, 2, 3}, {0, 2}), 3),
            Emitted(Join, "by", 2, Tuples({"a", "b"}, {1, 2}, {0, 2}), 4),
            Emitted(SelfJoin, "none", 0, Tuples({"a"}, {1, 3}, {0, 2}) \cup Tuples({"b"}, {1, 3}, {2}), 4) }

Least(vals) == CHOOSE v \in {vals[a] : a \in DOMAIN vals} : \A a \in DOMAIN vals : v <= vals[a]

Condition(vals) ==
    IF "r" \in DOMAIN vals /\ vals["r"] = 3 /\ Least(vals) = 1 THEN Error
    ELSE IF vals["l"] = 4 \/ (vals["l"] = 2 /\ Least(vals) = 1) THEN "false" ELSE "true"

Projection(vals) == IF vals["l"] = 3 THEN Error ELSE <<Least(vals)>>

\* Rows and keys of one column collide, results of groups are told apart by the
\* number of their rows.
Collide(row) == IF Len(row) = 2 THEN 1 + row[2] ELSE 1
=============================================================================
