--------------------------- MODULE ContinuousQuery ---------------------------
(***************************************************************************)
(* What a SELECT statement over windows promises, without buffers, cached  *)
(* rows or hash tables.  Whenever a tuple arrives, the windows are         *)
(* computed from everything that has arrived, the query is evaluated on    *)
(* all combinations of their tuples, and the result is compared with that  *)
(* of the last run that succeeded.                                         *)
(*                                                                         *)
(* A query is a record: "relations" maps an alias to its input name, unit  *)
(* and range; "emitter" is one of RSTREAM, ISTREAM and DSTREAM; "grouping" *)
(* is none, by (GROUP BY) or all (aggregates without GROUP BY); groups of  *)
(* fewer than "having" rows are left out.  The aggregate is the number of  *)
(* rows of a group.  At most "bound" of the "tuples" arrive.               *)
(***************************************************************************)
EXTENDS Integers, Sequences, FiniteSets, Bags

CONSTANTS Query,      \* the statements
          Filter(_),  \* values of a row -> "true", "false" (also for NULL) or Error
          Select(_),  \* values of a row -> projected or grouping values, or Error
          Error

VARIABLES query, arrived, \* the statement; the tuples so far, with input, value and time
          failed,         \* arrivals whose rows could not be filtered
          last, out       \* bags: results of the last good run; what was emitted

vars == <<query, arrived, failed, last, out>>

Alias == DOMAIN query.relations

Init ==
    /\ query \in Query
    /\ arrived = <<>> /\ failed = {}
    /\ last = EmptyBag /\ out = EmptyBag

-----------------------------------------------------------------------------
\* The positions in log of the tuples in the window of alias a: the last ones of
\* its input, or those that no tuple since was too late for.
Window(a, log) ==
    LET rel == query.relations[a]
        mine == {k \in DOMAIN log : log[k].input = rel.input}
    IN  IF rel.unit = "tuples"
        THEN {k \in mine : Cardinality({j \in mine : j > k}) < rel.range}
        ELSE {k \in mine : \A j \in k..Len(log) : log[j].time - log[k].time <= rel.range}

Values(row, log) == [a \in Alias |-> log[row[a]].value]
Newest(row) == CHOOSE k \in {row[a] : a \in Alias} : \A a \in Alias : row[a] <= k

Combinations(log) ==
    {row \in [Alias -> DOMAIN log] : \A a \in Alias : row[a] \in Window(a, log)}

\* The last tuple makes the filter fail.
FilterFails(log) ==
    \E row \in Combinations(log) : Newest(row) = Len(log) /\ Filter(Values(row, log)) = Error

Rows(log) ==
    {row \in Combinations(log) : Newest(row) \notin failed /\ Filter(Values(row, log)) = "true"}

SelectFails(log) == \E row \in Rows(log) : Select(Values(row, log)) = Error

\* The relation the query computes, a bag.
Result(log) ==
    LET keys == {Select(Values(row, log)) : row \in Rows(log)}
        with(key) == Cardinality({row \in Rows(log) : Select(Values(row, log)) = key})
    IN  IF query.grouping = "none" THEN [key \in keys |-> with(key)]
        ELSE IF query.grouping = "all"
             THEN SetToBag({<< <<>>, n >> : n \in {k \in {Cardinality(Rows(log))} : k >= query.having}})
        ELSE SetToBag({<<key, with(key)>> : key \in {k \in keys : with(k) >= query.having}})

Emission(log) ==
    IF query.emitter = "rstream" THEN Result(log)
    ELSE IF query.emitter = "istream" THEN Result(log) (-) last
    ELSE last (-) Result(log)

-----------------------------------------------------------------------------
Arrive(t) ==
    LET log == Append(arrived, t)
    IN  /\ arrived' = log
        /\ \/ /\ FilterFails(log)
              /\ failed' = failed \cup {Len(log)}
              /\ out' = Error
              /\ UNCHANGED last
           \/ /\ ~FilterFails(log) /\ SelectFails(log)
              /\ out' = Error
              /\ UNCHANGED <<failed, last>>
           \/ /\ ~FilterFails(log) /\ ~SelectFails(log)
              /\ out' = Emission(log)
              /\ last' = IF query.emitter = "rstream" THEN last ELSE Result(log)
              /\ UNCHANGED failed
    /\ UNCHANGED query

\* A tuple of an unknown input changes nothing.
Refuse ==
    /\ out' = Error
    /\ UNCHANGED <<query, arrived, failed, last>>

Next ==
    \/ /\ Len(arrived) < query.bound
       /\ \E t \in query.tuples : Arrive(t)
    \/ Refuse

Spec == Init /\ [][Next]_vars
=============================================================================
