------------------------- MODULE StreamRelationPlan -------------------------
(***************************************************************************)
(* The execution plans of SELECT statements (bql/execution).  They do not  *)
(* evaluate the query on whole windows: the buffers are trimmed, the rows  *)
(* of the cartesian product that contain the new tuple are filtered and    *)
(* appended to a list, rows of expired tuples are taken out of it, and the *)
(* results are compared with those of the previous run by counting them in *)
(* hash tables.  CONSTANTS and queries are those of ContinuousQuery.       *)
(*                                                                         *)
(* A tuple is represented by its position in "arrived", a row by the       *)
(* positions of the tuples it was made of.  One step is one call of        *)
(* Process, which the box serialises with its mutex.                       *)
(***************************************************************************)
EXTENDS Integers, Sequences, FiniteSets, SequencesExt, BagsExt

CONSTANTS Query, Filter(_), Select(_), Error,
          Hash(_)    \* data.Hash, with collisions

VARIABLES
    query, arrived,  \* the statement; the data of the tuples so far
    buffers,         \* alias -> tuples in its buffer
    rows,            \* filteredInputRows
    curResults, prevResults,
    prevHashes,      \* prevHashesForIstream
    out,             \* what Process returned
    failed           \* history: tuples whose rows could not be filtered

vars == <<query, arrived, buffers, rows, curResults, prevResults, prevHashes, out, failed>>

Alias == DOMAIN query.relations
EmptyTable == <<>>

Init ==
    /\ query \in Query
    /\ arrived = <<>>
    /\ buffers = [a \in Alias |-> <<>>]
    /\ rows = <<>> /\ curResults = <<>> /\ prevResults = <<>>
    /\ prevHashes = EmptyTable
    /\ out = <<>> /\ failed = {}

-----------------------------------------------------------------------------
(* Stream to relation.                                                     *)

AddTupleToBuffer(log) ==
    [a \in Alias |-> IF query.relations[a].input = Last(log).input
                     THEN Append(buffers[a], Len(log)) ELSE buffers[a]]

RemoveOutdated(rel, buf, log) ==
    IF rel.unit = "tuples"
    THEN IF Len(buf) > rel.range THEN SubSeq(buf, Len(buf) - rel.range + 1, Len(buf)) ELSE buf
    ELSE SelectSeq(buf, LAMBDA k : Last(log).time - log[k].time <= rel.range)

NewBuffers(log) ==
    LET added == AddTupleToBuffer(log)
    IN  [a \in Alias |-> RemoveOutdated(query.relations[a], added[a], log)]

\* Every row is known to the tuples it was made of and goes with them.
KeptRows(bufs) ==
    SelectSeq(rows, LAMBDA row : \A a \in Alias : row[a] \in ToSet(bufs[a]))

-----------------------------------------------------------------------------
(* Relation to relation: the rows that contain the new tuple.              *)

Values(row, log) == [a \in Alias |-> log[row[a]].value]

\* The buffers the new tuple was appended to, in the order of a map iteration.
LastTupleBuffers(log) ==
    SetToSeq({a \in Alias : query.relations[a].input = Last(log).input})

\* Mutant: in a self-join the pairs of the new tuple with itself appear twice.
PartTwice(i, j, buf) == IF j = i THEN {Last(buf)} ELSE ToSet(buf)

\* What run i takes of the j-th of these buffers.
Part(i, j, buf) ==
    IF j < i THEN ToSet(Front(buf))
    ELSE IF j = i THEN {Last(buf)}
    ELSE ToSet(buf)

\* The part of the cartesian product that run i visits.
Product(i, bufs, log) ==
    LET new == LastTupleBuffers(log)
        old == Alias \ ToSet(new)
    IN  {row \in [Alias -> DOMAIN log] :
            /\ \A j \in DOMAIN new : row[new[j]] \in Part(i, j, bufs[new[j]])
            /\ \A a \in old : row[a] \in ToSet(bufs[a])}

FilterFails(bufs, log) ==
    \E i \in DOMAIN LastTupleBuffers(log), row \in [Alias -> DOMAIN log] :
        row \in Product(i, bufs, log) /\ Filter(Values(row, log)) = Error

FilterInputTuples(bufs, log) ==
    FlattenSeq([i \in DOMAIN LastTupleBuffers(log) |->
        SetToSeq({row \in Product(i, bufs, log) : Filter(Values(row, log)) = "true"})])

-----------------------------------------------------------------------------
(* Tables of counters: a list of items for every hash value.               *)

\* The place of item r in its list, 0 if it is not there.
Place(r, table) ==
    IF Hash(r) \in DOMAIN table
    THEN SelectInSeq(table[Hash(r)], LAMBDA item : item.row = r) ELSE 0

Multiplicity(r, table) ==
    IF Place(r, table) = 0 THEN 0 ELSE table[Hash(r)][Place(r, table)].count

\* Mutant: items with the same hash value are taken for the same item.
IncrByHash(r, table) ==
    IF Hash(r) \in DOMAIN table THEN [table EXCEPT ![Hash(r)][1].count = @ + 1]
    ELSE (Hash(r) :> <<[row |-> r, count |-> 1]>>) @@ table

Incr(r, table) ==
    IF Place(r, table) # 0 THEN [table EXCEPT ![Hash(r)][Place(r, table)].count = @ + 1]
    ELSE IF Hash(r) \in DOMAIN table
         THEN [table EXCEPT ![Hash(r)] = Append(@, [row |-> r, count |-> 1])]
         ELSE (Hash(r) :> <<[row |-> r, count |-> 1]>>) @@ table

Table(rs) == FoldLeft(LAMBDA table, r : Incr(r, table), EmptyTable, rs)

-----------------------------------------------------------------------------
(* Relation to relation: performQueryOnBuffer of the two plans.            *)

Selected(rs, log) == [i \in DOMAIN rs |-> Select(Values(rs[i], log))]

\* Without a GROUP BY clause and without a row, evalNoGroup computes the result of
\* an empty group; it takes HAVING for a projection without a path and fails.
HavingOnNothing(rs) == query.grouping = "all" /\ query.having > 0 /\ rs = <<>>

QueryFails(rs, log) ==
    HavingOnNothing(rs) \/ \E i \in DOMAIN rs : Selected(rs, log)[i] = Error

\* The groups, in lists by the hash of their key, with their numbers of rows.
Groups(rs, log) ==
    LET key(i) == IF query.grouping = "all" THEN <<>> ELSE Selected(rs, log)[i]
        table == Table([i \in DOMAIN rs |-> key(i)])
    IN  FlattenSeq(SetToSeq({table[h] : h \in DOMAIN table}))

PerformQueryOnBuffer(rs, log) ==
    IF query.grouping = "none" THEN Selected(rs, log)
    ELSE IF query.grouping = "all" /\ rs = <<>> THEN << << <<>>, 0 >> >>
    ELSE LET kept == SelectSeq(Groups(rs, log), LAMBDA g : g.count >= query.having)
         IN  [i \in DOMAIN kept |-> <<kept[i].row, kept[i].count>>]

-----------------------------------------------------------------------------
(* Relation to stream: computeResultTuples.                                *)

\* The items of cur beyond the number of them that table has.
Surplus(cur, table) ==
    FoldLeft(LAMBDA acc, r :
                 LET seen == Incr(r, acc.seen)
                 IN  [seen |-> seen,
                      output |-> IF Multiplicity(r, seen) <= Multiplicity(r, table)
                                 THEN acc.output ELSE Append(acc.output, r)],
             [seen |-> EmptyTable, output |-> <<>>], cur).output

ComputeResultTuples(cur, prev) ==
    IF query.emitter = "rstream" THEN cur
    ELSE IF query.emitter = "istream" THEN Surplus(cur, prevHashes)
    ELSE Surplus(prev, Table(cur))

-----------------------------------------------------------------------------
(* Process.                                                                *)

\* NewFilterPlan is used for [RANGE 1 TUPLES] and RSTREAM without grouping.
CanBuildFilterPlan ==
    /\ Cardinality(Alias) = 1 /\ query.grouping = "none" /\ query.emitter = "rstream"
    /\ \A a \in Alias : query.relations[a].unit = "tuples" /\ query.relations[a].range = 1

\* filterPlan.Process keeps nothing.
FilterPlanProcess(t) ==
    LET vals == [a \in Alias |-> t.value]
    IN  /\ CanBuildFilterPlan
        /\ arrived' = Append(arrived, t)
        /\ out' = IF Filter(vals) = Error THEN Error
                  ELSE IF Filter(vals) = "false" THEN <<>>
                  ELSE IF Select(vals) = Error THEN Error ELSE <<Select(vals)>>
        /\ failed' = IF Filter(vals) = Error THEN failed \cup {Len(arrived')} ELSE failed
        /\ UNCHANGED <<query, buffers, rows, curResults, prevResults, prevHashes>>

\* The tuple stays in the buffers although its rows are given up.
FilteringFails(t) ==
    LET log == Append(arrived, t)
        bufs == NewBuffers(log)
    IN  /\ ~CanBuildFilterPlan /\ FilterFails(bufs, log)
        /\ arrived' = log /\ buffers' = bufs
        /\ rows' = KeptRows(bufs)
        /\ out' = Error /\ failed' = failed \cup {Len(log)}
        /\ UNCHANGED <<query, curResults, prevResults, prevHashes>>

\* The rows stay; the results are those of the run before ("rollback").  Of
\* prevResults only the storage is used again.
SelectingFails(t) ==
    LET log == Append(arrived, t)
        bufs == NewBuffers(log)
        rs == KeptRows(bufs) \o FilterInputTuples(bufs, log)
    IN  /\ ~CanBuildFilterPlan /\ ~FilterFails(bufs, log) /\ QueryFails(rs, log)
        /\ arrived' = log /\ buffers' = bufs /\ rows' = rs
        /\ prevResults' = <<>> /\ out' = Error
        /\ UNCHANGED <<query, curResults, prevHashes, failed>>

Process(t) ==
    LET log == Append(arrived, t)
        bufs == NewBuffers(log)
        rs == KeptRows(bufs) \o FilterInputTuples(bufs, log)
    IN  /\ ~CanBuildFilterPlan /\ ~FilterFails(bufs, log) /\ ~QueryFails(rs, log)
        /\ arrived' = log /\ buffers' = bufs /\ rows' = rs
        /\ prevResults' = curResults
        /\ curResults' = PerformQueryOnBuffer(rs, log)
        /\ out' = ComputeResultTuples(curResults', prevResults')
        /\ prevHashes' = IF query.emitter = "istream" THEN Table(curResults') ELSE prevHashes
        /\ UNCHANGED <<query, failed>>

\* addTupleToBuffer does not know the input name of the tuple.
RefuseTuple ==
    /\ ~CanBuildFilterPlan
    /\ out' = Error
    /\ UNCHANGED <<query, arrived, buffers, rows, curResults, prevResults, prevHashes, failed>>

Next ==
    \/ /\ Len(arrived) < query.bound
       /\ \E t \in query.tuples :
             FilterPlanProcess(t) \/ FilteringFails(t) \/ SelectingFails(t) \/ Process(t)
    \/ RefuseTuple

Spec == Init /\ [][Next]_vars

-----------------------------------------------------------------------------
\* Buffers and rows refer to tuples that have arrived, and a buffer of a window
\* of tuples never holds more than its range.
TypeOK ==
    /\ query \in Query /\ arrived \in Seq(query.tuples) /\ Len(arrived) <= query.bound
    /\ buffers \in [Alias -> Seq(DOMAIN arrived)]
    /\ \A a \in Alias : query.relations[a].unit = "tuples" => Len(buffers[a]) <= query.relations[a].range
    /\ rows \in Seq([Alias -> DOMAIN arrived]) /\ failed \subseteq DOMAIN arrived
    /\ out = Error \/ Len(out) \in Nat

\* The counters ISTREAM keeps from the run before are those of its results: the
\* hash table and curResults do not drift apart, whichever runs failed.
HashesCountResults ==
    query.emitter = "istream" =>
        \A r \in ToSet(curResults) \cup UNION {{item.row : item \in ToSet(prevHashes[h])} : h \in DOMAIN prevHashes} :
            Multiplicity(r, prevHashes) = Cardinality({i \in DOMAIN curResults : curResults[i] = r})

\* What a plan keeps from one tuple to the next is sound, also after runs that failed.
KeptStateIsSound == TypeOK /\ HashesCountResults

BagOf(s) == FoldLeft(BagAdd, EmptyBag, s)

CQ == INSTANCE ContinuousQuery WITH
        last <- IF query.emitter = "rstream" THEN EmptyBag ELSE BagOf(curResults),
        out <- IF out = Error THEN Error ELSE BagOf(out)

\* Incremental evaluation emits what evaluating the query on the whole windows
\* would: "compute the contents of the current window", "perform a SELECT query on
\* that data", "compute the data that need to be emitted by comparison with the
\* previous run's results", and a run that failed is as if it had not happened.
ImplementsQuery == CQ!Spec
=============================================================================
