----------------------------- MODULE SelectPlan -----------------------------
(***************************************************************************)
(* From a SELECT statement to its results (src/bql/execution): the analysis   *)
(* of the statement (transform_plan.go), the choice of a plan, and the       *)
(* evaluation of projections and groups on the rows of a window              *)
(* (filter_plan.go, default_select_execution_plan.go,                        *)
(* groupby_execution_plan.go, common.go).  How the rows get into the window  *)
(* and which results are emitted is the subject of StreamRelationPlan.        *)
(***************************************************************************)
EXTENDS Evaluators

CONSTANT MaxRange       \* unit -> the largest window: MaxRangeTuples, -Sec, -Millisec

-----------------------------------------------------------------------------
(* Analyze.                                                                  *)

\* A relation without an alias has its name as one.
Aliased(rel) == IF rel.Alias = <<>> THEN [rel EXCEPT !.Alias = rel.Stream.Name] ELSE rel

makeRelationAliases(s) ==
    [s EXCEPT !.Relations = [i \in DOMAIN s.Relations |-> Aliased(s.Relations[i])]]

Aliases(s) == {s.Relations[i].Alias : i \in DOMAIN s.Relations}

Clauses(s) ==
    s.Projections \o (IF s.Filter = Nil THEN <<>> ELSE <<s.Filter>>)
    \o s.GroupList \o (IF s.Having = Nil THEN <<>> ELSE <<s.Having>>)

\* All the references to the only input relation become explicit.
Renamed(s, rel) ==
    LET to(e) == IF e = Nil THEN Nil ELSE Rename(e, rel)
        all(es) == [i \in DOMAIN es |-> to(es[i])]
    IN [s EXCEPT !.Projections = all(@), !.Filter = to(@), !.GroupList = all(@), !.Having = to(@)]

ValidRange(rel) ==
    /\ rel.Value > 0
    /\ rel.Unit = "TUPLES" => rel.Value % FloatScale = 0
    /\ rel.Value <= MaxRange[rel.Unit] * FloatScale

ValidWith(found, s) ==
    LET refRels == UNION {found[i].rels : i \in DOMAIN found}
        only == s.Relations[1].Alias
    IN CASE \E i \in DOMAIN found : found[i].map = "panic" -> Panic
         [] Len(s.Relations) = 1 /\ Cardinality(refRels) > 1 -> Error
         [] Len(s.Relations) = 1 /\ ~(refRels \subseteq {<<>>, only}) -> Error
         [] Len(s.Relations) > 1 /\ ~(refRels \subseteq Aliases(s)) -> Error
         [] \E i \in DOMAIN s.Relations : ~ValidRange(s.Relations[i]) -> Error
         [] Len(s.Relations) = 1 /\ refRels # {} -> Renamed(s, only)
         [] OTHER -> s

validateReferences(s) ==
    ValidWith([i \in DOMAIN Clauses(s) |-> ReferencedRelations(Clauses(s)[i])], s)

\* The name of the i-th output column.  A path with a dot or a bracket is no column
\* name; the names in the instances begin with a lower case letter, as they must.
Simple(s) == \A k \in DOMAIN s : s[k] \notin Paths!Marks \ ({Digit[d] : d \in 1..10} \cup {"_"})
Star == <<"*">>
HavingAlias == <<":having:">>

Header(e, i) ==
    LET numbered(s) == s \o <<"_">> \o IntString(i - 1)
    IN CASE e.t = "RowMeta" -> <<"ts">>
         [] e.t = "RowValue" /\ Simple(e.Column) -> e.Column
         [] e.t = "AliasAST" -> e.Alias
         [] e.t = "FuncAppSelectorAST" -> numbered(e.FuncApp.Function)
         [] e.t = "FuncAppAST" -> e.Function
         [] e.t = "Wildcard" -> Star
         [] OTHER -> numbered(<<"col">>)

ValidOption(o) ==
    CASE o.t = "EmitterLimit" -> o.int >= 0
      [] o.type = "CountBasedSampling" -> o.float > 0 /\ o.float % FloatScale = 0
      [] o.type = "TimeBasedSampling" -> o.float > 0
      [] o.type = "RandomizedSampling" -> o.float \in 0..(100 * FloatScale)

\* The projections with the aggregates that they need; HAVING is the last of them.
AddProjection(acc, alias, r) ==
    [count |-> acc.count + Count(r.aggs),
     projs |-> Append(acc.projs, [alias |-> alias, expr |-> r.expr, aggs |-> r.aggs])]

FlatProjections(s) ==
    LET es == s.Projections \o (IF s.Having = Nil THEN <<>> ELSE <<s.Having>>)
        alias(i) == IF i > Len(s.Projections) THEN HavingAlias ELSE Header(es[i], i)
    IN FoldLeft(LAMBDA acc, i : AddProjection(acc, alias(i), ParserExprToMaybeAggregate(es[i], acc.count)),
                [count |-> 0, projs |-> <<>>], [i \in DOMAIN es |-> i]).projs

\* "all columns mentioned outside of an aggregate function must be in the GROUP BY
\* clause".
GroupingCheck(projs, groups) ==
    \A i \in DOMAIN projs :
        /\ ~ContainsWildcard(projs[i].expr)
        /\ projs[i].expr.t # "rowMeta"
        /\ Columns(projs[i].expr) \subseteq ToSet(groups)

LogicalPlan(s, projs, filter, groups) ==
    LET grouping == \/ s.Having # Nil \/ s.GroupList # <<>>
                    \/ \E i \in DOMAIN projs : DOMAIN projs[i].aggs # {}
    IN IF \/ \E i \in DOMAIN projs : IsError(projs[i].expr)
          \/ IsError(filter)
          \/ \E i \in DOMAIN groups : groups[i].t # "rowValue"
          \/ grouping /\ ~GroupingCheck(projs, groups)
          \/ \E i \in DOMAIN s.EmitterOptions : ~ValidOption(s.EmitterOptions[i])
       THEN Error
       ELSE [t |-> "LogicalPlan", GroupingStmt |-> grouping, EmitterType |-> s.EmitterType,
             Projections |-> projs, Relations |-> s.Relations, Filter |-> filter,
             GroupList |-> groups]

flattenExpressions(s) ==
    LogicalPlan(s, FlatProjections(s), IF s.Filter = Nil THEN Nil ELSE ParserExprToFlatExpr(s.Filter),
                [i \in DOMAIN s.GroupList |-> ParserExprToFlatExpr(s.GroupList[i])])

FlattenValid(valid) == IF valid.t = "SelectStmt" THEN flattenExpressions(valid) ELSE valid
Analyze(s) ==
    LET aliased == makeRelationAliases(s)
    IN IF Cardinality(Aliases(aliased)) < Len(s.Relations) THEN Error
       ELSE FlattenValid(validateReferences(aliased))

-----------------------------------------------------------------------------
(* MakePhysicalPlan.                                                          *)

CanBuildFilterPlan(lp) ==
    /\ Len(lp.Relations) = 1 /\ ~lp.GroupingStmt /\ lp.EmitterType = "RSTREAM"
    /\ lp.Relations[1].Unit = "TUPLES" /\ lp.Relations[1].Value = FloatScale

\* The paths of "*" and ":having:" stay nil.
AliasPath(alias) == IF alias \in {Star, HavingAlias} THEN Nil ELSE Paths!CompilePath(alias)

prepareProjection(p) ==
    [alias |-> p.alias, aliasPath |-> AliasPath(p.alias), evaluator |-> ExpressionToEvaluator(p.expr),
     aggrEvals |-> [k \in DOMAIN p.aggs |-> ExpressionToEvaluator(p.aggs[k])]]

PhysicalPlan(lp, projs, groups, filter) ==
    LET outcomes == {projs[i].evaluator.t : i \in DOMAIN projs} \cup {projs[i].aliasPath.t : i \in DOMAIN projs}
                    \cup UNION {{projs[i].aggrEvals[k].t : k \in DOMAIN projs[i].aggrEvals} : i \in DOMAIN projs}
                    \cup {groups[i].t : i \in DOMAIN groups} \cup {filter.t}
    IN CASE "panic" \in outcomes -> Panic
         [] "error" \in outcomes -> Error
         [] OTHER ->
              [t |-> CASE CanBuildFilterPlan(lp) -> "filterPlan"
                       [] lp.GroupingStmt -> "groupbyExecutionPlan"
                       [] OTHER -> "defaultSelectExecutionPlan",
               projections |-> projs, groupList |-> groups, filter |-> filter]

MakePhysicalPlan(lp) ==
    PhysicalPlan(lp, [i \in DOMAIN lp.Projections |-> prepareProjection(lp.Projections[i])],
                 [i \in DOMAIN lp.GroupList |-> ExpressionToEvaluator(lp.GroupList[i])],
                 IF lp.Filter = Nil THEN Nil ELSE ExpressionToEvaluator(lp.Filter))

-----------------------------------------------------------------------------
(* Projections.                                                              *)

\* The columns of a wildcard do not overwrite others.
PullUp(where, v) == [k \in DOMAIN where \cup DOMAIN v.map |->
                        IF k \in DOMAIN where THEN where[k] ELSE v.map[k]]

assignOutputValue(where, p, v) ==
    CASE p.alias = Star -> IF v.t = "Map" THEN Map(PullUp(where.map, v)) ELSE Error
      [] p.aliasPath = Nil -> Error
      [] OTHER -> Paths!set(where, p.aliasPath, v)

\* What the assignment writes into the row, which shares its maps and arrays with
\* the result.
RowAfter(row, where, p, v) ==
    LET places == IF p.alias = Star THEN {} ELSE Paths!SharedPlaces(where, p.aliasPath.components)
    IN FoldSet(LAMBDA at, r : Paths!setBelow(r, at, Paths!Settled(v, row)), row, places)

\* The projections on one row: the result and what has become of the row.
Assigned(acc, where, p, v) ==
    IF IsError(where) THEN [acc EXCEPT !.out = Error]
    ELSE [out |-> where, row |-> RowAfter(acc.row, acc.out, p, v)]

AddValue(acc, p, v) ==
    IF IsError(v) THEN [acc EXCEPT !.out = Error]
    ELSE Assigned(acc, assignOutputValue(acc.out, p, v), p, v)

Result(end) == [end EXCEPT !.out = IF IsError(@) THEN Error ELSE Paths!Settled(@, end.row)]

Project(projs, row) ==
    Result(FoldLeft(LAMBDA acc, p :
               IF IsError(acc.out) THEN acc
               ELSE AddValue(acc, p, Eval(p.evaluator, Paths!Shared(acc.row, <<>>))),
               [out |-> Map(<<>>), row |-> row], projs))

\* A condition that is NULL does not hold.
Condition(v) == IF ThreeValued(v) THEN Bool(Truth(v)) ELSE Error

\* The rows that satisfy WHERE, or one Error.
Kept(rows, holds) ==
    LET kept == SelectSeq([i \in DOMAIN rows |-> i], LAMBDA i : Truth(holds[i]))
    IN IF AnyError(holds) THEN <<Error>> ELSE [i \in DOMAIN kept |-> rows[kept[i]]]

FilterRows(plan, rows) ==
    IF plan.filter = Nil THEN rows
    ELSE Kept(rows, [i \in DOMAIN rows |-> Condition(Eval(plan.filter, rows[i]))])

-----------------------------------------------------------------------------
(* performQueryOnBuffer of the plans without and with grouping.  Both return  *)
(* the results in order, or one Error, and the rows, which projections may    *)
(* have changed.                                                            *)

Outcome(results, rows) ==
    [results |-> IF AnyError(results) THEN <<Error>> ELSE results, rows |-> rows]

AllOf(done) == Outcome([i \in DOMAIN done |-> done[i].out], [i \in DOMAIN done |-> done[i].row])
SelectRows(plan, rows) == AllOf([i \in DOMAIN rows |-> Project(plan.projections, rows[i])])

allAggEvaluators(plan) ==
    FoldLeft(LAMBDA aggs, p : p.aggrEvals @@ aggs, NoAggs, plan.projections)

SameGroup(v, w) == SameHash(v, w) /\ Equal(v, w)

\* The groups in the order of their first rows: the values of the GROUP BY columns
\* and the rows.
AddRow(groups, row, values) ==
    LET at == SelectInSeq(groups, LAMBDA g : SameGroup(values, g.group))
    IN IF at = 0 THEN Append(groups, [group |-> values, rows |-> <<row>>])
       ELSE [groups EXCEPT ![at].rows = Append(@, row)]

GroupRows(plan, rows) ==
    FoldLeft(LAMBDA groups, row : AddRow(groups, row, Array(EvalAll(plan.groupList, row))), <<>>, rows)

\* A copy of the first row with the values to aggregate.
GroupRow(plan, g) ==
    LET aggs == allAggEvaluators(plan)
    IN Map([k \in DOMAIN aggs |-> Array([i \in DOMAIN g.rows |-> Eval(aggs[k], g.rows[i])])]
           @@ Head(g.rows).map)

OutputProjections(plan) == SelectSeq(plan.projections, LAMBDA p : p.alias # HavingAlias)
HavingProjections(plan) == SelectSeq(plan.projections, LAMBDA p : p.alias = HavingAlias)

\* The results of a group: none if HAVING does not hold.
ResultIf(holds, plan, row) ==
    CASE IsError(holds) -> <<Error>>
      [] Truth(holds) -> <<Project(OutputProjections(plan), row).out>>
      [] OTHER -> <<>>

EvalGroupRow(plan, row) ==
    LET having == HavingProjections(plan)
    IN ResultIf(IF having = <<>> THEN Bool(TRUE) ELSE Condition(Eval(having[1].evaluator, row)), plan, row)
EvalGroup(plan, g) == EvalGroupRow(plan, GroupRow(plan, g))

\* Without rows and without GROUP BY the aggregates of nothing are computed; HAVING
\* is assigned like a projection.
EvalNoGroup(plan) ==
    IF plan.groupList # <<>> THEN <<>>
    ELSE <<Project(plan.projections, Map([k \in DOMAIN allAggEvaluators(plan) |-> Array(<<>>)])).out>>

RowFails(plan, row) ==
    LET aggs == allAggEvaluators(plan)
    IN \/ AnyError(EvalAll(plan.groupList, row))
       \/ \E k \in DOMAIN aggs : IsError(Eval(aggs[k], row))

EvalGroups(plan, groups) == FlattenSeq([i \in DOMAIN groups |-> EvalGroup(plan, groups[i])])

SelectGroups(plan, rows) ==
    Outcome(CASE \E i \in DOMAIN rows : RowFails(plan, rows[i]) -> <<Error>>
              [] rows = <<>> -> EvalNoGroup(plan)
              [] OTHER -> EvalGroups(plan, GroupRows(plan, rows)), rows)

\* The query on the rows of a window; the filter plan sees only the last of them.
SelectFrom(plan, rows, seen) ==
    CASE AnyError(rows) -> Outcome(<<Error>>, seen)
      [] plan.t = "groupbyExecutionPlan" -> SelectGroups(plan, rows)
      [] OTHER -> SelectRows(plan, rows)

RunQuery(plan, window) ==
    LET seen == IF plan.t = "filterPlan" THEN <<Last(window)>> ELSE window
    IN SelectFrom(plan, FilterRows(plan, seen), seen)
=============================================================================
