---------------------------- MODULE BQLReference ----------------------------
(***************************************************************************)
(* What statements mean, said without a parser stack, flat expressions,      *)
(* references to aggregated inputs or evaluators, and the properties that     *)
(* compare the life of a statement (BQLStatement) with it.                   *)
(***************************************************************************)
EXTENDS BQLStatement

-----------------------------------------------------------------------------
(* The tree of an expression of names, operators and parentheses: the operator *)
(* that binds least is at the root, and of several the rightmost one.         *)

Levels == <<{"OR"}, {"AND"}, {"=", "<"}, {"|"}, {"+", "-"}, {"*", "/", "%"}>>
OpNamed == [OR |-> "Or", AND |-> "And"] @@ ("=" :> "Equal") @@ ("<" :> "Less") @@ ("|" :> "Concat")
           @@ ("+" :> "Plus") @@ ("-" :> "Minus") @@ ("*" :> "Multiply") @@ ("/" :> "Divide")
           @@ ("%" :> "Modulo")
OpSymbols == UNION {Levels[i] : i \in DOMAIN Levels}

Depth(s, i) == Len(SelectSeq(SubSeq(s, 1, i), LAMBDA x : x = "("))
               - Len(SelectSeq(SubSeq(s, 1, i), LAMBDA x : x = ")"))

Column(x) == [t |-> "RowValue", Relation |-> <<>>, Column |-> <<x>>]

\* The symbols of an expression without spaces, and with one bar for a concatenation.
RECURSIVE Tree(_)
Tree(s) ==
    LET open == {i \in DOMAIN s : s[i] \in OpSymbols /\ Depth(s, i) = 0}
        level == Min({l \in DOMAIN Levels : \E i \in open : s[i] \in Levels[l]})
        root == Max({i \in open : s[i] \in Levels[level]})
    IN CASE open # {} ->
              [t |-> "BinaryOpAST", Op |-> OpNamed[s[root]],
               Left |-> Tree(SubSeq(s, 1, root - 1)), Right |-> Tree(SubSeq(s, root + 1, Len(s)))]
         [] Len(s) > 1 -> Tree(SubSeq(s, 2, Len(s) - 1))
         [] OTHER -> Column(s[1])

Symbols(s) ==
    LET kept == SelectSeq([i \in DOMAIN s |-> i],
                          LAMBDA i : s[i] # " " /\ ~(s[i] = "|" /\ i > 1 /\ s[i - 1] = "|"))
    IN [i \in DOMAIN kept |-> s[kept[i]]]

-----------------------------------------------------------------------------
(* The value of an expression for a group of tuples.  A tuple is its data d     *)
(* and its timestamp ts.                                                     *)

\* The places of a slice in an array of n elements, counted from 0.
Slice(c, n) ==
    LET to == IF c.endSet THEN Paths!Resolved(c.end, n) ELSE n
        from == IF c.step > 0 THEN Max({Paths!Resolved(c.start, n), 0})
                ELSE Min({Paths!Resolved(c.start, n), n - 1})
        inside(i) == IF c.step > 0 THEN from <= i /\ i < to ELSE to < i /\ i <= from
    IN SetToSortSeq({i \in 0..(n - 1) : inside(i) /\ (i - from) % Abs(c.step) = 0},
                    LAMBDA i, j : c.step * i < c.step * j)

ReadOne(c, v) ==
    IF c.op = "slice"
    THEN IF v.t # "Array" THEN Error
         ELSE Paths!Elements(v.arr, Slice(c, Len(v.arr)))
    ELSE Paths!extract(c, v)

\* Behind a slice a path goes on from each element.
RECURSIVE ReadAll(_, _)
ReadOn(c, cs, v) ==
    CASE IsError(v) -> Error
      [] Paths!Many(c) -> ArrayOf([i \in DOMAIN v.arr |-> ReadAll(cs, v.arr[i])])
      [] OTHER -> ReadAll(cs, v)
ReadAll(cs, v) ==
    IF cs = <<>> THEN v ELSE ReadOn(Head(cs), Tail(cs), ReadOne(Head(cs), v))

ReadPath(path, data) == IF IsError(path) THEN Error ELSE ReadAll(path.components, data)
Read(column, data) == ReadPath(Paths!CompilePath(column), data)

\* Truth values from FALSE over NULL to TRUE.
TruthOrder == <<Bool(FALSE), Null, Bool(TRUE)>>
TruthRank(v) == CHOOSE i \in 1..3 : TruthOrder[i] = v
Lesser(v, w) == TruthOrder[Min({TruthRank(v), TruthRank(w)})]
Greatest(v, w) == TruthOrder[Max({TruthRank(v), TruthRank(w)})]
Conclusion(op, l, r) ==
    CASE ~ThreeValued(l) -> Error
      [] l = Bool(op = "Or") -> l
      [] ~ThreeValued(r) -> Error
      [] OTHER -> IF op = "And" THEN Lesser(l, r) ELSE Greatest(l, r)
Opposite(v) == IF ThreeValued(v) THEN TruthOrder[4 - TruthRank(v)] ELSE Error

Compared(op, v, w) ==
    CASE op = "Equal" -> Bool(Equal(v, w))
      [] op = "NotEqual" -> Bool(~Equal(v, w))
      [] ~Comparable(v, w) \/ v.t \in {"Array", "Map"} -> Error
      [] op = "Less" -> Bool(Less(v, w))
      [] op = "Greater" -> Bool(Less(w, v))
      [] op = "LessOrEqual" -> Bool(Less(v, w) \/ Equal(v, w))
      [] op = "GreaterOrEqual" -> Bool(Less(w, v) \/ Equal(v, w))

Operation(op, v, w) ==
    CASE IsError(v) \/ IsError(w) -> Error
      [] op \in {"Is", "IsNot"} -> Bool((v.t = "Null") = (op = "Is"))
      [] v.t = "Null" \/ w.t = "Null" -> Null
      [] op \in {"Plus", "Minus", "Multiply", "Divide", "Modulo"} -> NumericOp(op, v, w)
      [] op = "Concat" -> Concat(v, w)
      [] OTHER -> Compared(op, v, w)

\* The rows of a group in the order that ORDER BY asks for, of the ranks in keys.
Sorted(group, ordering, keys) ==
    LET before(i, j) ==
            \E k \in DOMAIN ordering :
                /\ \A l \in 1..(k - 1) : Equal(keys[i][l], keys[j][l])
                /\ IF ordering[k].Ascending = "No" THEN Less(keys[j][k], keys[i][k])
                   ELSE Less(keys[i][k], keys[j][k])
        place(i) == 1 + Cardinality({j \in DOMAIN group : before(j, i) \/ (j < i /\ ~before(i, j))})
    IN [p \in DOMAIN group |-> group[CHOOSE i \in DOMAIN group : place(i) = p]]

RECURSIVE Value(_, _)

\* The argument of a function: all the values of the group where it aggregates.
ValueInEach(x, rows) ==
    [r \in DOMAIN rows |-> IF x.t = "Wildcard" THEN Integer(1) ELSE Value(x, <<rows[r]>>)]
Argument(e, i, group) ==
    LET keys == [r \in DOMAIN group |->
                    [k \in DOMAIN e.Ordering |-> Value(e.Ordering[k].Expr, <<group[r]>>)]]
    IN IF IsAggregationParameter(e.Function, i)
       THEN ArrayOf(ValueInEach(e.Expressions[i], Sorted(group, e.Ordering, keys)))
       ELSE Value(e.Expressions[i], group)

Called(f, args) == IF AnyError(args) THEN Error ELSE CallFunction(f, args)

\* The expression that CASE chooses; the first condition that fails decides as well.
Chosen(e, ref, whens) ==
    LET hits == {i \in DOMAIN whens : IsError(whens[i]) \/ Equal(ref, whens[i])}
    IN CASE IsError(ref) -> [t |-> "Failing"]
         [] hits = {} -> IF e.Else = Nil THEN [t |-> "NullLiteral"] ELSE e.Else
         [] IsError(whens[Min(hits)]) -> [t |-> "Failing"]
         [] OTHER -> e.Checks[Min(hits)].Then

Selection(selector, v) ==
    IF v.t \in {"Map", "Array"}
    THEN Read(IF Head(selector) = "." THEN Tail(selector) ELSE selector, v) ELSE Error

Value(e, group) ==
    CASE e.t \in {"RowValue", "RowMeta", "Wildcard"} /\ group = <<>> -> Error
      [] e.t = "RowValue" -> Read(e.Column, group[1].d)
      [] e.t = "RowMeta" -> Timestamp(group[1].ts)
      [] e.t = "Wildcard" -> group[1].d
      [] e.t = "NullLiteral" -> Null
      [] e.t = "NumericLiteral" -> Integer(e.int)
      [] e.t = "FloatLiteral" -> Float(e.float)
      [] e.t = "BoolLiteral" -> Bool(e.bool)
      [] e.t = "StringLiteral" -> Str(e.str)
      [] e.t = "AliasAST" -> Value(e.Expr, group)
      [] e.t = "UnaryOpAST" ->
           IF e.Op = "Not" THEN Opposite(Value(e.Expr, group))
           ELSE Operation("Multiply", Value(e.Expr, group), Integer(-1))
      [] e.t = "BinaryOpAST" /\ e.Right.t = "Missing" ->
           Bool(IsError(Value(e.Left, group)) = (e.Op = "Is"))
      [] e.t = "BinaryOpAST" /\ e.Op \in {"And", "Or"} ->
           Conclusion(e.Op, Value(e.Left, group), Value(e.Right, group))
      [] e.t = "BinaryOpAST" -> Operation(e.Op, Value(e.Left, group), Value(e.Right, group))
      [] e.t = "TypeCastAST" -> Cast(Value(e.Expr, group), e.Target)
      [] e.t = "FuncAppAST" ->
           Called(e.Function, [i \in DOMAIN e.Expressions |-> Argument(e, i, group)])
      [] e.t = "FuncAppSelectorAST" -> Selection(e.Selector, Value(e.FuncApp, group))
      [] e.t = "ArrayAST" ->
           ArrayOf([i \in DOMAIN e.Expressions |-> Value(e.Expressions[i], group)])
      [] e.t = "MapAST" ->
           MapOf([i \in DOMAIN e.Entries |-> e.Entries[i].Key],
                 [i \in DOMAIN e.Entries |-> Value(e.Entries[i].Value, group)])
      [] e.t \in {"ConditionCaseAST", "ExpressionCaseAST"} ->
           Value(Chosen(e, IF e.t = "ConditionCaseAST" THEN Bool(TRUE) ELSE Value(e.Expr, group),
                        [i \in DOMAIN e.Checks |-> Value(e.Checks[i].When, group)]), group)
      [] e.t = "Failing" -> Error

-----------------------------------------------------------------------------
(* The results of a SELECT statement for the tuples of its window.              *)

IsAggregate(e) == e.t = "FuncAppAST" /\ isAggregateFunc(e.Function, Len(e.Expressions))

RECURSIVE Aggregates(_)
Aggregates(e) ==
    (IF IsAggregate(e) THEN {e} ELSE {})
    \cup UNION {Aggregates(Children(e)[i]) : i \in DOMAIN Children(e)}

Selected(s) == s.Projections \o (IF s.Having = Nil THEN <<>> ELSE <<s.Having>>)
SelectedAggregates(s) == UNION {Aggregates(Selected(s)[i]) : i \in DOMAIN Selected(s)}
IsGrouping(s) == s.GroupList # <<>> \/ s.Having # Nil \/ SelectedAggregates(s) # {}

GroupValues(s, row) == [i \in DOMAIN s.GroupList |-> Value(s.GroupList[i], <<row>>)]

\* Every row of the window must have a group and values to aggregate.
RowIsRefused(s, row) ==
    \/ AnyError(GroupValues(s, row))
    \/ \E e \in SelectedAggregates(s) :
          \/ \E i \in DOMAIN e.Expressions : IsError(Argument(e, i, <<row>>))
          \/ \E i \in DOMAIN e.Ordering : IsError(Value(e.Ordering[i].Expr, <<row>>))

WithResult(where, name, v) ==
    IF IsError(where) \/ IsError(v) THEN Error
    ELSE assignOutputValue(where, [alias |-> name, aliasPath |-> AliasPath(name)], v)
ResultOf(s, group) ==
    FoldLeft(LAMBDA where, i :
                 WithResult(where, Header(s.Projections[i], i), Value(s.Projections[i], group)),
             Map(<<>>), [i \in DOMAIN s.Projections |-> i])

Together(s, r1, r2) == Equal(Array(GroupValues(s, r1)), Array(GroupValues(s, r2)))

\* The groups of rows, in the order of their first rows.
GroupsFrom(s, rows, firsts) ==
    [g \in DOMAIN firsts |-> SelectSeq(rows, LAMBDA r : Together(s, rows[firsts[g]], r))]
Groups(s, rows) ==
    IF rows = <<>> /\ s.GroupList = <<>> THEN << <<>> >>
    ELSE GroupsFrom(s, rows, SelectSeq([i \in DOMAIN rows |-> i],
             LAMBDA i : \A j \in 1..(i - 1) : ~Together(s, rows[j], rows[i])))

\* The groups that satisfy a condition, which NULL does not.
Undecided(gs, e) == e # Nil /\ \E i \in DOMAIN gs : ~ThreeValued(Value(e, gs[i]))
Satisfying(gs, e) == SelectSeq(gs, LAMBDA g : IF e = Nil THEN TRUE ELSE Value(e, g) = Bool(TRUE))

OneError(rs) == IF AnyError(rs) THEN <<Error>> ELSE rs

ResultsOf(s, groups) == OneError([i \in DOMAIN groups |-> ResultOf(s, groups[i])])

ChosenResults(s, groups) ==
    IF Undecided(groups, s.Having) THEN <<Error>> ELSE ResultsOf(s, Satisfying(groups, s.Having))

GroupedResults(s, flat) ==
    IF \E i \in DOMAIN flat : RowIsRefused(s, flat[i]) THEN <<Error>>
    ELSE ChosenResults(s, Groups(s, flat))

\* The results for rows that satisfy WHERE, each as a group of its own.
MeaningFor(s, rows) ==
    IF IsGrouping(s) THEN GroupedResults(s, [i \in DOMAIN rows |-> rows[i][1]])
    ELSE ResultsOf(s, rows)

Meaning(s, tuples) ==
    LET input == [i \in DOMAIN tuples |-> <<[d |-> tuples[i], ts |-> i]>>]
    IN IF Undecided(input, s.Filter) THEN <<Error>> ELSE MeaningFor(s, Satisfying(input, s.Filter))

-----------------------------------------------------------------------------
(* Properties of parsing.                                                     *)

HasLargeNumber(s) ==
    \E i, j \in DOMAIN s : AllDigits(SubSeq(s, i, j)) /\ Natural(SubSeq(s, i, j)) > MaxInt

\* Every text that the grammar matches is a statement unless a number in it has too
\* many digits: no action of the grammar meets a parse stack it does not expect (the
\* type assertions and panics of stack.go, which ParseStmt recovers from), and a
\* statement is on the stack.
MatchedTextIsStatement ==
    failure \in {"none", "syntax"} \/ (failure = "panic" /\ HasLargeNumber(text0))

\* Expressions are read by the precedence of their operators and from left to
\* right (the nesting of the rules from orExpr to minusExpr, and
\* AssembleBinaryOperation).
OperatorsBindByPrecedence ==
    \A i \in DOMAIN results :
        results[i].t = "EvalStmt" /\ results[i].Input = Nil /\ Len(results) = 1
            /\ {text0[k] : k \in 2..Len(text0)} \subseteq OpSymbols \cup Names \cup {" ", "(", ")"}
        => results[i].Expr = Tree(Symbols(Tail(text0)))

AreResults(alone) ==
    (\A i \in DOMAIN alone : alone[i].ok) =>
        /\ results = [i \in DOMAIN alone |-> alone[i].stmt]
        /\ \A i \in DOMAIN alone : alone[i].left = 0

\* If ParseStmt finds a statement in each of the parts between semicolons, then
\* ParseStmts finds these statements in the text (the trailing white space that a
\* statement includes, and the text that ParseStmt returns as rest), and none leaves
\* anything on the stack that the next one starts with.
StatementsParseAlone ==
    LET marks == SelectSeq([i \in DOMAIN text0 |-> i], LAMBDA i : text0[i] = ";")
        bounds == <<0>> \o marks \o <<Len(text0) + 1>>
        part(i) == TrimSpace(SubSeq(text0, bounds[i] + 1, bounds[i + 1] - 1))
        parts == SelectSeq([i \in 1..(Len(bounds) - 1) |-> part(i)], LAMBDA p : p # <<>>)
    IN pc \in {"done", "failed"} /\ Len(parts) > 1 =>
           AreResults([i \in DOMAIN parts |-> ParseStmt(parts[i])])

\* What the grammar matches are statements, alone and in a sequence of them.
TextsAreStatements == MatchedTextIsStatement /\ StatementsParseAlone

\* Expressions whose String method loses nothing: comparisons are not nested, the
\* operand of a prefix operator or of a cast has none, floats have decimals, quotes
\* do not occur in keys, and an array is not a single string.
RECURSIVE Printable(_)
Printable(e) ==
    LET comparisons == {"Equal", "Less", "LessOrEqual", "Greater", "GreaterOrEqual", "NotEqual", "Is", "IsNot"}
        nested(x) == (x.t = "BinaryOpAST" /\ x.Op \in comparisons) \/ x.t = "UnaryOpAST"
    IN /\ \A i \in DOMAIN Children(e) : Printable(Children(e)[i])
       /\ e.t = "BinaryOpAST" /\ e.Op \in comparisons => ~nested(e.Left) /\ ~nested(e.Right)
       /\ e.t = "UnaryOpAST" => e.Expr.t # "UnaryOpAST"
       /\ e.t = "FloatLiteral" => e.float % FloatScale # 0
       /\ e.t = "ArrayAST" => ~(Len(e.Expressions) = 1 /\ e.Expressions[1].t = "StringLiteral")

PrintableStmt(s) ==
    CASE s.t = "SelectStmt" -> \A i \in DOMAIN Clauses(s) : Printable(Clauses(s)[i])
      [] s.t = "EvalStmt" -> Printable(s.Expr)
      [] OTHER -> TRUE

\* The text that the String method of a statement returns is parsed as the same
\* statement (the server and the shell pass statements on as text).
StringParsesBack ==
    pc = "done" => \A i \in DOMAIN results :
        PrintableStmt(results[i]) =>
            \A r \in {ParseStmt(StmtString(results[i]))} : r.ok /\ r.stmt = results[i] /\ r.rest = <<>>

-----------------------------------------------------------------------------
(* Properties of evaluation.                                                  *)

\* The results of a plan are those of the statement: parsing, analysis, the
\* references to aggregated inputs (which projections share), the grouping by hash
\* values and the order of aggregated values lose nothing.
SelectMeansStatement ==
    pc = "running" /\ window # <<>> => out.results = Meaning(stmt, window)

\* The relations that an expression refers to.
RECURSIVE References(_)
References(e) ==
    (IF e.t \in {"RowValue", "RowMeta"} THEN {e.Relation} ELSE {})
    \cup UNION {References(Children(e)[i]) : i \in DOMAIN Children(e)}

\* Planning or evaluating a statement panics only for CASE with an expression that
\* refers to no relation and a branch that does (ExpressionCaseAST writes to the nil
\* map of its expression), and for a selector behind a call with ORDER BY.
RECURSIVE KnownPanic(_)
KnownPanic(e) ==
    \/ e.t = "ExpressionCaseAST" /\ References(e.Expr) = {} /\ References(e) # {}
    \/ e.t = "FuncAppSelectorAST" /\ e.FuncApp.Ordering # <<>>
    \/ \E i \in DOMAIN Children(e) : KnownPanic(Children(e)[i])

PanicIsKnown ==
    pc = "panicked" =>
        LET es == IF stmt.t = "EvalStmt" THEN <<stmt.Expr>> ELSE Clauses(stmt)
        IN \E i \in DOMAIN es : KnownPanic(es[i])

\* EVAL ... ON computes the value of the expression for the given map.
EvalMeansExpression ==
    pc = "evaluated" /\ stmt.Input # Nil =>
        out = Value(stmt.Expr, <<[d |-> Value(stmt.Input, <<>>), ts |-> 0]>>)

\* Analyze accepts a statement only if each of its references names a relation of
\* the FROM clause, or none if there is only one relation.
ReferencesResolve ==
    pc = "running" =>
        UNION {References(Clauses(stmt)[i]) : i \in DOMAIN Clauses(stmt)}
        \subseteq {Aliased(stmt.Relations[i]).Alias : i \in DOMAIN stmt.Relations}
                  \cup (IF Len(stmt.Relations) = 1 THEN {<<>>} ELSE {})

Overlap(p, q) ==
    LET n == Min({Len(p.components), Len(q.components)})
    IN SubSeq(p.components, 1, n) = SubSeq(q.components, 1, n)

\* A projection's value is found in the result under its name unless a later
\* projection has the same name or a part of it; a wildcard does not hide it.
AssignedIsReadBack ==
    pc = "running" /\ window # <<>> /\ ~IsGrouping(stmt) /\ ~AnyError(out.results) =>
        \A r \in DOMAIN out.results, i \in DOMAIN stmt.Projections :
            LET path(j) == AliasPath(Header(stmt.Projections[j], j))
            IN path(i) # Nil
               /\ (\A j \in (i + 1)..Len(stmt.Projections) : path(j) # Nil => ~Overlap(path(i), path(j)))
               => Paths!evaluate(path(i), out.results[r])
                  = Value(stmt.Projections[i], <<[d |-> out.rows[r].map[StmtAlias],
                                                 ts |-> out.rows[r].map[TimestampKey(StmtAlias)].us]>>)

\* Values that are Equal have the same hash and belong to one group, and Less is a
\* total order of the others.
WindowValues == UNION {{window[i].map[k] : k \in DOMAIN window[i].map} : i \in DOMAIN window}

EqualValuesHashAlike ==
    \A v, w \in WindowValues :
        /\ Equal(v, w) <=> SameHash(v, w)
        /\ ~Equal(v, w) => Less(v, w) # Less(w, v)
        /\ Equal(v, w) => ~Less(v, w) /\ \A x \in WindowValues : Less(v, x) = Less(w, x)

\* "as per our assumptions about grouping, the non-aggregation data should be
\* identical within every group" (groupby_execution_plan.go): the results do not
\* depend on which row of a group represents it.
GroupDataIsIdentical ==
    pc = "running" /\ window # <<>> /\ stmt.GroupList # <<>> /\ ~AnyError(out.results) =>
        LET hashes(rs) == {Hash(rs[i]) : i \in DOMAIN rs}
        IN hashes(out.results) = hashes(RunQuery(plan, Rows(StmtAlias, Reverse(window))).results)

\* "Process must NOT modify any field of the input tuple when its core.TFShared
\* flag is set" (transform_plan.go).
InputIsUntouched ==
    pc = "running" /\ window # <<>> =>
        ToSet(out.rows) \subseteq ToSet(Rows(StmtAlias, window))

\* A statement means what it says, from its text to its results: SELECT and EVAL compute
\* what the clauses mean, a result is found under the name it was given, and the rows
\* it was computed from are as they were.
ResultsMeanStatement ==
    SelectMeansStatement /\ EvalMeansExpression /\ AssignedIsReadBack /\ InputIsUntouched

\* A statement that is accepted refers to relations it has, and planning and running it
\* panics only where KnownPanic says.
ReferencesAreKnown == ReferencesResolve /\ PanicIsKnown

\* GROUP BY makes groups of equal values, and a group can be represented by any of its rows.
GroupingIsWellDefined == EqualValuesHashAlike /\ GroupDataIsIdentical
=============================================================================
