-------------------------- MODULE FlatExpressions ---------------------------
(***************************************************************************)
(* Expressions that can be evaluated on one row                             *)
(* (src/bql/execution/expressions.go): the conversion of a syntax tree into   *)
(* one, the separation of the inputs of aggregate functions, and what the     *)
(* analysis of a statement asks of it.  Literals keep the records of the      *)
(* syntax tree.                                                              *)
(***************************************************************************)
EXTENDS BuiltinFunctions

\* The expressions that a conversion descends into, in its order.
Operands(e) ==
    CASE e.t = "BinaryOpAST" -> IF e.Right.t = "Missing" THEN <<e.Left>> ELSE <<e.Left, e.Right>>
      [] e.t = "FuncAppAST" -> e.Expressions
      [] e.t = "ExpressionCaseAST" -> Append(Tail(Children(e)), e.Expr)
      [] OTHER -> Children(e)

\* The flat expression for e when the ones for its operands are fs.
Node(e, fs) ==
    CASE e.t = "RowMeta" -> [t |-> "rowMeta", Relation |-> e.Relation]
      [] e.t = "RowValue" -> [t |-> "rowValue", Relation |-> e.Relation, Column |-> e.Column]
      [] e.t = "Wildcard" -> [t |-> "wildcardAST", Relation |-> e.Relation]
      [] e.t \in {"NullLiteral", "NumericLiteral", "FloatLiteral", "BoolLiteral",
                  "StringLiteral"} -> e
      [] e.t = "AliasAST" -> fs[1]
      [] e.t = "BinaryOpAST" ->
           (CASE e.Right.t # "Missing" ->
                   [t |-> "binaryOpAST", Op |-> e.Op, Left |-> fs[1], Right |-> fs[2]]
              [] fs[1].t = "rowValue" /\ e.Op \in {"Is", "IsNot"} ->
                   [t |-> "missing", Expr |-> fs[1], Not |-> e.Op = "IsNot"]
              [] OTHER -> Error)
      [] e.t = "UnaryOpAST" -> [t |-> "unaryOpAST", Op |-> e.Op, Expr |-> fs[1]]
      [] e.t = "TypeCastAST" -> [t |-> "typeCastAST", Expr |-> fs[1], Target |-> e.Target]
      [] e.t = "FuncAppSelectorAST" ->
           [t |-> "funcAppSelectorAST", Expr |-> fs[1], Selector |-> e.Selector]
      [] e.t = "FuncAppAST" -> [t |-> "funcAppAST", Function |-> e.Function, Expressions |-> fs]
      [] e.t = "ArrayAST" -> [t |-> "arrayAST", Expressions |-> fs]
      [] e.t = "MapAST" ->
           [t |-> "mapAST", Keys |-> [i \in DOMAIN fs |-> e.Entries[i].Key], Expressions |-> fs]
      [] e.t \in {"ConditionCaseAST", "ExpressionCaseAST"} ->
           LET n == Len(e.Checks)
           IN [t |-> "caseAST",
               Reference |-> IF e.t = "ConditionCaseAST" THEN [t |-> "BoolLiteral", bool |-> TRUE]
                             ELSE fs[Len(fs)],
               Checks |-> [i \in 1..n |-> [When |-> fs[2 * i - 1], Then |-> fs[2 * i]]],
               Default |-> IF e.Else = Nil THEN [t |-> "NullLiteral"] ELSE fs[2 * n + 1]]
      [] OTHER -> Error

isNow(e) == e.t = "FuncAppAST" /\ e.Function = <<"now">> /\ e.Expressions = <<>>



NodeUnlessError(e, fs) == IF AnyError(fs) THEN Error ELSE Node(e, fs)

RECURSIVE ParserExprToFlatExpr(_)
ParserExprToFlatExpr(e) ==
    LET arity == Len(e.Expressions)
        refused == \/ ~Lookup(e.Function, arity)
                   \/ isAggregateFunc(e.Function, arity)
                   \/ e.Ordering # <<>>
    IN CASE isNow(e) /\ e.Ordering = <<>> -> [t |-> "stmtMeta"]
         [] e.t = "FuncAppAST" /\ refused -> Error
         [] OTHER -> NodeUnlessError(e, [i \in DOMAIN Operands(e) |-> ParserExprToFlatExpr(Operands(e)[i])])

-----------------------------------------------------------------------------
(* What the analysis asks of a flat expression.                                *)

Parts(f) ==
    CASE f.t = "binaryOpAST" -> <<f.Left, f.Right>>
      [] f.t \in {"unaryOpAST", "typeCastAST", "missing", "funcAppSelectorAST"} -> <<f.Expr>>
      [] f.t \in {"funcAppAST", "aggregateInputSorter", "arrayAST", "mapAST"} -> f.Expressions
      [] f.t = "caseAST" ->
           <<f.Reference, f.Default>>
           \o FlattenSeq([i \in DOMAIN f.Checks |-> <<f.Checks[i].When, f.Checks[i].Then>>])
      [] OTHER -> <<>>

\* Metadata has the name of its type and its fields, as Go's %#v prints a struct.
RECURSIVE Repr(_)
Repr(f) ==
    LET reprs(sep) == Join([i \in DOMAIN Parts(f) |-> Repr(Parts(f)[i])], sep)
        direction(o) == IF o.Ascending THEN <<" ", "ASC">> ELSE <<" ", "DESC">>
    IN CASE f.t = "rowValue" -> f.Relation \o <<":">> \o f.Column
         [] f.t = "rowMeta" -> <<"rowMeta">> \o f.Relation
         [] f.t = "stmtMeta" -> <<"stmtMeta">>
         [] f.t = "wildcardAST" -> Qualified(f.Relation, <<"*">>)
         [] f.t = "aggInputRef" -> f.Ref
         [] f.t = "FloatLiteral" -> FloatString(f.float) \o <<"f">>
         [] f.t = "StringLiteral" -> f.str
         [] f.t \in {"NumericLiteral", "NullLiteral", "BoolLiteral"} -> String(f)
         [] f.t = "missing" ->
              Parens(Repr(f.Expr)) \o <<"-">> \o (IF f.Not THEN <<"NOT", "-">> ELSE <<>>) \o <<"MISSING">>
         [] f.t = "binaryOpAST" -> Parens(Repr(f.Left)) \o OperatorString[f.Op] \o Parens(Repr(f.Right))
         [] f.t = "unaryOpAST" -> OperatorString[f.Op] \o Parens(Repr(f.Expr))
         [] f.t = "typeCastAST" -> <<"CAST">> \o Parens(Repr(f.Expr) \o <<" ", "AS", " ", f.Target>>)
         [] f.t = "funcAppAST" -> f.Function \o Parens(reprs(<<",">>))
         [] f.t = "funcAppSelectorAST" -> Repr(f.Expr) \o f.Selector
         [] f.t = "aggregateInputSorter" ->
              f.Function \o Parens(reprs(<<",">>) \o <<" ", "ORDER", " ", "BY", " ">>
                  \o Join([i \in DOMAIN f.Ordering |-> f.Ordering[i].Ref \o direction(f.Ordering[i])], <<",">>))
         [] f.t = "arrayAST" -> Enclosed("[", reprs(<<",", " ">>), "]")
         [] f.t = "mapAST" ->
              Enclosed("{", Join([i \in DOMAIN f.Keys |-> Enclosed(Quote, f.Keys[i], Quote)
                                      \o <<":">> \o Repr(f.Expressions[i])], <<",", " ">>), "}")
         [] f.t = "caseAST" ->
              <<"case">> \o Parens(Repr(f.Reference) \o <<":">>
                  \o Join([i \in DOMAIN f.Checks |-> Repr(f.Checks[i].When) \o <<"->">>
                               \o Repr(f.Checks[i].Then)], <<",">>)
                  \o <<",">> \o Repr(f.Default))

\* The parts whose columns count as columns of the expression.
ColumnParts(f) == IF f.t = "caseAST" THEN Tail(Parts(f)) ELSE Parts(f)

RECURSIVE Columns(_)
Columns(f) ==
    IF f.t = "rowValue" THEN {f}
    ELSE UNION {Columns(ColumnParts(f)[i]) : i \in DOMAIN ColumnParts(f)}

\* The levels of volatility are ordered: an expression has the lowest of its parts.
Volatile == 1
Stable == 2
Immutable == 3

RECURSIVE Volatility(_)
Volatility(f) ==
    CASE f.t \in {"funcAppAST", "aggregateInputSorter", "aggInputRef"} -> Volatile
      [] f.t \in {"wildcardAST", "stmtMeta"} -> Stable
      [] OTHER -> Min({Immutable} \cup {Volatility(Parts(f)[i]) : i \in DOMAIN Parts(f)})

RECURSIVE ContainsWildcard(_)
ContainsWildcard(f) ==
    f.t = "wildcardAST" \/ \E i \in DOMAIN Parts(f) : ContainsWildcard(Parts(f)[i])

-----------------------------------------------------------------------------
(* Aggregates.  An input of an aggregate function is replaced by a reference   *)
(* to the array of its values in a group; aggs holds the inputs by reference.  *)

MExprIDIndex(expr, idx) == <<"g_">> \o IntString(idx)

\* The eight digits of the SHA-1 hash of an expression's text stand for the text.
ExprID(expr, idx) ==
    <<"g_">> \o Repr(expr)
    \o (IF Volatility(expr) = Volatile THEN <<"_">> \o IntString(idx) ELSE <<>>)

NoAggs == <<>>
Count(aggs) == Cardinality(DOMAIN aggs)
Failed == [expr |-> Error, aggs |-> NoAggs]

\* The inputs es, which must be flat, and their references, after those in aggs.
AddRef(acc, id, expr) == [acc EXCEPT !.refs = Append(@, id), !.aggs = (id :> expr) @@ @]
AddInput(acc, expr, aggIdx) ==
    IF acc.failed \/ IsError(expr) THEN [acc EXCEPT !.failed = TRUE]
    ELSE AddRef(acc, ExprID(expr, aggIdx + Count(acc.aggs)), expr)

Inputs(es, aggs, aggIdx) ==
    FoldLeft(LAMBDA acc, e : AddInput(acc, ParserExprToFlatExpr(e), aggIdx),
             [failed |-> FALSE, refs |-> <<>>, aggs |-> aggs], es)

\* count(*) is counted like count(1).
Counted(e) ==
    [i \in DOMAIN e.Expressions |->
        IF e.Function = <<"count">> /\ e.Expressions[i].t = "Wildcard"
        THEN [t |-> "NumericLiteral", int |-> 1] ELSE e.Expressions[i]]

\* The call when its arguments are flats, its inputs ins and its orders sorts.
AggregateNode(e, flats, ins, sorts) ==
    LET aggregated(n) == {i \in 1..n : IsAggregationParameter(e.Function, i)}
        exprs == [i \in DOMAIN flats |->
                     IF i \in aggregated(i)
                     THEN [t |-> "aggInputRef", Ref |-> ins.refs[Cardinality(aggregated(i))]]
                     ELSE flats[i]]
        ordering == [i \in DOMAIN e.Ordering |-> [Ref |-> sorts.refs[i], Ascending |-> e.Ordering[i].Ascending # "No"]]
        orderText(i) == Repr(ParserExprToFlatExpr(e.Ordering[i].Expr))
                        \o (IF ordering[i].Ascending THEN <<>> ELSE <<" ", "DESC">>) \o <<",">>
    IN CASE AnyError(flats) \/ sorts.failed -> Failed
         [] e.Ordering = <<>> ->
              [expr |-> [t |-> "funcAppAST", Function |-> e.Function, Expressions |-> exprs],
               aggs |-> ins.aggs]
         [] OTHER ->
              [expr |-> [t |-> "aggregateInputSorter", Function |-> e.Function, Expressions |-> exprs,
                         Ordering |-> ordering,
                         ID |-> FlattenSeq([i \in DOMAIN e.Ordering |-> orderText(i)])],
               aggs |-> sorts.aggs]

AggregateOf(e, flats, ins, aggIdx) ==
    AggregateNode(e, flats, ins,
                  Inputs([i \in DOMAIN e.Ordering |-> e.Ordering[i].Expr], ins.aggs, aggIdx))

AggregateCall(e, aggIdx) ==
    LET es == Counted(e)
        aggregated == SelectSeq([i \in DOMAIN es |-> i], LAMBDA i : IsAggregationParameter(e.Function, i))
    IN AggregateOf(e, [i \in DOMAIN es |-> ParserExprToFlatExpr(es[i])],
                   Inputs([j \in DOMAIN aggregated |-> es[aggregated[j]]], NoAggs, aggIdx), aggIdx)

WithAggs(expr, aggs) == IF IsError(expr) THEN Failed ELSE [expr |-> expr, aggs |-> aggs]
NodeWithAggs(e, found) == WithAggs(NodeUnlessError(e, found.exprs), found.aggs)
AddOperand(acc, r) == [exprs |-> Append(acc.exprs, r.expr), aggs |-> r.aggs @@ acc.aggs]

\* An index for volatile inputs continues behind the aggregates found so far, but
\* not among the arguments of a function.  Other functions ignore ORDER BY here.
RECURSIVE ParserExprToMaybeAggregate(_, _)
ParserExprToMaybeAggregate(e, aggIdx) ==
    LET arity == Len(e.Expressions)
        operands == IF e.t = "FuncAppAST" THEN Counted(e) ELSE Operands(e)
        idx(acc) == IF e.t = "FuncAppAST" THEN aggIdx ELSE aggIdx + Count(acc.aggs)
    IN CASE isNow(e) -> [expr |-> [t |-> "stmtMeta"], aggs |-> NoAggs]
         [] e.t = "FuncAppAST" /\ ~Lookup(e.Function, arity) -> Failed
         [] e.t = "FuncAppAST" /\ isAggregateFunc(e.Function, arity) -> AggregateCall(e, aggIdx)
         [] OTHER -> NodeWithAggs(e,
              FoldLeft(LAMBDA acc, x : AddOperand(acc, ParserExprToMaybeAggregate(x, idx(acc))),
                       [exprs |-> <<>>, aggs |-> NoAggs], operands))
=============================================================================
