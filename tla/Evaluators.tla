----------------------------- MODULE Evaluators -----------------------------
(***************************************************************************)
(* The evaluation of flat expressions (src/bql/execution/evaluators.go and   *)
(* sort.go).  An evaluator is a record with its Go type in field t.  A row    *)
(* is a Map with one entry for each relation and one for its metadata.        *)
(***************************************************************************)
EXTENDS FlatExpressions

Paths == INSTANCE JSONPath

Panic == [t |-> "panic"]       \* a panic that nobody recovers from
Broken(evs) == {i \in DOMAIN evs : evs[i].t \in {"error", "panic"}}
FirstBroken(evs) == evs[Min(Broken(evs))]

-----------------------------------------------------------------------------
(* ExpressionToEvaluator.                                                     *)

KeyAccess(k) == [t |-> "pathAccess", path |-> [components |-> <<Paths!key(k)>>]]

PathAccess(path) == IF IsError(path) THEN Error ELSE [t |-> "pathAccess", path |-> path]
newPathAccess(s) == PathAccess(Paths!CompilePath(s))

Constant(v) == [t |-> "constant", value |-> v]
Negate(ev) == [t |-> "not", neg |-> ev]
BinOp(t, l, r) == [t |-> t, left |-> l, right |-> r]
NumOp(op, l, r) == [t |-> "numBinOp", op |-> op, left |-> l, right |-> r]

\* Where setMetadata puts the timestamp of a tuple and now() finds its value.
TimestampKey(rel) == rel \o <<":meta:", "TS">>
NowKey == <<":meta:", "NOW">>

BinaryEvaluator(f, l, r) ==
    LET lessOrEqual == BinOp("or", BinOp("less", l, r), BinOp("equal", l, r))
    IN CASE f.Op = "Or" -> BinOp("or", l, r)
         [] f.Op = "And" -> BinOp("and", l, r)
         [] f.Op = "Equal" -> BinOp("equal", l, r)
         [] f.Op = "Less" -> BinOp("less", l, r)
         [] f.Op = "LessOrEqual" -> lessOrEqual
         [] f.Op = "Greater" -> Negate(lessOrEqual)
         [] f.Op = "GreaterOrEqual" -> Negate(BinOp("less", l, r))
         [] f.Op = "NotEqual" -> Negate(BinOp("equal", l, r))
         [] f.Op = "Concat" -> BinOp("concat", l, r)
         [] f.Op = "Is" /\ f.Right.t = "NullLiteral" -> [t |-> "isNull", val |-> l]
         [] f.Op = "IsNot" /\ f.Right.t = "NullLiteral" -> Negate([t |-> "isNull", val |-> l])
         [] f.Op \in {"Plus", "Minus", "Multiply", "Divide", "Modulo"} -> NumOp(f.Op, l, r)
         [] OTHER -> Error

\* A function application takes a selector; the type assertion panics for others.
WithSelector(ev, path) ==
    CASE ev.t # "funcApp" -> Panic
      [] IsError(path) -> Error
      [] OTHER -> [ev EXCEPT !.selector = <<path>>]

FuncAppSelector(ev, selector) ==
    WithSelector(ev, Paths!CompilePath(IF Head(selector) = "." THEN Tail(selector) ELSE selector))

\* The sorted copy of an input has a key that is marked with the order.
SortedRef(ref, id) == ref \o <<"_">> \o id

newSortedInputAggFuncApp(f, evs) ==
    LET refs == {i \in DOMAIN f.Expressions : f.Expressions[i].t = "aggInputRef"}
    IN [t |-> "sortedInputAggFuncApp",
        f |-> [t |-> "funcApp", name |-> f.Function, selector |-> <<>>,
               params |-> [i \in DOMAIN evs |->
                   IF i \in refs THEN KeyAccess(SortedRef(f.Expressions[i].Ref, f.ID)) ELSE evs[i]]],
        id |-> f.ID, inputs |-> {f.Expressions[i].Ref : i \in refs}, ordering |-> f.Ordering]

\* The evaluator of f when those of its parts are evs.
EvaluatorFor(f, evs) ==
    LET column == IF Head(f.Column) = "[" THEN f.Relation \o f.Column
                  ELSE f.Relation \o <<".">> \o f.Column
    IN CASE f.t = "rowMeta" -> [t |-> "timestampCast", underlying |-> KeyAccess(TimestampKey(f.Relation))]
         [] f.t = "stmtMeta" -> [t |-> "timestampCast", underlying |-> KeyAccess(NowKey)]
         [] f.t = "rowValue" -> newPathAccess(IF f.Relation = <<>> THEN f.Column ELSE column)
         [] f.t = "aggInputRef" -> KeyAccess(f.Ref)
         [] f.t = "NullLiteral" -> Constant(Null)
         [] f.t = "NumericLiteral" -> Constant(Integer(f.int))
         [] f.t = "FloatLiteral" -> Constant(Float(f.float))
         [] f.t = "BoolLiteral" -> Constant(Bool(f.bool))
         [] f.t = "StringLiteral" -> Constant(Str(f.str))
         [] f.t = "wildcardAST" -> [t |-> "wildcard", Relation |-> f.Relation]
         [] Broken(evs) # {} -> FirstBroken(evs)
         [] f.t = "binaryOpAST" -> BinaryEvaluator(f, evs[1], evs[2])
         [] f.t = "unaryOpAST" -> IF f.Op = "Not" THEN Negate(evs[1])
                                  ELSE NumOp("Multiply", evs[1], Constant(Integer(-1)))
         [] f.t = "missing" -> [t |-> "missingPathCheck", eval |-> evs[1], negate |-> f.Not]
         [] f.t = "typeCastAST" -> [t |-> "typeCast", underlying |-> evs[1], target |-> f.Target]
         [] f.t = "funcAppSelectorAST" -> FuncAppSelector(evs[1], f.Selector)
         [] f.t = "funcAppAST" ->
              [t |-> "funcApp", name |-> f.Function, params |-> evs, selector |-> <<>>]
         [] f.t = "aggregateInputSorter" -> newSortedInputAggFuncApp(f, evs)
         [] f.t = "arrayAST" -> [t |-> "arrayBuilder", elems |-> evs]
         [] f.t = "mapAST" -> [t |-> "mapBuilder", names |-> f.Keys, elems |-> evs]
         [] f.t = "caseAST" ->
              LET n == Len(f.Checks)
              IN [t |-> "caseBuilder", reference |-> evs[1], defaultEval |-> evs[2],
                  whens |-> [i \in 1..n |-> evs[2 * i + 1]], thens |-> [i \in 1..n |-> evs[2 * i + 2]]]

RECURSIVE ExpressionToEvaluator(_)
ExpressionToEvaluator(f) ==
    EvaluatorFor(f, [i \in DOMAIN Parts(f) |-> ExpressionToEvaluator(Parts(f)[i])])

-----------------------------------------------------------------------------
(* Operations on values.                                                     *)

Truth(v) == v = Bool(TRUE)
ThreeValued(v) == v.t \in {"Null", "Bool"}

\* or.Eval and and.Eval once both sides are needed.
Or(l, r) ==
    CASE l.t = "Null" -> IF Truth(r) THEN r ELSE Null
      [] r.t = "Null" -> Null
      [] OTHER -> r

And(l, r) ==
    CASE l.t = "Null" -> IF r = Bool(FALSE) THEN r ELSE Null
      [] r.t = "Null" -> Null
      [] OTHER -> r

\* The comparison of newLess fails for values that have no order in BQL.
LessOp(v, w) ==
    IF ~Comparable(v, w) \/ v.t \in {"Array", "Map"} THEN Error ELSE Bool(Less(v, w))

\* The operation of numBinOp.Eval.
NumericOp(op, v, w) ==
    CASE ~({v.t, w.t} \subseteq Numeric) -> Error
      [] v.t = "Int" /\ w.t = "Int" -> IntOp(op, v.int, w.int)
      [] OTHER -> FloatOp(op, AsNumber(v), AsNumber(w))

Concat(v, w) == IF {v.t, w.t} = {"String"} THEN Str(v.str \o w.str) ELSE Error

Cast(v, target) ==
    CASE v.t \in {"error", "Null"} -> v
      [] target = "BOOL" -> ToBool(v)
      [] target = "INT" -> ToInt(v)
      [] target = "FLOAT" -> ToFloat(v)
      [] target = "STRING" -> ToStr(v)
      [] target = "TIMESTAMP" -> ToTimestamp(v)

Select(v, selector) ==
    CASE IsError(v) \/ selector = <<>> -> v
      [] v.t \in {"Map", "Array"} -> Paths!evaluate(selector[1], v)
      [] OTHER -> Error

\* indexSlice.Less for the orders' columns, and the order that the sort of a few
\* elements leaves: equal elements keep their places.
FirstDiffers(differ, columns, ordering, i, j) ==
    LET k == Min(differ)
    IN differ # {} /\ IF ordering[k].Ascending THEN Less(columns[k][i], columns[k][j])
                      ELSE Less(columns[k][j], columns[k][i])

IndexLess(columns, ordering, i, j) ==
    FirstDiffers({k \in DOMAIN columns : ~Equal(columns[k][i], columns[k][j])},
                 columns, ordering, i, j)

SortedIndexes(columns, ordering) ==
    SortSeq([i \in DOMAIN columns[1] |-> i],
            LAMBDA i, j : \/ IndexLess(columns, ordering, i, j)
                          \/ ~IndexLess(columns, ordering, j, i) /\ i < j)

Entries(v, k) == IF v.t = "Map" /\ k \in DOMAIN v.map THEN v.map[k] ELSE Error

\* A row with sorted copies of the inputs of an aggregate function.  They stay in
\* the row, where only functions with the same inputs and order read them.
WithCopies(ev, row, is) ==
    LET sorted(ref) == Array([i \in DOMAIN is |-> row.map[ref].arr[is[i]]])
        source(k) == {ref \in ev.inputs : SortedRef(ref, ev.id) = k}
    IN Map([k \in DOMAIN row.map \cup {SortedRef(ref, ev.id) : ref \in ev.inputs} |->
               IF source(k) = {} THEN row.map[k] ELSE sorted(CHOOSE ref \in source(k) : TRUE)])

WithSortedInputs(ev, row) ==
    LET columns == [i \in DOMAIN ev.ordering |-> Entries(row, ev.ordering[i].Ref).arr]
    IN WithCopies(ev, row, SortedIndexes(columns, ev.ordering))

\* wildcard.Eval.  If two relations have a column, it is undefined whose is taken.
Wildcard(rel, row) ==
    LET isMeta(k) == \E i \in DOMAIN k : k[i] = ":meta:"
        subs == IF rel = <<>> THEN {k \in DOMAIN row.map : ~isMeta(k)} ELSE {rel}
        holders(c) == {k \in subs : c \in DOMAIN row.map[k].map}
    IN CASE row.t # "Map" -> Error
         [] ~(subs \subseteq DOMAIN row.map) -> Error
         [] \E k \in subs : row.map[k].t # "Map" -> Error
         [] OTHER -> Map([c \in UNION {DOMAIN row.map[k].map : k \in subs} |->
                             row.map[CHOOSE k \in holders(c) : TRUE].map[c]])

-----------------------------------------------------------------------------
(* Eval.                                                                     *)

\* Both sides are evaluated first and null propagates.
Strict(ev, l, r) ==
    CASE IsError(l) \/ IsError(r) -> Error
      [] l.t = "Null" \/ r.t = "Null" -> Null
      [] ev.t = "equal" -> Bool(Equal(l, r))
      [] ev.t = "less" -> LessOp(l, r)
      [] ev.t = "numBinOp" -> NumericOp(ev.op, l, r)
      [] ev.t = "concat" -> Concat(l, r)

\* The right side is not evaluated if the left side decides.
Logical(ev, l, r) ==
    CASE ~ThreeValued(l) -> Error
      [] l = Bool(ev.t = "or") -> l
      [] ~ThreeValued(r) -> Error
      [] OTHER -> IF ev.t = "or" THEN Or(l, r) ELSE And(l, r)

Not(v) ==
    CASE ~ThreeValued(v) -> Error
      [] v.t = "Null" -> v
      [] OTHER -> Bool(~v.bool)

IsNull(v) == IF IsError(v) THEN Error ELSE Bool(v.t = "Null")
TimestampOnly(v) == IF v.t = "Timestamp" THEN v ELSE Error

Invoke(ev, args) ==
    IF AnyError(args) THEN Error ELSE Select(CallFunction(ev.name, args), ev.selector)

\* The last of several equal keys counts.
MapOf(names, vs) ==
    LET last(k) == Max({i \in DOMAIN names : names[i] = k})
    IN IF AnyError(vs) THEN Error
       ELSE Map([k \in {names[i] : i \in DOMAIN names} |-> vs[last(k)]])

\* The first clause that matches; the clauses behind it are not evaluated.
FirstBranch(ev, whens, hits) ==
    CASE hits = {} -> ev.defaultEval
      [] IsError(whens[Min(hits)]) -> Constant(Error)
      [] OTHER -> ev.thens[Min(hits)]

CaseBranch(ev, ref, whens) ==
    IF IsError(ref) THEN Constant(Error)
    ELSE FirstBranch(ev, whens, {i \in DOMAIN whens : IsError(whens[i]) \/ Equal(ref, whens[i])})

RECURSIVE Eval(_, _)

EvalAll(evs, row) == [i \in DOMAIN evs |-> Eval(evs[i], row)]

Eval(ev, row) ==
    CASE ev.t = "constant" -> ev.value
      [] ev.t = "pathAccess" -> IF row.t # "Map" THEN Error ELSE Paths!evaluate(ev.path, row)
      [] ev.t = "timestampCast" -> TimestampOnly(Eval(ev.underlying, row))
      [] ev.t = "missingPathCheck" ->
           IF row.t # "Map" THEN Error ELSE Bool(IsError(Eval(ev.eval, row)) # ev.negate)
      [] ev.t = "typeCast" -> Cast(Eval(ev.underlying, row), ev.target)
      [] ev.t \in {"or", "and"} -> Logical(ev, Eval(ev.left, row), Eval(ev.right, row))
      [] ev.t = "not" -> Not(Eval(ev.neg, row))
      [] ev.t \in {"equal", "less", "numBinOp", "concat"} ->
           Strict(ev, Eval(ev.left, row), Eval(ev.right, row))
      [] ev.t = "isNull" -> IsNull(Eval(ev.val, row))
      [] ev.t = "funcApp" -> Invoke(ev, EvalAll(ev.params, row))
      [] ev.t = "sortedInputAggFuncApp" -> Eval(ev.f, WithSortedInputs(ev, row))
      [] ev.t = "arrayBuilder" -> ArrayOf(EvalAll(ev.elems, row))
      [] ev.t = "mapBuilder" -> MapOf(ev.names, EvalAll(ev.elems, row))
      [] ev.t = "caseBuilder" ->
           Eval(CaseBranch(ev, Eval(ev.reference, row), EvalAll(ev.whens, row)), row)
      [] ev.t = "wildcard" -> Wildcard(ev.Relation, row)

EvalUnlessBroken(ev, input) == IF Broken(<<ev>>) # {} THEN ev ELSE Eval(ev, input)
EvaluateFlat(f, input) ==
    IF IsError(f) THEN Error ELSE EvalUnlessBroken(ExpressionToEvaluator(f), input)
EvaluateOnInput(e, input) == EvaluateFlat(ParserExprToFlatExpr(e), input)

\* There is no row: an access to one fails.
EvaluateFoldable(e) == IF Foldable(e) THEN EvaluateOnInput(e, Null) ELSE Error
=============================================================================
