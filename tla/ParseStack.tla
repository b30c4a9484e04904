----------------------------- MODULE ParseStack -----------------------------
(***************************************************************************)
(* The parse stack (src/bql/parser/stack.go): the actions of the grammar push *)
(* the components that were matched and replace the topmost ones by a larger  *)
(* one.  A stack is the sequence of its elements from the bottom to the top.  *)
(* A failed type assertion, a missing element and an explicit panic all leave *)
(* the stack BrokenStack.                                                    *)
(***************************************************************************)
EXTENDS BQLAst, FiniteSetsExt

Elem(begin, end, comp) == [begin |-> begin, end |-> end, comp |-> comp]
BrokenStack == <<Elem(0, 0, PanicNode)>>
Panicked(ps) == ps # <<>> /\ Last(ps).comp.t = "panic"

ExpressionTypes ==
    {"AliasAST", "BinaryOpAST", "UnaryOpAST", "TypeCastAST", "FuncAppAST",
     "FuncAppSelectorAST", "SortedExpressionAST", "ArrayAST", "MapAST", "ConditionCaseAST",
     "ExpressionCaseAST", "Wildcard", "RowValue", "RowMeta", "NumericLiteral",
     "FloatLiteral", "NullLiteral", "Missing", "BoolLiteral", "StringLiteral"}

\* The type assertion comp.(type).
IsA(comp, type) == IF type = "Expression" THEN comp.t \in ExpressionTypes ELSE comp.t = type

Push(ps, elem) == Append(ps, elem)

PushComponent(ps, begin, end, comp) ==
    IF begin > end \/ (ps # <<>> /\ Last(ps).end > begin) THEN BrokenStack
    ELSE Push(ps, Elem(begin, end, comp))

\* Pop as many elements as there are types, assert their types, and go on with
\* the remaining stack and the elements, the deepest one first.
pop(ps, types, Use(_, _)) ==
    LET rest == Len(ps) - Len(types)
        es == SubSeq(ps, rest + 1, Len(ps))
    IN IF rest >= 0 /\ \A i \in DOMAIN types : IsA(es[i].comp, types[i])
       THEN Use(SubSeq(ps, 1, rest), es)
       ELSE BrokenStack

Span(es, comp) == Elem(es[1].begin, Last(es).end, comp)
PushSpan(ps, es, comp) == PushComponent(ps, es[1].begin, Last(es).end, comp)

MCollectTouching(ps, begin) == Max({0} \cup {i \in DOMAIN ps : ps[i].end < begin})

\* The elements above this depth end behind begin.
collectDepth(ps, begin) == Max({0} \cup {i \in DOMAIN ps : ps[i].end <= begin})

collectElements(ps, begin, type, Use(_, _)) ==
    LET k == collectDepth(ps, begin)
        comps == [i \in 1..(Len(ps) - k) |-> ps[k + i].comp]
    IN IF \A i \in DOMAIN comps : IsA(comps[i], type) THEN Use(SubSeq(ps, 1, k), comps) ELSE BrokenStack

-----------------------------------------------------------------------------
(* SELECT statements.                                                        *)

AssembleSelect(ps) ==
    pop(ps, <<"EmitterAST", "ProjectionsAST", "WindowedFromAST", "FilterAST", "GroupingAST",
              "HavingAST">>,
        LAMBDA rest, es :
            Push(rest, Span(es, [t |-> "SelectStmt",
                EmitterType |-> es[1].comp.EmitterType,
                EmitterOptions |-> es[1].comp.EmitterOptions,
                Projections |-> es[2].comp.Projections, Relations |-> es[3].comp.Relations,
                Filter |-> es[4].comp.Filter, GroupList |-> es[5].comp.GroupList,
                Having |-> es[6].comp.Having])))

AssembleSelectUnion(ps, begin, end) ==
    collectElements(ps, begin, "SelectStmt", LAMBDA rest, comps :
        PushComponent(rest, begin, end, [t |-> "SelectUnionStmt", Selects |-> comps]))

AssembleEmitter(ps) ==
    pop(ps, <<"Emitter", "options">>, LAMBDA rest, es :
        PushSpan(rest, es, [t |-> "EmitterAST", EmitterType |-> es[1].comp.kw,
                            EmitterOptions |-> es[2].comp.options]))

AssembleEmitterOptions(ps, begin, end) ==
    LET k == collectDepth(ps, begin)
    IN PushComponent(SubSeq(ps, 1, k), begin, end,
           [t |-> "options", options |-> [i \in 1..(Len(ps) - k) |-> ps[k + i].comp]])

AssembleEmitterLimit(ps) ==
    pop(ps, <<"NumericLiteral">>, LAMBDA rest, es :
        PushSpan(rest, es, [t |-> "EmitterLimit", int |-> es[1].comp.int]))

\* float64 of a NumericLiteral or a FloatLiteral.
NumberTypes == {"NumericLiteral", "FloatLiteral"}
AsFloat(comp) == IF comp.t = "NumericLiteral" THEN comp.int * FloatScale ELSE comp.float

AssembleEmitterSampling(ps, type, divisor) ==
    pop(ps, <<"Expression">>, LAMBDA rest, es :
        IF es[1].comp.t \notin NumberTypes THEN BrokenStack
        ELSE PushSpan(rest, es, [t |-> "EmitterSampling", type |-> type,
                                 float |-> AsFloat(es[1].comp) \div divisor]))

AssembleProjections(ps, begin, end) ==
    collectElements(ps, begin, "Expression", LAMBDA rest, comps :
        PushComponent(rest, begin, end, [t |-> "ProjectionsAST", Projections |-> comps]))

AssembleAlias(ps) ==
    pop(ps, <<"Expression", "Identifier">>, LAMBDA rest, es :
        PushSpan(rest, es, [t |-> "AliasAST", Expr |-> es[1].comp, Alias |-> es[2].comp.id]))

AssembleWindowedFrom(ps, begin, end) ==
    IF begin = end THEN PushComponent(ps, begin, end, [t |-> "WindowedFromAST", Relations |-> <<>>])
    ELSE collectElements(ps, begin, "AliasedStreamWindowAST", LAMBDA rest, comps :
             PushComponent(rest, begin, end, [t |-> "WindowedFromAST", Relations |-> comps]))

AssembleInterval(ps) ==
    pop(ps, <<"Expression", "IntervalUnit">>, LAMBDA rest, es :
        IF es[1].comp.t \notin NumberTypes THEN BrokenStack
        ELSE PushSpan(rest, es, [t |-> "IntervalAST", Value |-> AsFloat(es[1].comp),
                                 Unit |-> es[2].comp.kw]))

\* A clause with one expression: absent if the text is empty.
AssembleCondition(ps, begin, end, New(_)) ==
    IF begin = end THEN PushComponent(ps, begin, end, New(Nil))
    ELSE pop(ps, <<"Expression">>, LAMBDA rest, es :
             IF begin > es[1].begin \/ end < es[1].end THEN BrokenStack
             ELSE PushComponent(rest, begin, end, New(es[1].comp)))

AssembleFilter(ps, begin, end) ==
    AssembleCondition(ps, begin, end, LAMBDA e : [t |-> "FilterAST", Filter |-> e])
AssembleHaving(ps, begin, end) ==
    AssembleCondition(ps, begin, end, LAMBDA e : [t |-> "HavingAST", Having |-> e])

AssembleGrouping(ps, begin, end) ==
    collectElements(ps, begin, "Expression", LAMBDA rest, comps :
        PushComponent(rest, begin, end, [t |-> "GroupingAST", GroupList |-> comps]))

WithAlias(window, alias) == [window EXCEPT !.t = "AliasedStreamWindowAST", !.Alias = alias]

AssembleAliasedStreamWindow(ps) ==
    pop(ps, <<"StreamWindowAST", "Identifier">>, LAMBDA rest, es :
        PushSpan(rest, es, WithAlias(es[1].comp, es[2].comp.id)))

EnsureAliasedStreamWindow(ps) ==
    IF ps = <<>> \/ Last(ps).comp.t \notin {"StreamWindowAST", "AliasedStreamWindowAST"} THEN BrokenStack
    ELSE PushSpan(Front(ps), <<Last(ps)>>,
                  IF Last(ps).comp.t = "StreamWindowAST" THEN WithAlias(Last(ps).comp, <<>>)
                  ELSE Last(ps).comp)

AssembleStreamWindow(ps) ==
    pop(ps, <<"Stream", "IntervalAST", "NumericLiteral", "SheddingOption">>, LAMBDA rest, es :
        PushSpan(rest, es, [t |-> "StreamWindowAST", Stream |-> es[1].comp,
                            Value |-> es[2].comp.Value, Unit |-> es[2].comp.Unit,
                            Capacity |-> es[3].comp.int, Shedding |-> es[4].comp.kw,
                            Alias |-> <<>>]))

AssembleUDSFFuncApp(ps) ==
    pop(ps, <<"FuncAppAST">>, LAMBDA rest, es :
        Push(rest, Span(es, [t |-> "Stream", type |-> "UDSFStream",
                             Name |-> es[1].comp.Function, Params |-> es[1].comp.Expressions])))

-----------------------------------------------------------------------------
(* Optional parts: the Ensure methods push a default if there is nothing on    *)
(* the stack behind begin.                                                    *)

Ensure(ps, begin, end, default) ==
    IF ps = <<>> \/ Last(ps).end <= begin THEN PushComponent(ps, begin, end, default)
    ELSE IF IsA(Last(ps).comp, default.t) THEN ps
    ELSE BrokenStack

EnsureCapacitySpec(ps, begin, end) ==
    Ensure(ps, begin, end, [t |-> "NumericLiteral", int |-> -1])
EnsureSheddingSpec(ps, begin, end) ==
    Ensure(ps, begin, end, Keyword("SheddingOption", "UnspecifiedSheddingOption"))
EnsureIdentifier(ps, begin, end) == Ensure(ps, begin, end, Name("Identifier", <<>>))
EnsureKeywordPresent(ps, begin, end) ==
    Ensure(ps, begin, end, Keyword("BinaryKeyword", "UnspecifiedKeyword"))

-----------------------------------------------------------------------------
(* Parameters.                                                               *)

RECURSIVE toValue(_)
toValue(lit) ==
    CASE lit.t = "StringLiteral" -> [t |-> "String", str |-> lit.str]
      [] lit.t = "BoolLiteral" -> [t |-> "Bool", bool |-> lit.bool]
      [] lit.t = "NumericLiteral" -> [t |-> "Int", int |-> lit.int]
      [] lit.t = "FloatLiteral" -> [t |-> "Float", float |-> lit.float]
      [] lit.t = "ArrayAST" ->
           [t |-> "Array", arr |-> [i \in DOMAIN lit.Expressions |-> toValue(lit.Expressions[i])]]
      [] lit.t = "MapAST" ->    \* of two entries with one key the later one stays
           LET Key(i) == lit.Entries[i].Key
               last(k) == Max({i \in DOMAIN lit.Entries : Key(i) = k})
           IN [t |-> "Map", map |-> [k \in {Key(i) : i \in DOMAIN lit.Entries} |->
                                         toValue(lit.Entries[last(k)].Value)]]
      [] OTHER -> PanicNode

AssembleSourceSinkParam(ps) ==
    pop(ps, <<"SourceSinkParamKey", "Expression">>, LAMBDA rest, es :
        LET v == toValue(es[2].comp)
        IN IF v.t = "panic" THEN BrokenStack
           ELSE PushSpan(rest, es, [t |-> "SourceSinkParamAST", Key |-> es[1].comp.id, Value |-> v]))

AssembleSourceSinkSpecs(ps, begin, end) ==
    IF begin = end THEN PushComponent(ps, begin, end, [t |-> "SourceSinkSpecsAST", Params |-> <<>>])
    ELSE collectElements(ps, begin, "SourceSinkParamAST", LAMBDA rest, comps :
             PushComponent(rest, begin, end, [t |-> "SourceSinkSpecsAST", Params |-> comps]))

-----------------------------------------------------------------------------
(* Other statements.                                                          *)

AssembleCreateStreamAsSelect(ps) ==
    pop(ps, <<"StreamIdentifier", "SelectStmt">>, LAMBDA rest, es :
        Push(rest, Span(es, [t |-> "CreateStreamAsSelectStmt", Name |-> es[1].comp.id,
                             Select |-> es[2].comp])))

AssembleCreateStreamAsSelectUnion(ps) ==
    pop(ps, <<"StreamIdentifier", "SelectUnionStmt">>, LAMBDA rest, es :
        Push(rest, Span(es, [t |-> "CreateStreamAsSelectUnionStmt", Name |-> es[1].comp.id,
                             Union |-> es[2].comp])))

CreateStmt(type, kind, paused, name, typ, specs) ==
    [t |-> type, kind |-> kind, Paused |-> paused, Name |-> name.id, Type |-> typ.id,
     Params |-> specs.Params]

AssembleCreateSource(ps) ==
    pop(ps, <<"BinaryKeyword", "StreamIdentifier", "SourceSinkType", "SourceSinkSpecsAST">>,
        LAMBDA rest, es :
            Push(rest, Span(es, CreateStmt("CreateSourceStmt", "SOURCE", es[1].comp.kw,
                                           es[2].comp, es[3].comp, es[4].comp))))

\* Sinks and states have no PAUSED keyword.
AssembleCreate(ps, type, kind) ==
    pop(ps, <<"StreamIdentifier", "SourceSinkType", "SourceSinkSpecsAST">>, LAMBDA rest, es :
        Push(rest, Span(es, CreateStmt(type, kind, "UnspecifiedKeyword",
                                       es[1].comp, es[2].comp, es[3].comp))))
AssembleCreateSink(ps) == AssembleCreate(ps, "CreateSinkStmt", "SINK")
AssembleCreateState(ps) == AssembleCreate(ps, "CreateStateStmt", "STATE")

AssembleUpdate(ps, type, kind) ==
    pop(ps, <<"StreamIdentifier", "SourceSinkSpecsAST">>, LAMBDA rest, es :
        Push(rest, Span(es, [t |-> type, kind |-> kind, Name |-> es[1].comp.id,
                             Params |-> es[2].comp.Params])))
AssembleUpdateState(ps) == AssembleUpdate(ps, "UpdateStateStmt", "STATE")
AssembleUpdateSource(ps) == AssembleUpdate(ps, "UpdateSourceStmt", "SOURCE")
AssembleUpdateSink(ps) == AssembleUpdate(ps, "UpdateSinkStmt", "SINK")

AssembleInsertIntoFrom(ps) ==
    pop(ps, <<"StreamIdentifier", "StreamIdentifier">>, LAMBDA rest, es :
        Push(rest, Span(es, [t |-> "InsertIntoFromStmt", Sink |-> es[1].comp.id,
                             Input |-> es[2].comp.id])))

\* PAUSE, RESUME, REWIND and DROP differ only in the statement they push.
AssembleNamed(ps, verb, kind) ==
    pop(ps, <<"StreamIdentifier">>, LAMBDA rest, es :
        Push(rest, Span(es, [t |-> "NamedStmt", verb |-> verb, kind |-> kind,
                             Name |-> es[1].comp.id])))

AssembleLoadState(ps) ==
    pop(ps, <<"StreamIdentifier", "SourceSinkType", "Identifier", "SourceSinkSpecsAST">>,
        LAMBDA rest, es :
            Push(rest, Span(es, [t |-> "LoadStateStmt", Name |-> es[1].comp.id,
                                 Type |-> es[2].comp.id, Tag |-> es[3].comp.id,
                                 Params |-> es[4].comp.Params])))

AssembleLoadStateOrCreate(ps) ==
    pop(ps, <<"LoadStateStmt", "SourceSinkSpecsAST">>, LAMBDA rest, es :
        LET load == es[1].comp
        IN Push(rest, Span(es, [t |-> "LoadStateOrCreateStmt", Name |-> load.Name,
                                Type |-> load.Type, Tag |-> load.Tag, Params |-> load.Params,
                                CreateParams |-> es[2].comp.Params])))

AssembleSaveState(ps) ==
    pop(ps, <<"StreamIdentifier", "Identifier">>, LAMBDA rest, es :
        Push(rest, Span(es, [t |-> "SaveStateStmt", Name |-> es[1].comp.id,
                             Tag |-> es[2].comp.id])))

AssembleEval(ps, begin, end) ==
    IF begin = end
    THEN pop(ps, <<"Expression">>, LAMBDA rest, es :
             Push(rest, Elem(es[1].begin, end, [t |-> "EvalStmt", Expr |-> es[1].comp,
                                                Input |-> Nil])))
    ELSE pop(ps, <<"Expression", "MapAST">>, LAMBDA rest, es :
             Push(rest, Elem(es[1].begin, end, [t |-> "EvalStmt", Expr |-> es[1].comp,
                                                Input |-> es[2].comp])))

\* The statement takes the white space and comments behind it.
IncludeTrailingWhitespace(ps, end) ==
    IF ps = <<>> THEN BrokenStack ELSE [ps EXCEPT ![Len(ps)].end = end]

-----------------------------------------------------------------------------
(* Expressions.                                                              *)

BinaryOp(op, left, right) == [t |-> "BinaryOpAST", Op |-> op, Left |-> left, Right |-> right]

MRightAssociative(elems, n) ==
    LET tree[i \in Nat] == IF i = n THEN elems[n]
                           ELSE BinaryOp(elems[i + 1].kw, elems[i], tree[i + 2])
    IN tree[1]

\* The operands elems[1], elems[3], ..., elems[n] with the operators between them.
LeftAssociative(elems, n) ==
    LET tree[i \in Nat] == IF i = 1 THEN elems[1]
                           ELSE BinaryOp(elems[i - 1].kw, tree[i - 2], elems[i])
    IN tree[n]

Comps(ps, k) == [i \in 1..(Len(ps) - k) |-> ps[k + i].comp]

AssembleBinaryOperation(ps, begin, end) ==
    LET k == collectDepth(ps, begin)
        elems == Comps(ps, k)
        n == Len(elems)
        last == IF n % 2 = 0 THEN n - 1 ELSE n      \* the loop stops before an operator
        typed == /\ \A i \in {j \in 1..last : j % 2 = 1} : IsA(elems[i], "Expression")
                 /\ \A i \in {j \in 1..last : j % 2 = 0} : IsA(elems[i], "Operator")
        PushBack(c) == PushComponent(SubSeq(ps, 1, k), begin, end, c)
    IN CASE n = 1 -> PushBack(elems[1])
         [] n >= 3 /\ typed -> PushBack(LeftAssociative(elems, last))
         [] OTHER -> BrokenStack

AssembleUnaryPrefixOperation(ps, begin, end) ==
    LET k == collectDepth(ps, begin)
        elems == Comps(ps, k)
        PushBack(c) == PushComponent(SubSeq(ps, 1, k), begin, end, c)
    IN CASE Len(elems) = 1 -> PushBack(elems[1])
         [] Len(elems) = 2 /\ IsA(elems[1], "Operator") /\ IsA(elems[2], "Expression") ->
                PushBack([t |-> "UnaryOpAST", Op |-> elems[1].kw, Expr |-> elems[2]])
         [] OTHER -> BrokenStack

AssembleTypeCast(ps, begin, end) ==
    LET k == collectDepth(ps, begin)
        elems == Comps(ps, k)
        PushBack(c) == PushComponent(SubSeq(ps, 1, k), begin, end, c)
    IN CASE Len(elems) = 1 -> PushBack(elems[1])
         [] Len(elems) = 2 /\ IsA(elems[1], "Expression") /\ IsA(elems[2], "Type") ->
                PushBack([t |-> "TypeCastAST", Expr |-> elems[1], Target |-> elems[2].kw])
         [] OTHER -> BrokenStack

AssembleExpressions(ps, begin, end) ==
    collectElements(ps, begin, "Expression", LAMBDA rest, comps :
        PushComponent(rest, begin, end, [t |-> "ExpressionsAST", Expressions |-> comps]))

\* The application ends where its parameters end, before ORDER BY.
AssembleFuncApp(ps) ==
    pop(ps, <<"FuncName", "ExpressionsAST", "ExpressionsAST">>, LAMBDA rest, es :
        LET ordering == es[3].comp.Expressions
        IN IF \E i \in DOMAIN ordering : ~IsA(ordering[i], "SortedExpressionAST") THEN BrokenStack
           ELSE PushComponent(rest, es[1].begin, es[2].end,
                    [t |-> "FuncAppAST", Function |-> es[1].comp.id,
                     Expressions |-> es[2].comp.Expressions, Ordering |-> ordering]))

AssembleFuncAppSelector(ps) ==
    pop(ps, <<"FuncAppAST", "Raw">>, LAMBDA rest, es :
        PushSpan(rest, es, [t |-> "FuncAppSelectorAST", FuncApp |-> es[1].comp,
                            Selector |-> es[2].comp.Expr]))

AssembleSortedExpression(ps) ==
    pop(ps, <<"Expression", "BinaryKeyword">>, LAMBDA rest, es :
        PushSpan(rest, es, [t |-> "SortedExpressionAST", Expr |-> es[1].comp,
                            Ascending |-> es[2].comp.kw]))

AssembleArray(ps) ==
    pop(ps, <<"ExpressionsAST">>, LAMBDA rest, es :
        Push(rest, Span(es, [t |-> "ArrayAST", Expressions |-> es[1].comp.Expressions])))

AssembleMap(ps, begin, end) ==
    collectElements(ps, begin, "KeyValuePairAST", LAMBDA rest, comps :
        PushComponent(rest, begin, end, [t |-> "MapAST", Entries |-> comps]))

AssembleKeyValuePair(ps) ==
    pop(ps, <<"StringLiteral", "Expression">>, LAMBDA rest, es :
        PushSpan(rest, es, [t |-> "KeyValuePairAST", Key |-> es[1].comp.str,
                            Value |-> es[2].comp]))

\* An expression on top of the pairs is the ELSE part.  The case ends where the
\* topmost element ended, before END.
AssembleConditionCase(ps, begin, end) ==
    IF ps = <<>> THEN BrokenStack
    ELSE LET top == Last(ps)
             hasElse == IsA(top.comp, "Expression")
         IN collectElements(IF hasElse THEN Front(ps) ELSE ps, begin, "WhenThenPairAST",
                LAMBDA rest, comps :
                    IF comps = <<>> THEN BrokenStack
                    ELSE PushComponent(rest, begin, top.end,
                             [t |-> "ConditionCaseAST", Checks |-> comps,
                              Else |-> IF hasElse THEN top.comp ELSE Nil]))

AssembleExpressionCase(ps, begin, end) ==
    pop(AssembleConditionCase(ps, begin, end), <<"Expression", "ConditionCaseAST">>,
        LAMBDA rest, es :
            PushSpan(rest, es, [t |-> "ExpressionCaseAST", Expr |-> es[1].comp,
                                Checks |-> es[2].comp.Checks, Else |-> es[2].comp.Else]))

AssembleWhenThenPair(ps) ==
    pop(ps, <<"Expression", "Expression">>, LAMBDA rest, es :
        PushSpan(rest, es, [t |-> "WhenThenPairAST", When |-> es[1].comp, Then |-> es[2].comp]))

-----------------------------------------------------------------------------
(* Execute: run the actions of the matched rules in order.  begin and end are  *)
(* the bounds of the last text that was matched.                              *)

FromText(new, s) ==
    CASE new = "NumericLiteral" -> NewNumericLiteral(s)
      [] new = "FloatLiteral" -> NewFloatLiteral(s)
      [] new = "StringLiteral" -> NewStringLiteral(s)
      [] new = "RowValue" -> NewRowValue(s)
      [] new = "RowMeta" -> NewRowMeta(s)
      [] new = "Wildcard" -> NewWildcard(s)
      [] new = "Stream" -> NewStream(s)
      [] new = "Raw" -> NewRaw(s)
      [] OTHER -> Name(new, s)

Statements ==
    [AssemblePauseSource |-> <<"PAUSE", "SOURCE">>, AssembleResumeSource |-> <<"RESUME", "SOURCE">>,
     AssembleRewindSource |-> <<"REWIND", "SOURCE">>, AssembleDropSource |-> <<"DROP", "SOURCE">>,
     AssembleDropStream |-> <<"DROP", "STREAM">>, AssembleDropSink |-> <<"DROP", "SINK">>,
     AssembleDropState |-> <<"DROP", "STATE">>]

Action(tok, input, ps, begin, end) ==
    LET do == tok.do
    IN CASE do = "PushComponent" -> PushComponent(ps, begin, end, tok.comp)
         [] do = "PushText" ->
              PushComponent(ps, begin, end, FromText(tok.new, SubSeq(input, begin, end - 1)))
         [] do = "AssembleEmitterSampling" -> AssembleEmitterSampling(ps, tok.type, tok.divisor)
         [] do \in DOMAIN Statements -> AssembleNamed(ps, Statements[do][1], Statements[do][2])
         [] do = "AssembleWhenThenPair" -> AssembleWhenThenPair(ps)
         [] do = "AssembleExpressionCase" -> AssembleExpressionCase(ps, begin, end)
         [] do = "AssembleConditionCase" -> AssembleConditionCase(ps, begin, end)
         [] do = "AssembleKeyValuePair" -> AssembleKeyValuePair(ps)
         [] do = "AssembleMap" -> AssembleMap(ps, begin, end)
         [] do = "AssembleExpressions" -> AssembleExpressions(ps, begin, end)
         [] do = "AssembleArray" -> AssembleArray(ps)
         [] do = "EnsureKeywordPresent" -> EnsureKeywordPresent(ps, begin, end)
         [] do = "AssembleSortedExpression" -> AssembleSortedExpression(ps)
         [] do = "AssembleFuncApp" -> AssembleFuncApp(ps)
         [] do = "AssembleFuncAppSelector" -> AssembleFuncAppSelector(ps)
         [] do = "AssembleTypeCast" -> AssembleTypeCast(ps, begin, end)
         [] do = "AssembleUnaryPrefixOperation" -> AssembleUnaryPrefixOperation(ps, begin, end)
         [] do = "AssembleBinaryOperation" -> AssembleBinaryOperation(ps, begin, end)
         [] do = "AssembleSourceSinkParam" -> AssembleSourceSinkParam(ps)
         [] do = "EnsureIdentifier" -> EnsureIdentifier(ps, begin, end)
         [] do = "AssembleSourceSinkSpecs" -> AssembleSourceSinkSpecs(ps, begin, end)
         [] do = "EnsureSheddingSpec" -> EnsureSheddingSpec(ps, begin, end)
         [] do = "EnsureCapacitySpec" -> EnsureCapacitySpec(ps, begin, end)
         [] do = "AssembleInterval" -> AssembleInterval(ps)
         [] do = "AssembleUDSFFuncApp" -> AssembleUDSFFuncApp(ps)
         [] do = "AssembleStreamWindow" -> AssembleStreamWindow(ps)
         [] do = "AssembleAliasedStreamWindow" -> AssembleAliasedStreamWindow(ps)
         [] do = "EnsureAliasedStreamWindow" -> EnsureAliasedStreamWindow(ps)
         [] do = "AssembleHaving" -> AssembleHaving(ps, begin, end)
         [] do = "AssembleGrouping" -> AssembleGrouping(ps, begin, end)
         [] do = "AssembleFilter" -> AssembleFilter(ps, begin, end)
         [] do = "AssembleWindowedFrom" -> AssembleWindowedFrom(ps, begin, end)
         [] do = "AssembleAlias" -> AssembleAlias(ps)
         [] do = "AssembleProjections" -> AssembleProjections(ps, begin, end)
         [] do = "AssembleEmitterLimit" -> AssembleEmitterLimit(ps)
         [] do = "AssembleEmitterOptions" -> AssembleEmitterOptions(ps, begin, end)
         [] do = "AssembleEmitter" -> AssembleEmitter(ps)
         [] do = "AssembleEval" -> AssembleEval(ps, begin, end)
         [] do = "AssembleSaveState" -> AssembleSaveState(ps)
         [] do = "AssembleLoadState" -> AssembleLoadState(ps)
         [] do = "AssembleLoadStateOrCreate" -> AssembleLoadStateOrCreate(ps)
         [] do = "AssembleInsertIntoFrom" -> AssembleInsertIntoFrom(ps)
         [] do = "AssembleUpdateSink" -> AssembleUpdateSink(ps)
         [] do = "AssembleUpdateSource" -> AssembleUpdateSource(ps)
         [] do = "AssembleUpdateState" -> AssembleUpdateState(ps)
         [] do = "AssembleCreateState" -> AssembleCreateState(ps)
         [] do = "AssembleCreateSink" -> AssembleCreateSink(ps)
         [] do = "AssembleCreateSource" -> AssembleCreateSource(ps)
         [] do = "AssembleSelect" -> AssembleSelect(ps)
         [] do = "AssembleSelectUnion" -> AssembleSelectUnion(ps, begin, end)
         [] do = "AssembleCreateStreamAsSelectUnion" -> AssembleCreateStreamAsSelectUnion(ps)
         [] do = "AssembleCreateStreamAsSelect" -> AssembleCreateStreamAsSelect(ps)
         [] do = "IncludeTrailingWhitespace" -> IncludeTrailingWhitespace(ps, end)

\* The effect of the tokens lo..hi on the stack and on begin and end.
RECURSIVE ExecuteTokens(_, _, _, _, _)
ExecuteTokens(toks, lo, hi, input, x) ==
    IF lo = hi
    THEN IF toks[lo].do = "PegText"
         THEN [x EXCEPT !.begin = toks[lo].begin, !.end = toks[lo].end]
         ELSE [x EXCEPT !.ps = Action(toks[lo], input, @, x.begin, x.end)]
    ELSE LET mid == (lo + hi) \div 2
             half == ExecuteTokens(toks, lo, mid, input, x)
         IN IF Panicked(half.ps) THEN half ELSE ExecuteTokens(toks, mid + 1, hi, input, half)

Execute(toks, input) ==
    ExecuteTokens(toks, 1, Len(toks), input, [ps |-> <<>>, begin |-> 1, end |-> 1]).ps
=============================================================================
