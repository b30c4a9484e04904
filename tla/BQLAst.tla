------------------------------- MODULE BQLAst -------------------------------
(***************************************************************************)
(* The syntax trees of BQL statements (src/bql/parser/ast.go): how they are  *)
(* built from text, printed as text, and asked for the relations that they   *)
(* refer to.  A node is a record with its Go type in field t.  Text is a      *)
(* sequence of symbols, as in module PEG.                                    *)
(***************************************************************************)
EXTENDS Integers, Sequences, SequencesExt

CONSTANT MaxInt     \* the largest integer that a NumericLiteral can hold

Digit == <<"0", "1", "2", "3", "4", "5", "6", "7", "8", "9">>
Quote == "\""

Nil == [t |-> "nil"]
PanicNode == [t |-> "panic"]
Keyword(type, k) == [t |-> type, kw |-> k]
Name(type, s) == [t |-> type, id |-> s]

-----------------------------------------------------------------------------
(* Numbers.  A float is an integer number of 1/FloatScale; the texts of the    *)
(* instances have few enough decimals for this to be exact.                   *)

FloatScale == 10000

DigitValue(d) == CHOOSE i \in 0..9 : Digit[i + 1] = d
Natural(s) == FoldLeft(LAMBDA n, d : 10 * n + DigitValue(d), 0, s)
Signed(s, Read(_)) == IF Head(s) = "-" THEN -Read(Tail(s)) ELSE Read(s)

DigitsOf[n \in Nat] ==
    IF n < 10 THEN <<Digit[n + 1]>> ELSE Append(DigitsOf[n \div 10], Digit[(n % 10) + 1])

IntString(n) == IF n < 0 THEN <<"-">> \o DigitsOf[-n] ELSE DigitsOf[n]

\* The decimals of a fraction of FloatScale, without trailing zeros.
Decimals[d \in Nat] ==
    IF d % 10 = 0 THEN Decimals[d \div 10] ELSE Tail(DigitsOf[d])

\* strconv's %v of a float64: an integral value prints without a point.
FloatString(f) ==
    LET a == IF f < 0 THEN -f ELSE f
    IN (IF f < 0 THEN <<"-">> ELSE <<>>) \o DigitsOf[a \div FloatScale]
       \o (IF a % FloatScale = 0 THEN <<>>
           ELSE <<".">> \o Decimals[FloatScale + (a % FloatScale)])

FloatValue(s) ==
    LET p == SelectInSeq(s, LAMBDA x : x = ".")
        frac == SubSeq(s, p + 1, Len(s))
    IN Natural(SubSeq(s, 1, p - 1)) * FloatScale
       + Natural(frac) * (FloatScale \div 10^Len(frac))

-----------------------------------------------------------------------------
(* Constructors that take the matched text.                                   *)

NewNumericLiteral(s) ==
    LET n == Signed(s, Natural)
    IN IF n \in (-MaxInt - 1)..MaxInt THEN [t |-> "NumericLiteral", int |-> n] ELSE PanicNode

NewFloatLiteral(s) == [t |-> "FloatLiteral", float |-> Signed(s, FloatValue)]

NewStream(s) == [t |-> "Stream", type |-> "ActualStream", Name |-> s, Params |-> <<>>]

NewWildcard(s) == [t |-> "Wildcard", Relation |-> SelectSeq(s, LAMBDA x : x \notin {":", "*"})]

\* The text before the first colon is the relation unless a bracket precedes it.
NewRowValue(s) ==
    LET colon == SelectInSeq(s, LAMBDA x : x = ":")
        bracket == SelectInSeq(s, LAMBDA x : x = "[")
        whole == colon = 0 \/ (bracket # 0 /\ bracket < colon)
    IN [t |-> "RowValue",
        Relation |-> IF whole THEN <<>> ELSE SubSeq(s, 1, colon - 1),
        Column |-> IF whole THEN s ELSE SubSeq(s, colon + 1, Len(s))]

NewRowMeta(s) ==
    LET colon == SelectInSeq(s, LAMBDA x : x = ":")
    IN [t |-> "RowMeta", Relation |-> SubSeq(s, 1, colon - 1)]

Escape(s) == FlattenSeq([i \in DOMAIN s |-> IF s[i] = Quote THEN <<Quote, Quote>> ELSE <<s[i]>>])

\* strings.Replace of two quotes by one, from the left.
RECURSIVE Unescape(_)
Unescape(s) ==
    IF Len(s) < 2 THEN s
    ELSE IF s[1] = Quote /\ s[2] = Quote THEN <<Quote>> \o Unescape(SubSeq(s, 3, Len(s)))
    ELSE <<s[1]>> \o Unescape(Tail(s))

NewStringLiteral(s) == [t |-> "StringLiteral", str |-> Unescape(SubSeq(s, 2, Len(s) - 1))]

NewRaw(s) == [t |-> "Raw", Expr |-> s]

-----------------------------------------------------------------------------
(* Operators and their precedence.                                            *)

Operators == <<"Or", "And", "Not", "Equal", "Less", "LessOrEqual", "Greater",
               "GreaterOrEqual", "NotEqual", "Concat", "Is", "IsNot", "Plus",
               "Minus", "Multiply", "Divide", "Modulo", "UnaryMinus">>

Rank(op) == CHOOSE i \in DOMAIN Operators : Operators[i] = op

hasSamePrecedenceAs(op, rhs) ==
    \E r \in {<<"Or", "Not">>, <<"Less", "GreaterOrEqual">>, <<"Is", "IsNot">>,
              <<"Plus", "Minus">>, <<"Multiply", "Modulo">>} :
        {Rank(op), Rank(rhs)} \subseteq Rank(r[1])..Rank(r[2])

hasHigherPrecedenceThan(op, rhs) ==
    ~hasSamePrecedenceAs(op, rhs) /\ Rank(op) > Rank(rhs)

OperatorString ==
    [Or |-> <<"OR">>, And |-> <<"AND">>, Not |-> <<"NOT">>, Equal |-> <<"=">>,
     Less |-> <<"<">>, LessOrEqual |-> <<"<", "=">>, Greater |-> <<">">>,
     GreaterOrEqual |-> <<">", "=">>, NotEqual |-> <<"!", "=">>,
     Concat |-> <<"|", "|">>, Is |-> <<"IS">>, IsNot |-> <<"IS", " ", "NOT">>,
     Plus |-> <<"+">>, Minus |-> <<"-">>, Multiply |-> <<"*">>, Divide |-> <<"/">>,
     Modulo |-> <<"%">>, UnaryMinus |-> <<"-">>]

-----------------------------------------------------------------------------
(* The String methods.                                                        *)

Join(ss, sep) ==
    IF ss = <<>> THEN <<>>
    ELSE FoldLeft(LAMBDA acc, s : acc \o sep \o s, Head(ss), Tail(ss))
Words(ss) == Join(SelectSeq(ss, LAMBDA s : s # <<>>), <<" ">>)
Commas(ss) == Join(ss, <<",", " ">>)
Enclosed(l, s, r) == <<l>> \o s \o <<r>>
Parens(s) == Enclosed("(", s, ")")
Qualified(rel, s) == IF rel = <<>> THEN s ELSE rel \o <<":">> \o s

StringLiteralString(s) == Enclosed(Quote, Escape(s), Quote)

MNeedsParens(operand, op) ==
    operand.t = "BinaryOpAST" /\ hasHigherPrecedenceThan(op, operand.Op)

\* BinaryOpAST.String encloses an operand that is a BinaryOpAST and does not
\* bind more tightly.
NeedsParens(operand, op) ==
    operand.t = "BinaryOpAST" /\ ~hasHigherPrecedenceThan(operand.Op, op)

RECURSIVE String(_)

WhenThenStrings(checks) ==
    Join([i \in DOMAIN checks |-> <<"WHEN", " ">> \o String(checks[i].When)
                                  \o <<" ", "THEN", " ">> \o String(checks[i].Then)], <<" ">>)

CaseString(e, ref) ==
    Words(<<<<"CASE">>, ref, WhenThenStrings(e.Checks),
            IF e.Else = Nil THEN <<>> ELSE <<"ELSE", " ">> \o String(e.Else), <<"END">>>>)

Strings(es) == Commas([i \in DOMAIN es |-> String(es[i])])

String(e) ==
    CASE e.t = "RowValue" -> Qualified(e.Relation, e.Column)
      [] e.t = "RowMeta" -> Qualified(e.Relation, <<"ts", "(", ")">>)
      [] e.t = "Wildcard" -> Qualified(e.Relation, <<"*">>)
      [] e.t = "NumericLiteral" -> IntString(e.int)
      [] e.t = "FloatLiteral" -> FloatString(e.float)
      [] e.t = "NullLiteral" -> <<"NULL">>
      [] e.t = "Missing" -> <<"MISSING">>
      [] e.t = "BoolLiteral" -> IF e.bool THEN <<"TRUE">> ELSE <<"FALSE">>
      [] e.t = "StringLiteral" -> StringLiteralString(e.str)
      [] e.t = "AliasAST" -> String(e.Expr) \o <<" ", "AS", " ">> \o e.Alias
      [] e.t = "BinaryOpAST" ->
           LET Operand(x) == IF NeedsParens(x, e.Op) THEN Parens(String(x)) ELSE String(x)
           IN Words(<<Operand(e.Left), OperatorString[e.Op], Operand(e.Right)>>)
      [] e.t = "UnaryOpAST" ->
           LET s == String(e.Expr)
           IN OperatorString[e.Op]
              \o (IF e.Op # "UnaryMinus" \/ Head(s) = "-" THEN <<" ">> ELSE <<>>)
              \o (IF e.Expr.t = "BinaryOpAST" THEN Parens(s) ELSE s)
      [] e.t = "TypeCastAST" ->
           IF e.Expr.t \in {"RowValue", "RowMeta"}
           THEN String(e.Expr) \o <<":", ":", e.Target>>
           ELSE <<"CAST">> \o Parens(String(e.Expr) \o <<" ", "AS", " ", e.Target>>)
      [] e.t = "FuncAppAST" ->
           e.Function \o Parens(Strings(e.Expressions)
               \o (IF e.Ordering = <<>> THEN <<>>
                   ELSE <<" ", "ORDER", " ", "BY", " ">> \o Strings(e.Ordering)))
      [] e.t = "FuncAppSelectorAST" -> String(e.FuncApp) \o e.Selector
      [] e.t = "SortedExpressionAST" ->
           String(e.Expr) \o (CASE e.Ascending = "Yes" -> <<" ", "ASC">>
                                [] e.Ascending = "No" -> <<" ", "DESC">>
                                [] OTHER -> <<>>)
      [] e.t = "ArrayAST" -> Enclosed("[", Strings(e.Expressions), "]")
      [] e.t = "MapAST" ->      \* KeyValuePairAST.string does not escape the key
           Enclosed("{", Commas([i \in DOMAIN e.Entries |->
               Enclosed(Quote, e.Entries[i].Key, Quote) \o <<":">>
               \o String(e.Entries[i].Value)]), "}")
      [] e.t = "ConditionCaseAST" -> CaseString(e, <<>>)
      [] e.t = "ExpressionCaseAST" -> CaseString(e, String(e.Expr))

-----------------------------------------------------------------------------
(* Parameters of sources, sinks and states: data.Values.                       *)

MapKeys(m) == SetToSeq(DOMAIN m)

\* The JSON of a value that is nested in an array or a map.
RECURSIVE JSON(_)
JSON(v) ==
    CASE v.t = "Int" -> IntString(v.int)
      [] v.t = "Float" -> FloatString(v.float)
      [] v.t = "Bool" -> IF v.bool THEN <<"TRUE">> ELSE <<"FALSE">>
      [] v.t = "String" ->
           Enclosed(Quote, FlattenSeq([i \in DOMAIN v.str |->
               IF v.str[i] = Quote THEN <<"\\", Quote>> ELSE <<v.str[i]>>]), Quote)
      [] v.t = "Array" -> Enclosed("[", Join([i \in DOMAIN v.arr |-> JSON(v.arr[i])], <<",">>), "]")
      [] v.t = "Map" ->
           LET ks == MapKeys(v.map)
           IN Enclosed("{", Join([i \in DOMAIN ks |->
                  Enclosed(Quote, ks[i], Quote) \o <<":">> \o JSON(v.map[ks[i]])], <<",">>), "}")

mkString(v) == IF v.t = "String" THEN StringLiteralString(v.str) ELSE JSON(v)

ParamString(p) ==
    p.Key \o <<"=">> \o
    (CASE p.Value.t = "Array" ->
            Enclosed("[", Join([i \in DOMAIN p.Value.arr |-> mkString(p.Value.arr[i])], <<",">>), "]")
       [] p.Value.t = "Map" ->
            LET ks == MapKeys(p.Value.map)
            IN Enclosed("{", Join([i \in DOMAIN ks |->
                   StringLiteralString(ks[i]) \o <<":">> \o mkString(p.Value.map[ks[i]])], <<",">>), "}")
       [] OTHER -> mkString(p.Value))

SpecsString(params, keyword) ==
    IF params = <<>> THEN <<>>
    ELSE <<keyword, " ">> \o Commas([i \in DOMAIN params |-> ParamString(params[i])])

-----------------------------------------------------------------------------
(* Statements.                                                                *)

EmitterSamplingString(o) ==
    CASE o.type = "CountBasedSampling" ->
           LET n == o.float \div FloatScale
           IN <<"EVERY", " ">> \o IntString(n) \o
              <<"-", CASE n = 1 -> "ST" [] n = 2 -> "ND" [] n = 3 -> "RD" [] OTHER -> "TH",
                " ", "TUPLE">>
      [] o.type = "RandomizedSampling" -> <<"SAMPLE", " ">> \o FloatString(o.float) \o <<"%">>
      [] o.type = "TimeBasedSampling" ->
           IF o.float < FloatScale
           THEN <<"EVERY", " ">> \o FloatString(o.float * 1000) \o <<" ", "MILLISECONDS">>
           ELSE <<"EVERY", " ">> \o FloatString(o.float) \o <<" ", "SECONDS">>

EmitterString(s) ==
    LET Option(o) == IF o.t = "EmitterLimit" THEN <<"LIMIT", " ">> \o IntString(o.int)
                     ELSE EmitterSamplingString(o)
    IN <<s.EmitterType>> \o
       (IF s.EmitterOptions = <<>> THEN <<>>
        ELSE <<" ">> \o Enclosed("[", Words([i \in DOMAIN s.EmitterOptions |->
                                        Option(s.EmitterOptions[i])]), "]"))

SheddingString ==
    [Wait |-> <<"WAIT">>, DropOldest |-> <<"DROP", " ", "OLDEST">>,
     DropNewest |-> <<"DROP", " ", "NEWEST">>]

WindowString(w) ==
    w.Stream.Name
    \o (IF w.Stream.type = "UDSFStream" THEN Parens(Strings(w.Stream.Params)) ELSE <<>>)
    \o <<" ">>
    \o Enclosed("[", <<"RANGE", " ">> \o FloatString(w.Value) \o <<" ", w.Unit>>
         \o (IF w.Capacity = -1 THEN <<>>
             ELSE <<",", " ", "BUFFER", " ", "SIZE", " ">> \o IntString(w.Capacity))
         \o (IF w.Shedding = "UnspecifiedSheddingOption" THEN <<>>
             ELSE <<",", " ">> \o SheddingString[w.Shedding] \o <<" ", "IF", " ", "FULL">>), "]")
    \o (IF w.Alias = <<>> THEN <<>> ELSE <<" ", "AS", " ">> \o w.Alias)

Clause(kws, absent, s) == IF absent THEN <<>> ELSE kws \o <<" ">> \o s

SelectString(s) ==
    Words(<<<<"SELECT">>, EmitterString(s), Strings(s.Projections),
            Clause(<<"FROM">>, s.Relations = <<>>,
                   Commas([i \in DOMAIN s.Relations |-> WindowString(s.Relations[i])])),
            Clause(<<"WHERE">>, s.Filter = Nil, IF s.Filter = Nil THEN <<>> ELSE String(s.Filter)),
            Clause(<<"GROUP", " ", "BY">>, s.GroupList = <<>>, Strings(s.GroupList)),
            Clause(<<"HAVING">>, s.Having = Nil, IF s.Having = Nil THEN <<>> ELSE String(s.Having))>>)

UnionString(u) ==
    Join([i \in DOMAIN u.Selects |-> SelectString(u.Selects[i])], <<" ", "UNION", " ", "ALL", " ">>)

TagString(tag) == Clause(<<"TAG">>, tag = <<>>, tag)

StmtString(s) ==
    CASE s.t = "SelectStmt" -> SelectString(s)
      [] s.t = "SelectUnionStmt" -> UnionString(s)
      [] s.t = "CreateStreamAsSelectStmt" ->
           Words(<<<<"CREATE">>, <<"STREAM">>, s.Name, <<"AS">>, SelectString(s.Select)>>)
      [] s.t = "CreateStreamAsSelectUnionStmt" ->
           Words(<<<<"CREATE">>, <<"STREAM">>, s.Name, <<"AS">>, UnionString(s.Union)>>)
      [] s.t \in {"CreateSourceStmt", "CreateSinkStmt", "CreateStateStmt"} ->
           Words(<<<<"CREATE">>,
                   CASE s.Paused = "Yes" -> <<"PAUSED">> [] s.Paused = "No" -> <<"UNPAUSED">>
                     [] OTHER -> <<>>,
                   <<s.kind>>, s.Name, <<"TYPE">>, s.Type, SpecsString(s.Params, "WITH")>>)
      [] s.t \in {"UpdateSourceStmt", "UpdateSinkStmt", "UpdateStateStmt"} ->
           Words(<<<<"UPDATE">>, <<s.kind>>, s.Name, SpecsString(s.Params, "SET")>>)
      [] s.t = "InsertIntoFromStmt" ->
           Words(<<<<"INSERT">>, <<"INTO">>, s.Sink, <<"FROM">>, s.Input>>)
      [] s.t = "NamedStmt" -> Words(<<<<s.verb>>, <<s.kind>>, s.Name>>)
      [] s.t = "LoadStateStmt" ->
           Words(<<<<"LOAD">>, <<"STATE">>, s.Name, <<"TYPE">>, s.Type, TagString(s.Tag),
                   SpecsString(s.Params, "SET")>>)
      [] s.t = "LoadStateOrCreateStmt" ->
           Words(<<<<"LOAD">>, <<"STATE">>, s.Name, <<"TYPE">>, s.Type, TagString(s.Tag),
                   SpecsString(s.Params, "SET"),
                   <<"OR", " ", "CREATE", " ", "IF", " ", "NOT", " ", "SAVED">>,
                   SpecsString(s.CreateParams, "WITH")>>)
      [] s.t = "SaveStateStmt" -> Words(<<<<"SAVE">>, <<"STATE">>, s.Name, TagString(s.Tag)>>)
      [] s.t = "EvalStmt" ->
           Words(<<<<"EVAL">>, String(s.Expr),
                   Clause(<<"ON">>, s.Input = Nil, IF s.Input = Nil THEN <<>> ELSE String(s.Input))>>)
-----------------------------------------------------------------------------
(* The expressions below an expression, and what they refer to.               *)

Children(e) ==
    CASE e.t \in {"AliasAST", "UnaryOpAST", "TypeCastAST", "SortedExpressionAST"} -> <<e.Expr>>
      [] e.t = "BinaryOpAST" -> <<e.Left, e.Right>>
      [] e.t = "FuncAppAST" -> e.Expressions \o e.Ordering
      [] e.t = "FuncAppSelectorAST" -> <<e.FuncApp>>
      [] e.t = "ArrayAST" -> e.Expressions
      [] e.t = "MapAST" -> [i \in DOMAIN e.Entries |-> e.Entries[i].Value]
      [] e.t \in {"ConditionCaseAST", "ExpressionCaseAST"} ->
           (IF e.t = "ExpressionCaseAST" THEN <<e.Expr>> ELSE <<>>)
           \o FlattenSeq([i \in DOMAIN e.Checks |-> <<e.Checks[i].When, e.Checks[i].Then>>])
           \o (IF e.Else = Nil THEN <<>> ELSE <<e.Else>>)
      [] OTHER -> <<>>

\* A Go map of relations: nil is a map without entries that cannot be written to.
NilMap == [map |-> "nil", rels |-> {}]
Relations(S) == [map |-> "made", rels |-> S]
PanickedMap == [map |-> "panic", rels |-> {}]

MReferencedAny(left, right) == IF left.map # "nil" THEN left ELSE right

\* BinaryOpAST.ReferencedRelations.
ReferencedOperands(left, right) ==
    CASE left.map = "nil" -> right
      [] right.map = "panic" -> right
      [] OTHER -> [left EXCEPT !.rels = @ \cup right.rels]

RECURSIVE ReferencedRelations(_)
ReferencedRelations(e) ==
    LET refs == [i \in DOMAIN Children(e) |-> ReferencedRelations(Children(e)[i])]
        collected == UNION {refs[i].rels : i \in DOMAIN refs}
        paniced == \E i \in DOMAIN refs : refs[i].map = "panic"
    IN CASE paniced -> PanickedMap
         [] e.t \in {"RowValue", "RowMeta"} -> Relations({e.Relation})
         [] e.t = "Wildcard" -> IF e.Relation = <<>> THEN NilMap ELSE Relations({e.Relation})
         [] e.t = "BinaryOpAST" -> ReferencedOperands(refs[1], refs[2])
         [] e.t \in {"AliasAST", "UnaryOpAST", "TypeCastAST", "SortedExpressionAST",
                     "FuncAppSelectorAST"} -> refs[1]
         \* the map of Expr is written to for the relations of the checks
         [] e.t = "ExpressionCaseAST" ->
              IF refs[1].map = "nil" /\ collected # {} THEN PanickedMap
              ELSE [refs[1] EXCEPT !.rels = collected]
         [] e.t \in {"FuncAppAST", "ArrayAST", "MapAST", "ConditionCaseAST"} -> Relations(collected)
         [] OTHER -> NilMap

\* RenameReferencedRelation("", to).
RECURSIVE Rename(_, _)
Rename(e, to) ==
    LET all(es) == [i \in DOMAIN es |-> Rename(es[i], to)]
        checks == [i \in DOMAIN e.Checks |->
                      [e.Checks[i] EXCEPT !.When = Rename(@, to), !.Then = Rename(@, to)]]
        else == IF e.Else = Nil THEN Nil ELSE Rename(e.Else, to)
    IN CASE e.t \in {"RowValue", "RowMeta", "Wildcard"} ->
              IF e.Relation = <<>> THEN [e EXCEPT !.Relation = to] ELSE e
         [] e.t \in {"AliasAST", "UnaryOpAST", "TypeCastAST", "SortedExpressionAST"} ->
              [e EXCEPT !.Expr = Rename(@, to)]
         [] e.t = "BinaryOpAST" -> [e EXCEPT !.Left = Rename(@, to), !.Right = Rename(@, to)]
         [] e.t = "FuncAppAST" -> [e EXCEPT !.Expressions = all(@), !.Ordering = all(@)]
         [] e.t = "FuncAppSelectorAST" -> [e EXCEPT !.FuncApp = Rename(@, to)]
         [] e.t = "ArrayAST" -> [e EXCEPT !.Expressions = all(@)]
         [] e.t = "MapAST" ->
              [e EXCEPT !.Entries = [i \in DOMAIN @ |-> [@[i] EXCEPT !.Value = Rename(@, to)]]]
         [] e.t = "ConditionCaseAST" -> [e EXCEPT !.Checks = checks, !.Else = else]
         [] e.t = "ExpressionCaseAST" ->
              [e EXCEPT !.Expr = Rename(@, to), !.Checks = checks, !.Else = else]
         [] OTHER -> e

\* Foldable: independent of an input row, and now() has a value only in a plan.
RECURSIVE Foldable(_)
Foldable(e) ==
    /\ e.t \notin {"RowValue", "RowMeta", "Wildcard"}
    /\ e.t = "FuncAppAST" => /\ ~(e.Function = <<"now">> /\ e.Expressions = <<>>)
                             /\ e.Ordering = <<>>
    /\ \A i \in DOMAIN Children(e) : Foldable(Children(e)[i])
=============================================================================
