--------------------------- MODULE MCBQLStatement ---------------------------
(* Texts and tuples for BQLStatement. *)
EXTENDS BQLReference

\* The symbols of the words that are more than one symbol.
Lexicon ==
    ("\"a\"" :> <<Quote, "a", Quote>>) @@ ("\"b\"" :> <<Quote, "b", Quote>>) @@
    ("\"k\"" :> <<Quote, "k", Quote>>) @@ ("\"x\"" :> <<Quote, "x", Quote>>) @@
    (")[0:2]" :> <<")", "[", "0", ":", "2", "]">>) @@ (")[0]" :> <<")", "[", "0", "]">>) @@
    (")[1]..b" :> <<")", "[", "1", "]", ".", ".", "b">>) @@
    ("--x\n" :> <<"-", "-", "x", "\n">>) @@ ("-1" :> <<"-", "1">>) @@
    ("-1.5" :> <<"-", "1", ".", "5">>) @@ ("1.5" :> <<"1", ".", "5">>) @@
    ("101" :> <<"1", "0", "1">>) @@ ("11" :> <<"1", "1">>) @@
    ("12.5" :> <<"1", "2", ".", "5">>) @@ ("128" :> <<"1", "2", "8">>) @@
    ("2-ND" :> <<"2", "-", "ND">>) @@ ("50" :> <<"5", "0">>) @@ (">=" :> <<">", "=">>) @@
    ("TRUE]" :> <<"TRUE", "]">>) @@ ("[1," :> <<"[", "1", ",">>) @@
    ("a..b..c" :> <<"a", ".", ".", "b", ".", ".", "c">>) @@
    ("a::STRING" :> <<"a", ":", ":", "STRING">>) @@ ("array_agg" :> <<"ARRAY", "_", "agg">>) @@
    ("bool_and" :> <<"BOOL", "_", "AND">>) @@ ("c:b" :> <<"c", ":", "b">>) @@
    ("l[0]" :> <<"l", "[", "0", "]">>) @@ ("l[1:]" :> <<"l", "[", "1", ":", "]">>) @@
    ("string_agg" :> <<"STRING", "_", "agg">>) @@ ("ts()" :> <<"ts", "(", ")">>) @@
    ("x.b" :> <<"x", ".", "b">>) @@ ("x.k" :> <<"x", ".", "k">>) @@
    ("x.y" :> <<"x", ".", "y">>) @@ ("x.y[0]" :> <<"x", ".", "y", "[", "0", "]">>) @@
    ("x.y[1]" :> <<"x", ".", "y", "[", "1", "]">>) @@ ("x:*" :> <<"x", ":", "*">>) @@
    ("x:a" :> <<"x", ":", "a">>) @@ ("x:b" :> <<"x", ":", "b">>) @@
    ("y:b" :> <<"y", ":", "b">>) @@ ("||" :> <<"|", "|">>)

\* Words with a space between them.
Sp(ws) == Join([i \in DOMAIN ws |-> IF ws[i] \in DOMAIN Lexicon THEN Lexicon[ws[i]] ELSE <<ws[i]>>], <<" ">>)
Text(parts) == Join(parts, <<" ">>)

\* SELECT statements on one stream, which run.
SelectTexts ==
    {Sp(<<"SELECT", "RSTREAM", "a", ",", "*", "FROM", "s", "[", "RANGE", "1", "TUPLES", "]",
          "WHERE", "b", "IS", "NOT", "NULL">>),
     Sp(<<"SELECT", "RSTREAM", "a", ",", "*", "FROM", "s", "[", "RANGE", "3", "TUPLES", "]",
          "WHERE", "a", "<", "2", "OR", "b">>),
     Sp(<<"SELECT", "ISTREAM", "a", ",", "count", "(", "*", ")", "FROM", "s", "[", "RANGE", "3",
          "TUPLES", "]", "GROUP", "BY", "a">>),
     Sp(<<"SELECT", "ISTREAM", "a", ",", "sum", "(", "a", ")", "+", "count", "(", "b", ")", "AS",
          "x.y", "FROM", "s", "[", "RANGE", "3", "TUPLES", "]", "GROUP", "BY", "a", "HAVING",
          "count", "(", "b", ")", ">", "0">>),
     Sp(<<"SELECT", "RSTREAM", "array_agg", "(", "b", "ORDER", "BY", "a", "DESC", ",", "ts()", ")",
          ",", "array_agg", "(", "a", ")[0:2]", "FROM", "s", "[", "RANGE", "3", "TUPLES", "]">>),
     Sp(<<"SELECT", "RSTREAM", "coalesce", "(", "max", "(", "a", ")", ",", "count", "(", "b", ")",
          ")", "AS", "x", ",", "avg", "(", "a", ")", "FROM", "s", "[", "RANGE", "3", "TUPLES", "]",
          "WHERE", "b", "IS", "NULL">>),
     Sp(<<"SELECT", "RSTREAM", "b", "AS", "a", ",", "*", ",", "ts()", ",", "CASE", "a", "WHEN",
          "1", "THEN", "b", "ELSE", "\"x\"", "END", "AS", "m", "FROM", "s", "[", "RANGE", "3",
          "TUPLES", "]">>),
     Sp(<<"SELECT", "RSTREAM", "l[1:]", "AS", "x.y[1]", ",", "a", "AS", "x.y[0]", ",", "{",
          "\"k\"", ":", "b", "}", "AS", "x.k", "FROM", "s", "[", "RANGE", "3", "TUPLES", "]",
          "WHERE", "l[0]", "IS", "MISSING", "OR", "a", "=", "1">>),
     Sp(<<"SELECT", "RSTREAM", "a::STRING", ",", "-", "a", "*", "2", "-", "1", ",", "NOT", "(",
          "a", "=", "1", "AND", "TRUE", ")", "FROM", "s", "[", "RANGE", "1", "TUPLES", "]">>),
     Sp(<<"SELECT", "DSTREAM", "[", "LIMIT", "2", "]", "string_agg", "(", "CAST", "(", "a", "AS",
          "STRING", ")", ",", "\"x\"", "ORDER", "BY", "b", ")", "FROM", "s", "[", "RANGE", "3",
          "TUPLES", "]", "HAVING", "bool_and", "(", "a", ">=", "1", ")">>)}

\* SELECT statements that Analyze or MakePhysicalPlan look at more closely.
AnalysisTexts ==
    {Sp(<<"SELECT", "RSTREAM", "x:a", "+", "y:b", ",", "x:*", "FROM", "s", "[", "RANGE", "2",
          "SECONDS", "]", "AS", "x", ",", "s", "[", "RANGE", "5", "MILLISECONDS", "]", "AS", "y">>),
     Sp(<<"SELECT", "RSTREAM", "x:a", "+", "c:b", "FROM", "s", "[", "RANGE", "2", "TUPLES", "]",
          "AS", "x", ",", "s", "[", "RANGE", "2", "TUPLES", "]", "AS", "y">>),
     Sp(<<"SELECT", "RSTREAM", "a", "FROM", "s", "[", "RANGE", "2", "TUPLES", "]", ",", "s", "[",
          "RANGE", "2", "TUPLES", "]">>),
     Sp(<<"SELECT", "RSTREAM", "a", ",", "x:b", "FROM", "s", "[", "RANGE", "3", "TUPLES", "]">>),
     Sp(<<"SELECT", "RSTREAM", "x:a", "FROM", "s", "[", "RANGE", "3", "TUPLES", "]">>),
     Sp(<<"SELECT", "RSTREAM", "1", "FROM", "s", "[", "RANGE", "0", "TUPLES", "]">>),
     Sp(<<"SELECT", "RSTREAM", "a", "FROM", "s", "[", "RANGE", "11", "SECONDS", "]">>),
     Sp(<<"SELECT", "RSTREAM", "b", "FROM", "s", "[", "RANGE", "3", "TUPLES", "]", "GROUP", "BY",
          "a">>),
     Sp(<<"SELECT", "RSTREAM", "*", ",", "count", "(", "b", ")", "FROM", "s", "[", "RANGE", "3",
          "TUPLES", "]", "GROUP", "BY", "a">>),
     Sp(<<"SELECT", "RSTREAM", "ts()", "FROM", "s", "[", "RANGE", "3", "TUPLES", "]", "GROUP",
          "BY", "a">>),
     Sp(<<"SELECT", "RSTREAM", "a", "FROM", "s", "[", "RANGE", "3", "TUPLES", "]", "WHERE",
          "count", "(", "a", ")", "=", "1">>),
     Sp(<<"SELECT", "RSTREAM", "a", "FROM", "s", "[", "RANGE", "3", "TUPLES", "]", "GROUP", "BY",
          "a", "+", "1">>),
     Sp(<<"SELECT", "RSTREAM", "[", "LIMIT", "-1", "]", "a", "FROM", "s", "[", "RANGE", "3",
          "TUPLES", "]">>),
     Sp(<<"SELECT", "RSTREAM", "[", "SAMPLE", "101", "%", "]", "a", "FROM", "s", "[", "RANGE", "3",
          "TUPLES", "]">>),
     Sp(<<"SELECT", "RSTREAM", "f", "(", "a", ")", "FROM", "s", "[", "RANGE", "3", "TUPLES", "]">>),
     Sp(<<"SELECT", "RSTREAM", "a..b..c", ",", "a", "AS", "x", "FROM", "s", "[", "RANGE", "3",
          "TUPLES", "]">>),
     Sp(<<"SELECT", "RSTREAM", "CASE", "1", "WHEN", "a", "THEN", "2", "END", "FROM", "s", "[",
          "RANGE", "3", "TUPLES", "]">>),
     Sp(<<"SELECT", "RSTREAM", "array_agg", "(", "a", "ORDER", "BY", "b", ")[0]", "FROM", "s", "[",
          "RANGE", "3", "TUPLES", "]">>),
     Sp(<<"SELECT", "RSTREAM", "1", "+", "a", ",", "2", "=", "b", "FROM", "s", "[", "RANGE", "3",
          "TUPLES", "]", "WHERE", "0", "<", "a">>)}

\* One of each of the other statements and options.
StatementTexts ==
    {Sp(<<"CREATE", "PAUSED", "SOURCE", "s", "TYPE", "x", "WITH", "a", "=", "1", ",", "b", "=",
          "\"x\"", ",", "c", "=", "[1,", "TRUE]", ",", "m", "=", "{", "\"k\"", ":", "1.5", "}">>),
     Sp(<<"CREATE", "SINK", "x", "TYPE", "s">>),
     Sp(<<"CREATE", "STATE", "x", "TYPE", "s", "WITH", "a", "=", "-1.5">>),
     Sp(<<"UPDATE", "STATE", "x", "SET", "a", "=", "1">>),
     Sp(<<"UPDATE", "SOURCE", "s", "SET", "a", "=", "1">>),
     Sp(<<"UPDATE", "SINK", "x", "SET", "a", "=", "1", ",", "b", "=", "FALSE">>),
     Sp(<<"INSERT", "INTO", "x", "FROM", "s">>),
     Sp(<<"PAUSE", "SOURCE", "s">>),
     Sp(<<"RESUME", "SOURCE", "s">>),
     Sp(<<"REWIND", "SOURCE", "s">>),
     Sp(<<"DROP", "SOURCE", "s">>),
     Sp(<<"DROP", "STREAM", "s">>),
     Sp(<<"DROP", "SINK", "s">>),
     Sp(<<"DROP", "STATE", "s">>),
     Sp(<<"SAVE", "STATE", "x", "TAG", "a">>),
     Sp(<<"LOAD", "STATE", "x", "TYPE", "s", "TAG", "a", "SET", "b", "=", "1">>),
     Sp(<<"LOAD", "STATE", "x", "TYPE", "s", "OR", "CREATE", "IF", "NOT", "SAVED", "WITH", "a",
          "=", "1">>),
     Sp(<<"CREATE", "STREAM", "x", "AS", "SELECT", "ISTREAM", "a", "FROM", "s", "[", "RANGE", "3",
          "TUPLES", "]">>),
     Sp(<<"CREATE", "STREAM", "x", "AS", "SELECT", "ISTREAM", "a", "FROM", "s", "[", "RANGE", "1",
          "TUPLES", "]", "UNION", "ALL", "SELECT", "RSTREAM", "b", "FROM", "s", "[", "RANGE", "1",
          "TUPLES", "]">>),
     Sp(<<"SELECT", "ISTREAM", "[", "EVERY", "2-ND", "TUPLE", "LIMIT", "3", "]", "a", "FROM", "f",
          "(", "1", ",", "\"x\"", ")", "[", "RANGE", "2", "TUPLES", ",", "BUFFER", "SIZE", "5",
          ",", "DROP", "OLDEST", "IF", "FULL", "]", "AS", "x">>),
     Sp(<<"SELECT", "ISTREAM", "[", "EVERY", "50", "MILLISECONDS", "]", "a", "FROM", "s", "[",
          "RANGE", "1.5", "SECONDS", ",", "WAIT", "IF", "FULL", "]">>),
     Sp(<<"SELECT", "ISTREAM", "[", "SAMPLE", "12.5", "%", "]", "a", "FROM", "s", "[", "RANGE",
          "1", "TUPLES", ",", "DROP", "NEWEST", "IF", "FULL", "]">>),
     Sp(<<"PAUSE", "SOURCE", "s", ";", "DROP", "SOURCE", "s", ";", "EVAL", "a", "-", "b", "-", "c",
          ";">>),
     Sp(<<"EVAL", "1", "--x\n", ";", "DROP", "SINK", "s", "--x\n">>),
     Sp(<<"EVAL", "{", "\"a\"", ":", "[1,", "TRUE]", ",", "\"b\"", ":", "*", "}">>),
     Sp(<<"EVAL", "CASE", "WHEN", "a", "THEN", "[", "]", "WHEN", "b", "THEN", "(", "NOT", "a", ")",
          "AND", "c", "ELSE", "{", "}", "END">>),
     Sp(<<"EVAL", "CASE", "a", "WHEN", "b", "THEN", "-", "(", "a", "+", "b", ")", "*", "c", "END">>),
     Sp(<<"EVAL", "(", "a", "+", "b", ")", "*", "(", "c", "-", "a", "-", "(", "b", "-", "c", ")",
          ")", "/", "(", "a", "/", "(", "b", "*", "c", ")", ")">>),
     Sp(<<"EVAL", "a", "IS", "MISSING", "AND", "(", "a", "||", "b", ")", "||", "c", "=", "NULL",
          "OR", "b", "IS", "NOT", "NULL">>),
     Sp(<<"EVAL", "(", "a", "OR", "b", ")", "AND", "(", "NOT", "a", "=", "b", "OR", "c", ")">>),
     Sp(<<"EVAL", "f", "(", ")[1]..b">>),
     Sp(<<"EVAL", "128">>),
     Sp(<<"SELECT", "a">>),
     Sp(<<"EVAL", "a", "+">>),
     Sp(<<"PAUSE", "SOURCE", "s", ";", "DROP">>)}

\* A statement that reads a column which is not in its GROUP BY clause.
GroupingTexts ==
    {Sp(<<"SELECT", "RSTREAM", "CASE", "b", "WHEN", "2", "THEN", "1", "ELSE", "0", "END", "AS",
          "x", ",", "count", "(", "*", ")", "FROM", "s", "[", "RANGE", "3", "TUPLES", "]", "GROUP",
          "BY", "a">>)}

\* A statement that adds to a map which it has selected.
AliasingTexts ==
    {Sp(<<"SELECT", "RSTREAM", "m", "AS", "x", ",", "5", "AS", "x.b", "FROM", "s", "[", "RANGE",
          "3", "TUPLES", "]">>)}

-----------------------------------------------------------------------------
(* Families of EVAL statements. *)

Chained == {"Or", "And", "Equal", "Concat", "Minus", "Multiply"}
ChainTexts ==
    {Text(<<<<"EVAL", " ", "a">>, OperatorString[o1], <<"b">>, OperatorString[o2], <<"c">>>>) :
        o1, o2 \in Chained}
    \cup {Text(<<<<"EVAL", " ", "a">>, OperatorString[o1], <<"(", "b">>, OperatorString[o2], <<"c", ")">>>>) :
        o1, o2 \in Chained \ {"Equal"}}

\* An expression on a map with the given texts under "a" and "b".
On(e, a, b) ==
    Text(<<<<"EVAL">>, e, <<"ON", " ", "{", Quote, "a", Quote, ":">> \o a
           \o <<",", Quote, "b", Quote, ":">> \o b \o <<"}">>>>)

LogicTexts ==
    {On(Text(<<<<"a">>, OperatorString[o], <<"b">>>>), a, b) :
        o \in {"Or", "And"}, a, b \in {<<"TRUE">>, <<"FALSE">>, <<"NULL">>}}
ArithmeticTexts ==
    {On(Text(<<<<"a">>, OperatorString[o], <<"b">>>>), a, b) :
        o \in {"LessOrEqual", "Greater", "GreaterOrEqual", "NotEqual", "Multiply", "Divide", "Modulo"},
        a, b \in {<<"3">>, <<"1", ".", "5">>, <<"0">>, <<"NULL">>, <<Quote, "x", Quote>>}}
SliceTexts ==
    {On(<<"a", "[">> \o i \o <<":">> \o j \o k \o <<"]">>, <<"[", "0", ",", "1", ",", "2", "]">>, <<"0">>) :
        i, j \in {<<"-", "4">>, <<"-", "1">>, <<"0">>, <<"2">>, <<"4">>},
        k \in {<<>>, <<":", "2">>, <<":", "-", "1">>}}

MCTexts == SelectTexts \cup AnalysisTexts \cup StatementTexts
           \cup ChainTexts \cup LogicTexts \cup ArithmeticTexts \cup SliceTexts

-----------------------------------------------------------------------------
D(a, b, l) == Map((<<"a">> :> a) @@ (<<"b">> :> b) @@ (<<"l">> :> Array(l)))
MCTuples == {D(Integer(1), Integer(2), <<Integer(1), Integer(2)>>),
             D(Float(FloatScale), Null, <<>>),
             D(Integer(2), Str(<<"x">>), <<Float(FloatScale)>>)}

AliasingTuples == {Map(<<"m">> :> Map(<<"a">> :> Integer(i))) : i \in 1..2}

MCMaxRange == [TUPLES |-> 100, SECONDS |-> 10, MILLISECONDS |-> 100]
MCNames == {"a", "b", "c", "f", "k", "l", "m", "s", "x", "y", "count", "sum", "max", "avg", "coalesce",
            "agg", "input", "col"}
=============================================================================
