----------------------------- MODULE BQLGrammar -----------------------------
(***************************************************************************)
(* The rules of the BQL grammar (src/bql/parser/bql.peg.go, generated from   *)
(* bql.peg), one definition per rule.  A keyword is one symbol in capitals   *)
(* (literals of the grammar ignore case), other runs of letters are the      *)
(* constant Names, digits and punctuation marks stand for themselves.        *)
(*                                                                         *)
(* A rule that is used before it is defined is named with rule(_); the two   *)
(* rules that close a cycle are collected in Rules.                         *)
(***************************************************************************)
EXTENDS PEG, FiniteSets

CONSTANT Names      \* runs of letters that are no keyword

Digits == {"0", "1", "2", "3", "4", "5", "6", "7", "8", "9"}

Keywords ==
    {"SELECT", "UNION", "ALL", "CREATE", "STREAM", "AS", "SOURCE", "TYPE", "SINK",
     "STATE", "UPDATE", "INSERT", "INTO", "FROM", "PAUSE", "RESUME", "REWIND", "DROP",
     "LOAD", "OR", "IF", "NOT", "SAVED", "EXISTS", "SAVE", "EVAL", "ON", "LIMIT",
     "EVERY", "ST", "ND", "RD", "TH", "TUPLE", "SAMPLE", "SECONDS", "MILLISECONDS",
     "TUPLES", "WHERE", "GROUP", "BY", "HAVING", "RANGE", "BUFFER", "SIZE", "FULL",
     "WITH", "SET", "TAG", "CAST", "ORDER", "CASE", "WHEN", "THEN", "ELSE", "END",
     "NULL", "MISSING", "TRUE", "FALSE", "ISTREAM", "DSTREAM", "RSTREAM", "WAIT",
     "OLDEST", "NEWEST", "PAUSED", "UNPAUSED", "ASC", "DESC", "BOOL", "INT", "FLOAT",
     "STRING", "BLOB", "TIMESTAMP", "ARRAY", "MAP", "AND", "IS"}

Letters == Keywords \cup Names \cup {"ts"}

\* The actions of the grammar, by the call that they make; Execute of module
\* ParseStack gives them their meaning.
Call(name) == act([do |-> name])
component(c) == act([do |-> "PushComponent", comp |-> c])
matched(New) == act([do |-> "PushText", new |-> New])
kw(type, k) == [t |-> type, kw |-> k]

-----------------------------------------------------------------------------
(* White space and comments.                                                  *)

EndOfLine == {"\n", "\r"}
rulecomment == seq(<<lits(<<"-", "-">>), star(seq(<<not(class(EndOfLine)), dot>>)),
                     class(EndOfLine)>>)
rulefinalComment == seq(<<lits(<<"-", "-">>), star(seq(<<not(class(EndOfLine)), dot>>)),
                          not(dot)>>)
rulespElem == alt(<<class({" ", "\t", "\n", "\r"}), rulecomment, rulefinalComment>>)
rulesp == plus(rulespElem)
rulespOpt == star(rulespElem)

\* Keywords with the white space between them, and comma-separated items.
spaced(es) ==
    seq([i \in 1..(2 * Len(es) - 1) |-> IF i % 2 = 1 THEN es[(i + 1) \div 2] ELSE rulesp])
kws(ks) == spaced([i \in DOMAIN ks |-> lit(ks[i])])
list(e) == seq(<<e, star(seq(<<rulespOpt, lit(","), rulespOpt, e>>))>>)

-----------------------------------------------------------------------------
(* Names and JSON paths.                                                      *)

ruleident == seq(<<class(Letters), star(class(Letters \cup Digits \cup {"_"}))>>)

digits == plus(class(Digits))
integer == seq(<<opt(lit("-")), digits>>)
quotedChars == star(alt(<<lits(<<"\"", "\"">>), seq(<<not(lit("\"")), dot>>)>>))

rulejsonArrayFullSlice == lits(<<"[", ":", "]">>)
rulejsonArrayPartialSlice ==
    seq(<<lit("["), text(alt(<<seq(<<lit(":"), integer>>), seq(<<integer, lit(":")>>)>>)),
          lit("]")>>)
rulejsonArraySlice ==
    seq(<<lit("["), text(seq(<<integer, lit(":"), integer, opt(seq(<<lit(":"), integer>>))>>)),
          lit("]")>>)
rulejsonNonNegativeArrayAccess == seq(<<lit("["), text(digits), lit("]")>>)
rulejsonArrayAccess == seq(<<lit("["), text(integer), lit("]")>>)
ruledoubleQuotedString == seq(<<lit("\""), text(quotedChars), lit("\"")>>)
rulejsonMapAccessBracket == seq(<<lit("["), ruledoubleQuotedString, lit("]")>>)
rulejsonMapAccessString == text(ruleident)
rulejsonMapMultipleLevel ==
    seq(<<lits(<<".", ".">>), alt(<<rulejsonMapAccessString, rulejsonMapAccessBracket>>)>>)
rulejsonMapSingleLevel ==
    alt(<<seq(<<lit("."), rulejsonMapAccessString>>), rulejsonMapAccessBracket>>)
rulejsonSetPathNonHead == alt(<<rulejsonMapSingleLevel, rulejsonNonNegativeArrayAccess>>)
rulejsonGetPathNonHead ==
    alt(<<rulejsonMapMultipleLevel, rulejsonMapSingleLevel, rulejsonArrayFullSlice,
          rulejsonArrayPartialSlice, rulejsonArraySlice, rulejsonArrayAccess>>)
rulejsonPathHead == alt(<<rulejsonMapAccessString, rulejsonMapAccessBracket>>)
rulejsonSetPath == seq(<<rulejsonPathHead, star(rulejsonSetPathNonHead)>>)
rulejsonGetPath == seq(<<rulejsonPathHead, star(rulejsonGetPathNonHead)>>)

ruleTargetIdentifier == seq(<<text(alt(<<lit("*"), rulejsonSetPath>>)), matched("Identifier")>>)
ruleIdentifier == seq(<<text(ruleident), matched("Identifier")>>)

-----------------------------------------------------------------------------
(* Keywords and operators that are pushed as components.                      *)

token(e, type, k) == seq(<<text(e), component(kw(type, k))>>)

ruleUnaryMinus == token(lit("-"), "Operator", "UnaryMinus")
ruleModulo == token(lit("%"), "Operator", "Modulo")
ruleDivide == token(lit("/"), "Operator", "Divide")
ruleMultiply == token(lit("*"), "Operator", "Multiply")
ruleMinus == token(lit("-"), "Operator", "Minus")
rulePlus == token(lit("+"), "Operator", "Plus")
ruleIsNot == token(kws(<<"IS", "NOT">>), "Operator", "IsNot")
ruleIs == token(lit("IS"), "Operator", "Is")
ruleConcat == token(lits(<<"|", "|">>), "Operator", "Concat")
ruleNotEqual == token(alt(<<lits(<<"!", "=">>), lits(<<"<", ">">>)>>), "Operator", "NotEqual")
ruleGreaterOrEqual == token(lits(<<">", "=">>), "Operator", "GreaterOrEqual")
ruleGreater == token(lit(">"), "Operator", "Greater")
ruleLessOrEqual == token(lits(<<"<", "=">>), "Operator", "LessOrEqual")
ruleLess == token(lit("<"), "Operator", "Less")
ruleEqual == token(lit("="), "Operator", "Equal")
ruleNot == token(lit("NOT"), "Operator", "Not")
ruleAnd == token(lit("AND"), "Operator", "And")
ruleOr == token(lit("OR"), "Operator", "Or")

ruleMap == token(lit("MAP"), "Type", "MAP")
ruleArray == token(lit("ARRAY"), "Type", "ARRAY")
ruleTimestamp == token(lit("TIMESTAMP"), "Type", "TIMESTAMP")
ruleBlob == token(lit("BLOB"), "Type", "BLOB")
ruleString == token(lit("STRING"), "Type", "STRING")
ruleFloat == token(lit("FLOAT"), "Type", "FLOAT")
ruleInt == token(lit("INT"), "Type", "INT")
ruleBool == token(lit("BOOL"), "Type", "BOOL")
ruleType == alt(<<ruleBool, ruleInt, ruleFloat, ruleString, ruleBlob, ruleTimestamp,
                  ruleArray, ruleMap>>)

ruleDescending == token(lit("DESC"), "BinaryKeyword", "No")
ruleAscending == token(lit("ASC"), "BinaryKeyword", "Yes")
ruleUnpaused == token(lit("UNPAUSED"), "BinaryKeyword", "No")
rulePaused == token(lit("PAUSED"), "BinaryKeyword", "Yes")
ruleSourceSinkParamKey == seq(<<text(ruleident), matched("SourceSinkParamKey")>>)
ruleSourceSinkType == seq(<<text(ruleident), matched("SourceSinkType")>>)
ruleStreamIdentifier == seq(<<text(ruleident), matched("StreamIdentifier")>>)
ruleDropNewest == token(kws(<<"DROP", "NEWEST">>), "SheddingOption", "DropNewest")
ruleDropOldest == token(kws(<<"DROP", "OLDEST">>), "SheddingOption", "DropOldest")
ruleWait == token(lit("WAIT"), "SheddingOption", "Wait")
ruleMILLISECONDS == token(lit("MILLISECONDS"), "IntervalUnit", "MILLISECONDS")
ruleSECONDS == token(lit("SECONDS"), "IntervalUnit", "SECONDS")
ruleTUPLES == token(lit("TUPLES"), "IntervalUnit", "TUPLES")
ruleRSTREAM == token(lit("RSTREAM"), "Emitter", "RSTREAM")
ruleDSTREAM == token(lit("DSTREAM"), "Emitter", "DSTREAM")
ruleISTREAM == token(lit("ISTREAM"), "Emitter", "ISTREAM")

-----------------------------------------------------------------------------
(* Literals and row values.                                                   *)

ruleStringLiteral ==
    seq(<<text(seq(<<lit("\""), quotedChars, lit("\"")>>)), matched("StringLiteral")>>)
ruleWildcard ==
    seq(<<text(seq(<<opt(seq(<<ruleident, lit(":"), not(lit(":"))>>)), lit("*")>>)),
          matched("Wildcard")>>)
ruleFALSE == seq(<<text(lit("FALSE")), component([t |-> "BoolLiteral", bool |-> FALSE])>>)
ruleTRUE == seq(<<text(lit("TRUE")), component([t |-> "BoolLiteral", bool |-> TRUE])>>)
ruleBooleanLiteral == alt(<<ruleTRUE, ruleFALSE>>)
ruleMissing == seq(<<text(lit("MISSING")), component([t |-> "Missing"])>>)
ruleNullLiteral == seq(<<text(lit("NULL")), component([t |-> "NullLiteral"])>>)
ruleFunction == seq(<<text(ruleident), matched("FuncName")>>)
ruleFloatLiteral ==
    seq(<<text(seq(<<integer, lit("."), digits>>)), matched("FloatLiteral")>>)
ruleNonNegativeNumericLiteral == seq(<<text(digits), matched("NumericLiteral")>>)
ruleNumericLiteral == seq(<<text(integer), matched("NumericLiteral")>>)
\* The lookahead keeps a::int from being read as column ":int" of stream "a".
ruleRowValue ==
    seq(<<text(seq(<<opt(seq(<<ruleident, lit(":"), not(lit(":"))>>)), rulejsonGetPath>>)),
          matched("RowValue")>>)
ruleRowTimestamp ==
    seq(<<text(seq(<<opt(seq(<<ruleident, lit(":")>>)), lits(<<"ts", "(", ")">>)>>)),
          matched("RowMeta")>>)
ruleRowMeta == ruleRowTimestamp
ruleStream == seq(<<text(ruleident), matched("Stream")>>)
ruleLiteral == alt(<<ruleFloatLiteral, ruleNumericLiteral, ruleStringLiteral>>)

ruleMultDivOp == alt(<<ruleMultiply, ruleDivide, ruleModulo>>)
rulePlusMinusOp == alt(<<rulePlus, ruleMinus>>)
ruleIsOp == alt(<<ruleIsNot, ruleIs>>)
ruleOtherOp == ruleConcat
ruleComparisonOp == alt(<<ruleEqual, ruleNotEqual, ruleLessOrEqual, ruleLess,
                          ruleGreaterOrEqual, ruleGreater, ruleNotEqual>>)

-----------------------------------------------------------------------------
(* Expressions.                                                               *)

Expression == rule("Expression")
ruleExpressionOrWildcard == alt(<<ruleWildcard, Expression>>)

ruleWhenThenPair ==
    seq(<<spaced(<<lit("WHEN"), Expression, lit("THEN"), ruleExpressionOrWildcard>>),
          Call("AssembleWhenThenPair")>>)
caseBody ==
    text(seq(<<plus(seq(<<rulesp, ruleWhenThenPair>>)),
               opt(seq(<<rulesp, spaced(<<lit("ELSE"), Expression>>)>>)), rulesp, lit("END")>>))
ruleExpressionCase ==
    seq(<<spaced(<<lit("CASE"), Expression>>), caseBody, Call("AssembleExpressionCase")>>)
ruleConditionCase == seq(<<lit("CASE"), caseBody, Call("AssembleConditionCase")>>)
ruleCase == alt(<<ruleConditionCase, ruleExpressionCase>>)

ruleKeyValuePair ==
    seq(<<text(seq(<<ruleStringLiteral, rulespOpt, lit(":"), rulespOpt,
                     ruleExpressionOrWildcard>>)),
          Call("AssembleKeyValuePair")>>)
ruleMapExpr ==
    seq(<<text(seq(<<lit("{"), rulespOpt, opt(list(ruleKeyValuePair)), rulespOpt, lit("}")>>)),
          Call("AssembleMap")>>)
ruleArrayExpr ==
    seq(<<text(seq(<<lit("["), rulespOpt, opt(list(ruleExpressionOrWildcard)), rulespOpt,
                     opt(lit(",")), rulespOpt, lit("]")>>)),
          Call("AssembleExpressions"), Call("AssembleArray")>>)

ruleOrderDirectionOpt ==
    seq(<<text(opt(seq(<<rulesp, alt(<<ruleAscending, ruleDescending>>)>>))),
          Call("EnsureKeywordPresent")>>)
ruleSortedExpression ==
    seq(<<Expression, ruleOrderDirectionOpt, Call("AssembleSortedExpression")>>)
ruleParamsOrder ==
    seq(<<text(spaced(<<lit("ORDER"), lit("BY"), list(ruleSortedExpression)>>)),
          Call("AssembleExpressions")>>)
ruleFuncParams ==
    seq(<<text(opt(list(ruleExpressionOrWildcard))), Call("AssembleExpressions")>>)
ruleFuncAppWithoutOrderBy ==
    seq(<<ruleFunction, rulespOpt, lit("("), rulespOpt, ruleFuncParams, text(rulespOpt),
          lit(")"), Call("AssembleExpressions"), Call("AssembleFuncApp")>>)
ruleFuncAppWithOrderBy ==
    seq(<<ruleFunction, rulespOpt, lit("("), rulespOpt, ruleFuncParams, rulesp,
          ruleParamsOrder, rulespOpt, lit(")"), Call("AssembleFuncApp")>>)
ruleFuncElemAccessor == seq(<<text(plus(rulejsonGetPathNonHead)), matched("Raw")>>)
ruleFuncApp == alt(<<ruleFuncAppWithOrderBy, ruleFuncAppWithoutOrderBy>>)
ruleFuncAppSelector == seq(<<ruleFuncApp, ruleFuncElemAccessor, Call("AssembleFuncAppSelector")>>)
ruleFuncTypeCast ==
    seq(<<text(seq(<<lit("CAST"), rulespOpt, lit("("), rulespOpt,
                     spaced(<<Expression, lit("AS"), ruleType>>), rulespOpt, lit(")")>>)),
          Call("AssembleTypeCast")>>)

rulebaseExpr ==
    alt(<<seq(<<lit("("), rulespOpt, Expression, rulespOpt, lit(")")>>),
          ruleMapExpr, ruleBooleanLiteral, ruleNullLiteral, ruleCase, ruleRowMeta,
          ruleFuncTypeCast, ruleFuncAppSelector, ruleFuncApp, ruleRowValue, ruleArrayExpr,
          ruleLiteral>>)
rulecastExpr ==
    seq(<<text(seq(<<rulebaseExpr,
                     opt(seq(<<rulespOpt, lits(<<":", ":">>), rulespOpt, ruleType>>))>>)),
          Call("AssembleTypeCast")>>)
ruleminusExpr ==
    seq(<<text(seq(<<opt(seq(<<ruleUnaryMinus, rulespOpt>>)), rulecastExpr>>)),
          Call("AssembleUnaryPrefixOperation")>>)

\* Operands with operators between them, and the white space they need.
operation(e) == seq(<<text(e), Call("AssembleBinaryOperation")>>)
chain(e, op, ws) == seq(<<e, star(seq(<<ws, op, ws, e>>))>>)

ruleproductExpr == operation(chain(ruleminusExpr, ruleMultDivOp, rulespOpt))
ruletermExpr == operation(chain(ruleproductExpr, rulePlusMinusOp, rulespOpt))
ruleisExpr ==
    operation(alt(<<spaced(<<ruleRowValue, ruleIsOp, ruleMissing>>),
                    seq(<<ruletermExpr,
                          opt(seq(<<rulesp, spaced(<<ruleIsOp, ruleNullLiteral>>)>>))>>)>>))
ruleotherOpExpr == operation(chain(ruleisExpr, ruleOtherOp, rulespOpt))
rulecomparisonExpr ==
    operation(seq(<<ruleotherOpExpr,
                    opt(seq(<<rulespOpt, ruleComparisonOp, rulespOpt, ruleotherOpExpr>>))>>))
rulenotExpr ==
    seq(<<text(seq(<<opt(seq(<<ruleNot, rulesp>>)), rulecomparisonExpr>>)),
          Call("AssembleUnaryPrefixOperation")>>)
ruleandExpr == operation(chain(rulenotExpr, ruleAnd, rulesp))
ruleorExpr == operation(chain(ruleandExpr, ruleOr, rulesp))
ruleExpression == ruleorExpr

-----------------------------------------------------------------------------
(* Components of statements.                                                  *)

rulePausedOpt ==
    seq(<<text(opt(seq(<<rulesp, alt(<<rulePaused, ruleUnpaused>>)>>))),
          Call("EnsureKeywordPresent")>>)

ParamLiteral == rule("ParamLiteral")
ruleParamKeyValuePair ==
    seq(<<text(seq(<<ruleStringLiteral, rulespOpt, lit(":"), rulespOpt, ParamLiteral>>)),
          Call("AssembleKeyValuePair")>>)
ruleParamMapExpr ==
    seq(<<text(seq(<<lit("{"), rulespOpt, opt(list(ruleParamKeyValuePair)), rulespOpt,
                     lit("}")>>)),
          Call("AssembleMap")>>)
\* Unlike in other lists, no white space is allowed before the comma.
ruleParamArrayExpr ==
    seq(<<text(seq(<<lit("["), rulespOpt,
                     opt(seq(<<ParamLiteral, star(seq(<<lit(","), rulespOpt, ParamLiteral>>))>>)),
                     rulespOpt, opt(lit(",")), rulespOpt, lit("]")>>)),
          Call("AssembleExpressions"), Call("AssembleArray")>>)
ruleParamLiteral ==
    alt(<<ruleBooleanLiteral, ruleLiteral, ruleParamArrayExpr, ruleParamMapExpr>>)
ruleSourceSinkParamVal == ParamLiteral
ruleSourceSinkParam ==
    seq(<<ruleSourceSinkParamKey, rulespOpt, lit("="), rulespOpt, ruleSourceSinkParamVal,
          Call("AssembleSourceSinkParam")>>)
ruleStateTagOpt ==
    seq(<<text(opt(seq(<<rulesp, spaced(<<lit("TAG"), ruleIdentifier>>)>>))),
          Call("EnsureIdentifier")>>)

specs(keyword) == seq(<<rulesp, lit(keyword), rulesp, list(ruleSourceSinkParam)>>)
ruleSetOptSpecs == seq(<<text(opt(specs("SET"))), Call("AssembleSourceSinkSpecs")>>)
ruleUpdateSourceSinkSpecs == seq(<<text(specs("SET")), Call("AssembleSourceSinkSpecs")>>)
ruleSourceSinkSpecs == seq(<<text(opt(specs("WITH"))), Call("AssembleSourceSinkSpecs")>>)

ruleSheddingOption == alt(<<ruleWait, ruleDropOldest, ruleDropNewest>>)
ruleSheddingSpecOpt ==
    seq(<<text(opt(seq(<<rulespOpt, lit(","), rulespOpt,
                         spaced(<<ruleSheddingOption, lit("IF"), lit("FULL")>>)>>))),
          Call("EnsureSheddingSpec")>>)
ruleCapacitySpecOpt ==
    seq(<<text(opt(seq(<<rulespOpt, lit(","), rulespOpt,
                         spaced(<<lit("BUFFER"), lit("SIZE"),
                                  ruleNonNegativeNumericLiteral>>)>>))),
          Call("EnsureCapacitySpec")>>)
ruleTuplesInterval ==
    seq(<<spaced(<<ruleNumericLiteral, ruleTUPLES>>), Call("AssembleInterval")>>)
number == alt(<<ruleFloatLiteral, ruleNumericLiteral>>)
ruleTimeInterval ==
    seq(<<spaced(<<number, alt(<<ruleSECONDS, ruleMILLISECONDS>>)>>), Call("AssembleInterval")>>)
ruleInterval == alt(<<ruleTimeInterval, ruleTuplesInterval>>)
ruleUDSFFuncApp == seq(<<ruleFuncAppWithoutOrderBy, Call("AssembleUDSFFuncApp")>>)
ruleStreamLike == alt(<<ruleUDSFFuncApp, ruleStream>>)
ruleStreamWindow ==
    seq(<<ruleStreamLike, rulespOpt, lit("["), rulespOpt, lit("RANGE"), rulesp, ruleInterval,
          ruleCapacitySpecOpt, ruleSheddingSpecOpt, rulespOpt, lit("]"),
          Call("AssembleStreamWindow")>>)
ruleAliasedStreamWindow ==
    seq(<<spaced(<<ruleStreamWindow, lit("AS"), ruleIdentifier>>),
          Call("AssembleAliasedStreamWindow")>>)
ruleRelationLike ==
    alt(<<ruleAliasedStreamWindow, seq(<<ruleStreamWindow, Call("EnsureAliasedStreamWindow")>>)>>)

\* Clauses that may be absent; their action runs in any case.
clause(e, assemble) == seq(<<text(opt(seq(<<rulesp, e>>))), Call(assemble)>>)

ruleHaving == clause(spaced(<<lit("HAVING"), Expression>>), "AssembleHaving")
ruleGroupList == list(Expression)
ruleGrouping == clause(spaced(<<lit("GROUP"), lit("BY"), ruleGroupList>>), "AssembleGrouping")
ruleFilter == clause(spaced(<<lit("WHERE"), Expression>>), "AssembleFilter")
ruleRelations == list(ruleRelationLike)
ruleWindowedFrom == clause(spaced(<<lit("FROM"), ruleRelations>>), "AssembleWindowedFrom")
ruleAliasExpression ==
    seq(<<spaced(<<ruleExpressionOrWildcard, lit("AS"), ruleTargetIdentifier>>),
          Call("AssembleAlias")>>)
ruleProjection == alt(<<ruleAliasExpression, ruleExpressionOrWildcard>>)
ruleProjections == seq(<<text(seq(<<rulesp, list(ruleProjection)>>)), Call("AssembleProjections")>>)

\* The value of a sampling is multiplied by 1/divisor.
sampling(type, divisor) ==
    act([do |-> "AssembleEmitterSampling", type |-> type, divisor |-> divisor])
ruleTimeBasedSamplingMilliseconds ==
    seq(<<spaced(<<lit("EVERY"), number, lit("MILLISECONDS")>>),
          sampling("TimeBasedSampling", 1000)>>)
ruleTimeBasedSamplingSeconds ==
    seq(<<spaced(<<lit("EVERY"), number, lit("SECONDS")>>),
          sampling("TimeBasedSampling", 1)>>)
ruleTimeBasedSampling == alt(<<ruleTimeBasedSamplingSeconds, ruleTimeBasedSamplingMilliseconds>>)
ruleRandomizedSampling ==
    seq(<<spaced(<<lit("SAMPLE"), number>>), rulespOpt, lit("%"),
          sampling("RandomizedSampling", 1)>>)
ruleCountBasedSampling ==
    seq(<<spaced(<<lit("EVERY"), ruleNumericLiteral>>), rulespOpt, opt(lit("-")), rulespOpt,
          spaced(<<class({"ST", "ND", "RD", "TH"}), lit("TUPLE")>>),
          sampling("CountBasedSampling", 1)>>)
ruleEmitterSample == alt(<<ruleCountBasedSampling, ruleRandomizedSampling, ruleTimeBasedSampling>>)
ruleEmitterLimit ==
    seq(<<spaced(<<lit("LIMIT"), ruleNumericLiteral>>), Call("AssembleEmitterLimit")>>)
ruleEmitterOptionCombinations ==
    alt(<<ruleEmitterLimit, spaced(<<ruleEmitterSample, ruleEmitterLimit>>), ruleEmitterSample>>)
ruleEmitterOptions ==
    seq(<<text(opt(seq(<<rulespOpt, lit("["), rulespOpt, ruleEmitterOptionCombinations,
                         rulespOpt, lit("]")>>))),
          Call("AssembleEmitterOptions")>>)
ruleEmitter ==
    seq(<<rulesp, alt(<<ruleISTREAM, ruleDSTREAM, ruleRSTREAM>>), ruleEmitterOptions,
          Call("AssembleEmitter")>>)

-----------------------------------------------------------------------------
(* Statements.                                                                *)

ruleEvalStmt ==
    seq(<<spaced(<<lit("EVAL"), Expression>>),
          text(opt(seq(<<rulesp, spaced(<<lit("ON"), ruleMapExpr>>)>>))), Call("AssembleEval")>>)

\* A verb, the kind of thing it is about, and the name of that thing.
about(verb, kind) == spaced(<<lit(verb), lit(kind), ruleStreamIdentifier>>)
typed(verb, kind) ==
    spaced(<<about(verb, kind), lit("TYPE"), ruleSourceSinkType>>)

ruleSaveStateStmt == seq(<<about("SAVE", "STATE"), ruleStateTagOpt, Call("AssembleSaveState")>>)
ruleLoadStateStmt ==
    seq(<<typed("LOAD", "STATE"), ruleStateTagOpt, ruleSetOptSpecs, Call("AssembleLoadState")>>)
ruleLoadStateOrCreateStmt ==
    seq(<<spaced(<<ruleLoadStateStmt, lit("OR"), lit("CREATE"), lit("IF"), lit("NOT"),
                   class({"SAVED", "EXISTS"})>>),
          ruleSourceSinkSpecs, Call("AssembleLoadStateOrCreate")>>)
ruleDropStateStmt == seq(<<about("DROP", "STATE"), Call("AssembleDropState")>>)
ruleDropSinkStmt == seq(<<about("DROP", "SINK"), Call("AssembleDropSink")>>)
ruleDropStreamStmt == seq(<<about("DROP", "STREAM"), Call("AssembleDropStream")>>)
ruleDropSourceStmt == seq(<<about("DROP", "SOURCE"), Call("AssembleDropSource")>>)
ruleRewindSourceStmt == seq(<<about("REWIND", "SOURCE"), Call("AssembleRewindSource")>>)
ruleResumeSourceStmt == seq(<<about("RESUME", "SOURCE"), Call("AssembleResumeSource")>>)
rulePauseSourceStmt == seq(<<about("PAUSE", "SOURCE"), Call("AssemblePauseSource")>>)
ruleInsertIntoFromStmt ==
    seq(<<spaced(<<about("INSERT", "INTO"), lit("FROM"), ruleStreamIdentifier>>),
          Call("AssembleInsertIntoFrom")>>)
ruleUpdateSinkStmt ==
    seq(<<about("UPDATE", "SINK"), ruleUpdateSourceSinkSpecs, Call("AssembleUpdateSink")>>)
ruleUpdateSourceStmt ==
    seq(<<about("UPDATE", "SOURCE"), ruleUpdateSourceSinkSpecs, Call("AssembleUpdateSource")>>)
ruleUpdateStateStmt ==
    seq(<<about("UPDATE", "STATE"), ruleUpdateSourceSinkSpecs, Call("AssembleUpdateState")>>)
ruleCreateStateStmt ==
    seq(<<typed("CREATE", "STATE"), ruleSourceSinkSpecs, Call("AssembleCreateState")>>)
ruleCreateSinkStmt ==
    seq(<<typed("CREATE", "SINK"), ruleSourceSinkSpecs, Call("AssembleCreateSink")>>)
ruleCreateSourceStmt ==
    seq(<<lit("CREATE"), rulePausedOpt, rulesp,
          spaced(<<lit("SOURCE"), ruleStreamIdentifier, lit("TYPE"), ruleSourceSinkType>>),
          ruleSourceSinkSpecs, Call("AssembleCreateSource")>>)
ruleSelectStmt ==
    seq(<<lit("SELECT"), ruleEmitter, ruleProjections, ruleWindowedFrom, ruleFilter,
          ruleGrouping, ruleHaving, Call("AssembleSelect")>>)
SelectStmt == rule("SelectStmt")
ruleSelectUnionStmt ==
    seq(<<text(seq(<<SelectStmt,
                     plus(seq(<<rulesp, spaced(<<lit("UNION"), lit("ALL"),
                                                 SelectStmt>>)>>))>>)),
          Call("AssembleSelectUnion")>>)
ruleCreateStreamAsSelectUnionStmt ==
    seq(<<spaced(<<about("CREATE", "STREAM"), lit("AS"), ruleSelectUnionStmt>>),
          Call("AssembleCreateStreamAsSelectUnion")>>)
ruleCreateStreamAsSelectStmt ==
    seq(<<spaced(<<about("CREATE", "STREAM"), lit("AS"), SelectStmt>>),
          Call("AssembleCreateStreamAsSelect")>>)

ruleStreamStmt == alt(<<ruleCreateStreamAsSelectUnionStmt, ruleCreateStreamAsSelectStmt,
                        ruleDropStreamStmt, ruleInsertIntoFromStmt>>)
ruleStateStmt == alt(<<ruleCreateStateStmt, ruleUpdateStateStmt, ruleDropStateStmt,
                       ruleLoadStateOrCreateStmt, ruleLoadStateStmt, ruleSaveStateStmt>>)
ruleSinkStmt == alt(<<ruleCreateSinkStmt, ruleUpdateSinkStmt, ruleDropSinkStmt>>)
ruleSourceStmt == alt(<<ruleCreateSourceStmt, ruleUpdateSourceStmt, ruleDropSourceStmt,
                        rulePauseSourceStmt, ruleResumeSourceStmt, ruleRewindSourceStmt>>)
ruleStatement == alt(<<ruleSelectUnionStmt, SelectStmt, ruleSourceStmt, ruleSinkStmt,
                       ruleStateStmt, ruleStreamStmt, ruleEvalStmt>>)
Statement == rule("Statement")
ruleStatementWithoutRest ==
    seq(<<text(seq(<<Statement, rulespOpt>>)), Call("IncludeTrailingWhitespace")>>)
ruleStatementWithRest ==
    seq(<<text(seq(<<Statement, rulespOpt, lit(";"), rulespOpt>>)), star(dot),
          Call("IncludeTrailingWhitespace")>>)
ruleSingleStatement ==
    seq(<<rulespOpt, alt(<<ruleStatementWithRest, ruleStatementWithoutRest>>), not(dot)>>)

Rules == [Expression |-> ruleExpression, ParamLiteral |-> ruleParamLiteral,
          SelectStmt |-> ruleSelectStmt, Statement |-> ruleStatement]

\* bqlPegBackend.Parse: the tokens of the input, or no match.
Parse(input) == Match(Rules, input, ruleSingleStatement)
=============================================================================
