----------------------------- MODULE BQLParser -----------------------------
(***************************************************************************)
(* The BQL parser (src/bql/parser/parser.go): ParseStmts takes a text apart   *)
(* statement by statement.                                                   *)
(***************************************************************************)
EXTENDS BQLGrammar, ParseStack

CONSTANT Texts      \* the texts that are parsed

VARIABLES
    text0,      \* the argument of ParseStmts
    rest,       \* what is still to be parsed
    results,    \* the statements found so far
    failure,    \* the kind of the error that ParseStmts returns
    pc          \* "parsing", "done" or, if ParseStmts returns an error, "failed"

vars == <<text0, rest, results, failure, pc>>

Spaces == {" ", "\t", "\n", "\r"}

RECURSIVE TrimLeft(_, _)
TrimLeft(s, S) == IF s # <<>> /\ Head(s) \in S THEN TrimLeft(Tail(s), S) ELSE s
TrimSpace(s) == Reverse(TrimLeft(Reverse(TrimLeft(s, Spaces)), Spaces))

Failure(why) == [ok |-> FALSE, why |-> why]

\* ParseStmt: the first statement of a text and the text behind it.
Parsed(ps, s) ==
    CASE Panicked(ps) -> Failure("panic")
      [] ps = <<>> -> Failure("no statement")
      [] OTHER -> [ok |-> TRUE, stmt |-> Last(ps).comp, left |-> Len(ps) - 1,
                   rest |-> TrimLeft(SubSeq(s, Last(ps).end, Len(s)), Spaces \cup {";"})]

MatchedStmt(m, s) == IF Matched(m) THEN Parsed(Execute(m.toks, s), s) ELSE Failure("syntax")
ParseStmt(s) == MatchedStmt(Parse(s), s)

Init ==
    /\ text0 \in Texts
    /\ rest = TrimSpace(text0)
    /\ results = <<>>
    /\ failure = "none"
    /\ pc = IF rest = <<>> THEN "done" ELSE "parsing"

\* One iteration of the loop of ParseStmts.
ParseStmts ==
    /\ pc = "parsing"
    /\ \E r \in {ParseStmt(rest)} :
          IF r.ok
          THEN /\ rest' = r.rest
               /\ results' = Append(results, r.stmt)
               /\ pc' = IF r.rest = <<>> THEN "done" ELSE "parsing"
               /\ UNCHANGED failure
          ELSE /\ pc' = "failed"
               /\ failure' = r.why
               /\ results' = <<>>
               /\ UNCHANGED rest
    /\ UNCHANGED text0

Next == ParseStmts
Spec == Init /\ [][Next]_vars
=============================================================================
