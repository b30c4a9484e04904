---------------------------- MODULE BQLStatement ----------------------------
(***************************************************************************)
(* The life of a BQL statement: its text is parsed (BQLParser), an EVAL       *)
(* statement is evaluated, a SELECT statement on one stream becomes a plan    *)
(* that processes tuples (SelectPlan).  A window of TUPLES keeps the last     *)
(* ones and a window of time all of them; windows whose tuples leave with the *)
(* time, and joins, are the subject of StreamRelationPlan.                    *)
(***************************************************************************)
EXTENDS BQLParser, SelectPlan

CONSTANTS
    Tuples,     \* the data of the tuples that arrive
    MaxRows     \* the number of tuples that a window may hold

VARIABLES
    plan,       \* the physical plan, an error or a panic
    window,     \* the data of the tuples in the window
    out         \* the results for the window, or the value of EVAL

stmtVars == <<vars, plan, window, out>>

StmtInit == Init /\ plan = Nil /\ window = <<>> /\ out = Nil

stmt == results[1]
single(type) == pc = "done" /\ Len(results) = 1 /\ stmt.t = type

Parsing == ParseStmts /\ UNCHANGED <<plan, window, out>>

\* Analyze, LogicalOptimize and MakePhysicalPlan.
PlanOf(lp) == IF lp.t = "LogicalPlan" THEN MakePhysicalPlan(lp) ELSE lp
Compile(s) == PlanOf(Analyze(s))

PlanSelect ==
    /\ single("SelectStmt")
    /\ plan' = Compile(stmt)
    /\ pc' = CASE plan'.t = "panic" -> "panicked"
               [] plan'.t = "error" -> "refused"
               [] OTHER -> "running"
    /\ UNCHANGED <<text0, rest, results, failure, window, out>>

\* The row of the i-th tuple: its data and its timestamp under the relation's name.
InputRow(alias, data, i) == Map((alias :> data) @@ (TimestampKey(alias) :> Timestamp(i)))

Rows(alias, tuples) == [i \in DOMAIN tuples |-> InputRow(alias, tuples[i], i)]
StmtAlias == Aliased(stmt.Relations[1]).Alias

\* addTupleToBuffer and removeOutdatedTuplesFromBuffer.
Enter(d) ==
    LET rel == stmt.Relations[1]
        over == rel.Unit = "TUPLES" /\ (Len(window) + 1) * FloatScale > rel.Value
    IN IF over THEN Append(Tail(window), d) ELSE Append(window, d)

Process ==
    /\ pc = "running"
    /\ Len(stmt.Relations) = 1
    /\ \E d \in Tuples : window' = Enter(d)
    /\ Len(window') <= MaxRows
    /\ out' = RunQuery(plan, Rows(StmtAlias, window'))
    /\ UNCHANGED <<vars, plan>>

\* Without ON the expression must be foldable; with it the columns are those of the
\* given map.
EvalOn(e, used, input) ==
    CASE input.t \in {"error", "panic"} -> input
      [] used.map = "panic" -> Panic
      [] ~(used.rels \subseteq {<<>>}) -> Error
      [] OTHER -> EvaluateOnInput(Rename(e, <<"input">>), Map(<<"input">> :> input))

EvalValue(s) ==
    IF s.Input = Nil THEN EvaluateFoldable(s.Expr)
    ELSE EvalOn(s.Expr, ReferencedRelations(s.Expr), EvaluateFoldable(s.Input))

RunEvalStmt ==
    /\ single("EvalStmt")
    /\ out' = EvalValue(stmt)
    /\ pc' = IF out'.t = "panic" THEN "panicked" ELSE "evaluated"
    /\ UNCHANGED <<text0, rest, results, failure, plan, window>>

StmtNext == Parsing \/ PlanSelect \/ Process \/ RunEvalStmt
StmtSpec == StmtInit /\ [][StmtNext]_stmtVars
=============================================================================
