-------------------------------- MODULE PEG --------------------------------
(***************************************************************************)
(* Parsing expression grammars as data and the matcher that the peg tool    *)
(* generates for them (src/bql/parser/bql.peg.go): the generated functions   *)
(* of the rules differ only in the expression they walk, so one recursive    *)
(* matcher stands for all of them and the rules are values.                  *)
(*                                                                         *)
(* The input is a sequence of symbols.  A symbol is a run of characters that *)
(* no literal of the grammar splits: a keyword, a name, a digit or a         *)
(* punctuation mark.  Positions count symbols from 1.                        *)
(***************************************************************************)
EXTENDS Naturals, Sequences

lit(x) == [op |-> "lit", sym |-> x]
class(S) == [op |-> "class", syms |-> S]
dot == [op |-> "dot"]
seq(es) == [op |-> "seq", es |-> es]
alt(es) == [op |-> "alt", es |-> es]
star(e) == [op |-> "star", e |-> e]
plus(e) == seq(<<e, star(e)>>)
opt(e) == alt(<<e, seq(<<>>)>>)
not(e) == [op |-> "not", e |-> e]
text(e) == [op |-> "text", e |-> e]
act(a) == [op |-> "act", act |-> a]
rule(name) == [op |-> "rule", name |-> name]

\* A literal that consists of several symbols.
lits(xs) == seq([i \in DOMAIN xs |-> lit(xs[i])])

-----------------------------------------------------------------------------
(* The matcher.  What the generated functions keep on the call stack is       *)
(* explicit here: the expressions that are still to be matched, and for a     *)
(* failure the place to go back to with the position and the tokens it had    *)
(* (the save0, position0, tokenIndex0 of the generated code).                 *)

End == [op |-> "end"]
Then(e, k) == [op |-> "then", e |-> e, k |-> k]

\* The ways to go on after a failure, as a linked list that ends in End.
Retry(k, st) == [op |-> "retry", k |-> k, pos |-> st.pos, toks |-> st.toks, else |-> st.else]
cut(else) == [op |-> "cut", else |-> else]              \* a choice is decided
fail(else) == [op |-> "fail", else |-> else]            \* what not(_) rejects was found
endText(begin) == [op |-> "endText", begin |-> begin]

Start(e) == [k |-> Then(e, End), pos |-> 1, toks |-> <<>>, else |-> End]
NoMatch == [k |-> End, pos |-> 0, toks |-> <<>>, else |-> End]
Matched(st) == st.pos # 0
Finished(st) == st.k.op = "end"

PegText(begin, end) == [do |-> "PegText", begin |-> begin, end |-> end]

GoBack(else) ==
    IF else.op = "end" THEN NoMatch
    ELSE [k |-> else.k, pos |-> else.pos, toks |-> else.toks, else |-> else.else]

\* One step of the match of input against the rules g.
Step(g, input, st) ==
    LET e == st.k.e
        k == st.k.k
        Continue(with) == [st EXCEPT !.k = with]
        Consume(ok) == IF st.pos <= Len(input) /\ ok
                       THEN [st EXCEPT !.k = k, !.pos = @ + 1]
                       ELSE GoBack(st.else)
        \* try first; if it fails go on with second
        Try(first, second) == [st EXCEPT !.k = first, !.else = Retry(second, st)]
    IN CASE e.op = "lit" -> Consume(input[st.pos] = e.sym)
         [] e.op = "class" -> Consume(input[st.pos] \in e.syms)
         [] e.op = "dot" -> Consume(TRUE)
         [] e.op = "seq" -> IF e.es = <<>> THEN Continue(k)
                            ELSE Continue(Then(Head(e.es), Then(seq(Tail(e.es)), k)))
         [] e.op = "alt" -> IF e.es = <<>> THEN GoBack(st.else)
                            ELSE Try(Then(Head(e.es), Then(cut(st.else), k)),
                                     Then(alt(Tail(e.es)), k))
         [] e.op = "star" -> Try(Then(e.e, Then(cut(st.else), st.k)), k)
         [] e.op = "not" -> Try(Then(e.e, Then(fail(st.else), k)), k)
         [] e.op = "text" -> Continue(Then(e.e, Then(endText(st.pos), k)))
         [] e.op = "endText" -> [st EXCEPT !.k = k, !.toks = Append(@, PegText(e.begin, st.pos))]
         [] e.op = "act" -> [st EXCEPT !.k = k, !.toks = Append(@, e.act)]
         [] e.op = "rule" -> Continue(Then(g[e.name], k))
         [] e.op = "cut" -> [st EXCEPT !.k = k, !.else = e.else]
         [] e.op = "fail" -> GoBack(e.else)

\* Up to 2^n steps.
RECURSIVE Steps(_, _, _, _)
Steps(n, g, input, st) ==
    IF Finished(st) THEN st
    ELSE IF n = 0 THEN Step(g, input, st)
    ELSE LET half == Steps(n - 1, g, input, st)
         IN IF Finished(half) THEN half ELSE Steps(n - 1, g, input, half)

MaxStepsLog == 20
Match(g, input, e) == Steps(MaxStepsLog, g, input, Start(e))
=============================================================================
