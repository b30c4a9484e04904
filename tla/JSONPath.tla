------------------------------ MODULE JSONPath ------------------------------
(***************************************************************************)
(* JSON paths (src/data/jsonpath.go with the grammar of jsonpath.peg.go):    *)
(* the compilation of a text into extractors, and reading and writing the    *)
(* value that a path leads to.                                              *)
(***************************************************************************)
EXTENDS DataValues, PEG

MaxIndex == MaxInt \div 2       \* an index is an int32 where an integer is an int64

-----------------------------------------------------------------------------
(* The grammar.                                                              *)

Marks == {Digit[i] : i \in 1..10}
         \cup {".", "[", "]", ":", "'", Quote, "-", "_", " ", "*", "(", ")", ","}
letter == seq(<<not(class(Marks)), dot>>)
digits == plus(class({Digit[i] : i \in 1..10}))
number == seq(<<opt(lit("-")), digits>>)
Call(name) == act([do |-> name])
Quoted(q) == star(alt(<<lits(<<q, q>>), seq(<<not(lit(q)), dot>>)>>))

rulejsonArrayFullSlice == seq(<<lits(<<"[", ":", "]">>), Call("addFullSlice")>>)
rulejsonArrayPartialSlice ==
    seq(<<lit("["), text(alt(<<seq(<<lit(":"), number>>), seq(<<number, lit(":")>>)>>)),
          lit("]"), Call("addArraySlice")>>)
rulejsonArraySlice ==
    seq(<<lit("["), text(seq(<<number, lit(":"), number, opt(seq(<<lit(":"), number>>))>>)),
          lit("]"), Call("addArraySlice")>>)
rulejsonArrayAccess == seq(<<lit("["), text(number), lit("]"), Call("addArrayAccess")>>)
rulejsonArraySlices ==
    alt(<<rulejsonArrayAccess, rulejsonArraySlice, rulejsonArrayPartialSlice,
          rulejsonArrayFullSlice>>)
ruledoubleQuotedString ==
    seq(<<lit(Quote), text(Quoted(Quote)), lit(Quote), act([do |-> "lastKey", quote |-> Quote])>>)
rulesingleQuotedString ==
    seq(<<lit("'"), text(Quoted("'")), lit("'"), act([do |-> "lastKey", quote |-> "'"])>>)
rulejsonMapAccessBracket ==
    seq(<<lit("["), alt(<<rulesingleQuotedString, ruledoubleQuotedString>>), lit("]")>>)
rulejsonMapAccessString ==
    seq(<<text(seq(<<letter, star(alt(<<letter, digits, lit("_")>>))>>)),
          act([do |-> "lastKey", quote |-> ""])>>)
rulejsonMapMultipleLevel ==
    seq(<<lits(<<".", ".">>), alt(<<rulejsonMapAccessString, rulejsonMapAccessBracket>>),
          Call("addRecursiveAccess")>>)
rulejsonMapSingleLevel ==
    seq(<<alt(<<seq(<<lit("."), rulejsonMapAccessString>>), rulejsonMapAccessBracket>>),
          Call("addMapAccess")>>)
rulejsonPathNonHead ==
    alt(<<rulejsonMapMultipleLevel, rulejsonMapSingleLevel, rulejsonArrayFullSlice,
          rulejsonArrayPartialSlice, rulejsonArraySlice, rulejsonArrayAccess>>)
rulejsonPathHead ==
    seq(<<alt(<<rulejsonMapAccessString, rulejsonMapAccessBracket>>), Call("addMapAccess")>>)
rulejsonPath ==
    seq(<<alt(<<rulejsonPathHead, rulejsonArraySlices>>), star(rulejsonPathNonHead), not(dot)>>)

-----------------------------------------------------------------------------
(* Compilation.  A panic of an action is recovered by CompilePath.            *)

key(s) == [op |-> "key", key |-> s]
recursive(s) == [op |-> "recursive", key |-> s]
index(i) == [op |-> "index", idx |-> i]

\* strings.Replace of two quotes by one.
RECURSIVE Single(_, _)
Single(s, q) ==
    IF Len(s) < 2 THEN s
    ELSE IF s[1] = q /\ s[2] = q THEN <<q>> \o Single(SubSeq(s, 3, Len(s)), q)
    ELSE <<s[1]>> \o Single(Tail(s), q)

Split(s) ==
    LET colons == SelectSeq([i \in DOMAIN s |-> i], LAMBDA i : s[i] = ":")
        bounds == <<0>> \o colons \o <<Len(s) + 1>>
    IN [i \in 1..(Len(bounds) - 1) |-> SubSeq(s, bounds[i] + 1, bounds[i + 1] - 1)]

addArrayAccess(s) ==
    LET i == Signed(s, Natural) IN IF Abs(i) <= MaxIndex THEN index(i) ELSE Error

slice(start, end, step, startSet, endSet) ==
    LET sameSide == (start >= 0) = (end >= 0)
    IN IF \/ \E n \in {start, end, step} : Abs(n) > MaxIndex
          \/ step = 0
          \/ sameSide /\ start > end /\ step > 0 /\ startSet /\ endSet
          \/ sameSide /\ start < end /\ step < 0
       THEN Error
       ELSE [op |-> "slice", start |-> start, end |-> end, step |-> step,
             startSet |-> startSet, endSet |-> endSet]

SliceOf(parts) ==
    LET isSet(i) == i <= Len(parts) /\ parts[i] # <<>>
        value(i, default) == IF isSet(i) THEN Signed(parts[i], Natural) ELSE default
    IN slice(value(1, 0), value(2, 0), value(3, 1), isSet(1), isSet(2))
addArraySlice(s) == SliceOf(Split(s))

\* What an action of the grammar does to the extractors found so far.
AddComponent(j, tok, s) ==
    LET matched == SubSeq(s, j.begin, j.end - 1)
        add(c) == [j EXCEPT !.components = Append(@, c)]
    IN CASE tok.do = "PegText" -> [j EXCEPT !.begin = tok.begin, !.end = tok.end]
         [] tok.do = "lastKey" -> [j EXCEPT !.lastKey = Single(matched, tok.quote)]
         [] tok.do = "addMapAccess" -> add(key(j.lastKey))
         [] tok.do = "addRecursiveAccess" -> add(recursive(j.lastKey))
         [] tok.do = "addArrayAccess" -> add(addArrayAccess(matched))
         [] tok.do = "addArraySlice" -> add(addArraySlice(matched))
         [] tok.do = "addFullSlice" -> add(addArraySlice(<<"0", ":">>))

Many(c) == c.op \in {"slice", "recursive"}      \* resultMultiplicity

Components(toks, s) ==
    FoldLeft(LAMBDA acc, tok : AddComponent(acc, tok, s),
             [components |-> <<>>, lastKey |-> <<>>, begin |-> 1, end |-> 1], toks).components

PathOf(cs) ==
    IF (\E i \in DOMAIN cs : "t" \in DOMAIN cs[i]) \/ Len(SelectSeq(cs, Many)) > 1
    THEN Error ELSE [t |-> "path", components |-> cs]

MatchedPath(m, s) == IF Matched(m) THEN PathOf(Components(m.toks, s)) ELSE Error
CompilePath(s) ==
    IF s = <<>> THEN Error ELSE MatchedPath(Match([none |-> dot], s, rulejsonPath), s)

-----------------------------------------------------------------------------
(* Reading.                                                                  *)

Resolved(i, n) == IF i < 0 THEN n + i ELSE i

\* The indexes that a loop from start to end visits.
CountFrom(start, end, step) ==
    LET n == IF step > 0 THEN (end - start + step - 1) \div step
             ELSE (start - end - step - 1) \div (-step)
    IN [i \in 1..n |-> start + (i - 1) * step]

\* The indexes that a slice takes from an array of length n, counted from 0.
SliceIndexes(c, n) ==
    LET start == Resolved(c.start, n)
        end == IF c.end < 0 \/ c.endSet THEN Resolved(c.end, n) ELSE n
        lo == IF start < 0 THEN 0 ELSE start
        hi == IF end > n THEN n ELSE end
        first == IF start >= n THEN n - 1 ELSE start
        last == IF end < 0 THEN -1 ELSE end
    IN CASE start <= end /\ c.step > 0 ->
              IF lo >= n \/ hi < lo THEN <<>> ELSE CountFrom(lo, hi, c.step)
         [] start >= end /\ c.step < 0 ->
              IF first < 0 \/ first < last THEN <<>> ELSE CountFrom(first, last, c.step)
         [] OTHER -> <<>>

\* The values below a container that recursiveExtractor finds; the order of the
\* entries of a map is not specified by Go and is fixed here.
RECURSIVE Descend(_, _)
Descend(v, k) ==
    CASE v.t = "Map" ->
           LET ks == SetToSeq(DOMAIN v.map)
           IN FlattenSeq([i \in DOMAIN ks |->
                  IF ks[i] = k THEN <<v.map[ks[i]]>> ELSE Descend(v.map[ks[i]], k)])
      [] v.t = "Array" -> FlattenSeq([i \in DOMAIN v.arr |-> Descend(v.arr[i], k)])
      [] OTHER -> <<>>

Elements(arr, is) == Array([i \in DOMAIN is |-> arr[is[i] + 1]])

extract(c, v) ==
    CASE c.op = "key" -> IF v.t = "Map" /\ c.key \in DOMAIN v.map THEN v.map[c.key] ELSE Error
      [] c.op = "index" ->
           LET i == IF v.t = "Array" THEN Resolved(c.idx, Len(v.arr)) + 1 ELSE 0
           IN IF v.t = "Array" /\ i \in DOMAIN v.arr THEN v.arr[i] ELSE Error
      [] c.op = "slice" ->
           IF v.t = "Array" THEN Elements(v.arr, SliceIndexes(c, Len(v.arr))) ELSE Error
      [] c.op = "recursive" ->
           IF v.t \in {"Map", "Array"} THEN Array(Descend(v, c.key)) ELSE Error

\* Behind an extractor with many results the others apply to each of them.
evaluate(path, v) ==
    LET many(i) == \E j \in 1..(i - 1) : Many(path.components[j])
        step(cur, c, each) ==
            CASE IsError(cur) -> Error
              [] each -> ArrayOf([i \in DOMAIN cur.arr |-> extract(c, cur.arr[i])])
              [] OTHER -> extract(c, cur)
    IN FoldLeft(LAMBDA cur, i : step(cur, path.components[i], many(i)), v,
                [i \in DOMAIN path.components |-> i])

-----------------------------------------------------------------------------
(* Writing.  A Go map or slice is shared by all that hold it.  A container     *)
(* that belongs to the row an expression is evaluated on has the field at,    *)
(* the extractors that lead to it from the row: writing below it writes to    *)
(* the row.                                                                  *)

\* extractForSet along a path: null values become containers, arrays are padded.
WithEntry(m, key_, new) ==
    IF IsError(new) THEN Error
    ELSE [m EXCEPT !.map = [k \in DOMAIN @ \cup {key_} |-> IF k = key_ THEN new ELSE m.map[k]]]

WithElement(a, i, new) ==
    CASE IsError(new) -> Error
      [] i <= Len(a.arr) -> [a EXCEPT !.arr[i] = new]
      [] OTHER -> Array([j \in 1..i |-> CASE j = i -> new        \* a new slice
                                          [] j <= Len(a.arr) -> a.arr[j]
                                          [] OTHER -> Null])

Below(cur, c) ==
    CASE cur.t = "Map" -> IF c.key \in DOMAIN cur.map THEN cur.map[c.key] ELSE Null
      [] cur.t = "Array" -> IF c.idx < Len(cur.arr) THEN cur.arr[c.idx + 1] ELSE Null
      [] cur.t = "Null" -> Null

RECURSIVE setBelow(_, _, _)
setBelow(cur, cs, v) ==
    LET c == Head(cs)
        child == setBelow(Below(cur, c), Tail(cs), v)
        or(new) == IF cur.t = "Null" THEN new ELSE cur
    IN CASE cs = <<>> -> v
         [] c.op = "key" /\ cur.t \in {"Null", "Map"} -> WithEntry(or(Map(<<>>)), c.key, child)
         [] c.op = "index" /\ cur.t \in {"Null", "Array"} /\ c.idx >= 0 ->
              WithElement(or(Array(<<>>)), c.idx + 1, child)
         [] OTHER -> Error

set(m, path, v) == setBelow(m, path.components, v)

\* The places of the row that are written to when a path below cur is set.
RECURSIVE SharedPlaces(_, _)
SharedPlaces(cur, cs) ==
    LET c == Head(cs)
        here == IF "at" \in DOMAIN cur THEN {cur.at \o cs} ELSE {}
    IN CASE cs = <<>> -> {}
         [] cur.t = "Map" /\ c.op = "key" ->
              here \cup (IF c.key \in DOMAIN cur.map THEN SharedPlaces(cur.map[c.key], Tail(cs)) ELSE {})
         [] cur.t = "Array" /\ c.op = "index" /\ c.idx < Len(cur.arr) ->
              here \cup SharedPlaces(cur.arr[c.idx + 1], Tail(cs))
         [] OTHER -> {}     \* a longer array is a new one

RECURSIVE Shared(_, _)
Shared(v, at) ==
    CASE v.t = "Map" -> [t |-> "Map", at |-> at,
                         map |-> [k \in DOMAIN v.map |-> Shared(v.map[k], Append(at, key(k)))]]
      [] v.t = "Array" -> [t |-> "Array", at |-> at,
                           arr |-> [i \in DOMAIN v.arr |-> Shared(v.arr[i], Append(at, index(i - 1)))]]
      [] OTHER -> v

\* A value as the row has it now, and without the marks.
RECURSIVE Settled(_, _)
Unmarked(v, row) ==
    CASE v.t = "Map" -> Map([k \in DOMAIN v.map |-> Settled(v.map[k], row)])
      [] v.t = "Array" -> Array([i \in DOMAIN v.arr |-> Settled(v.arr[i], row)])
      [] OTHER -> v
Settled(v, row) ==
    Unmarked(IF "at" \in DOMAIN v THEN evaluate([components |-> v.at], row) ELSE v, row)
=============================================================================
