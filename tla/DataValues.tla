----------------------------- MODULE DataValues -----------------------------
(***************************************************************************)
(* The values that tuples carry (src/data): equality, order and hash, the    *)
(* conversions between types, and the arithmetic that expressions do on      *)
(* them.  A value is a record with its type in field t; an error that a Go   *)
(* function returns in place of a value is Error.                           *)
(*                                                                         *)
(* Blobs are left out.  Integers wrap at MaxInt as int64 does at its bounds; *)
(* floats are exact multiples of 1/FloatScale, an infinity or a NaN, except   *)
(* that an integer beyond MaxExact (2^53 for float64) is rounded when it is   *)
(* converted to a float.                                                    *)
(***************************************************************************)
EXTENDS BQLAst, FiniteSets

CONSTANT MaxExact   \* integers up to this one are exact as floats

Error == [t |-> "error"]
IsError(v) == v.t = "error"

Null == [t |-> "Null"]
Bool(b) == [t |-> "Bool", bool |-> b]
Integer(n) == [t |-> "Int", int |-> n]
Float(f) == [t |-> "Float", float |-> f]
NotFinite(sign) == [t |-> "Float", sign |-> sign]     \* 1 and -1: infinities, 0: NaN
Str(s) == [t |-> "String", str |-> s]
Timestamp(us) == [t |-> "Timestamp", us |-> us]
Array(a) == [t |-> "Array", arr |-> a]
Map(m) == [t |-> "Map", map |-> m]

AnyError(vs) == \E i \in DOMAIN vs : IsError(vs[i])
ArrayOf(vs) == IF AnyError(vs) THEN Error ELSE Array(vs)

Finite(v) == "float" \in DOMAIN v
IsNaN(v) == v.t = "Float" /\ ~Finite(v) /\ v.sign = 0

\* The order of the type identifiers.
Types == <<"Null", "Bool", "Int", "Float", "String", "Timestamp", "Array", "Map">>
TypeOrder(v) == CHOOSE i \in DOMAIN Types : Types[i] = v.t

-----------------------------------------------------------------------------
(* Numbers.                                                                  *)

MinInt == -MaxInt - 1
Wrap(n) == ((n - MinInt) % (2 * (MaxInt + 1))) + MinInt
Sign(n) == IF n < 0 THEN -1 ELSE IF n = 0 THEN 0 ELSE 1
Abs(n) == IF n < 0 THEN -n ELSE n

\* The distance of the floats around n, and the one that is nearest to n: of two
\* the one with an even mantissa.
Gap(n) == CHOOSE p \in {2^k : k \in 0..10} :
              n <= MaxExact * p /\ (p > 1 => n > MaxExact * (p \div 2))
Nearest(n, gap) ==
    LET up == \/ 2 * (n % gap) > gap
              \/ 2 * (n % gap) = gap /\ (n \div gap) % 2 = 1
    IN ((n \div gap) + (IF up THEN 1 ELSE 0)) * gap

\* float64(n).
FloatOfInt(n) == Float(Sign(n) * Nearest(Abs(n), Gap(Abs(n))) * FloatScale)

AsNumber(v) == IF v.t = "Int" THEN FloatOfInt(v.int) ELSE v

\* Go truncates quotients, and a remainder has the sign of the dividend.
Quotient(a, b) == Sign(a) * Sign(b) * (Abs(a) \div Abs(b))
Remainder(a, b) == Sign(a) * (Abs(a) % Abs(b))

FloatSign(v) == IF Finite(v) THEN Sign(v.float) ELSE v.sign

FloatLess(v, w) ==
    CASE IsNaN(v) \/ IsNaN(w) -> FALSE
      [] Finite(v) /\ Finite(w) -> v.float < w.float
      [] OTHER -> FloatSign(v) < FloatSign(w) /\ (Finite(v) \/ v.sign = -1)
                                              /\ (Finite(w) \/ w.sign = 1)

IntOp(op, a, b) ==
    CASE op = "Plus" -> Integer(Wrap(a + b))
      [] op = "Minus" -> Integer(Wrap(a - b))
      [] op = "Multiply" -> Integer(Wrap(a * b))
      [] b = 0 -> Error                     \* the recovered panic of numBinOp.Eval
      [] op = "Divide" -> Integer(Wrap(Quotient(a, b)))
      [] op = "Modulo" -> Integer(Remainder(a, b))

FloatOp(op, v, w) ==
    IF Finite(v) /\ Finite(w)
    THEN LET a == v.float
             b == w.float
         IN CASE op = "Plus" -> Float(a + b)
              [] op = "Minus" -> Float(a - b)
              [] op = "Multiply" -> Float(Quotient(a * b, FloatScale))
              [] b = 0 -> NotFinite(IF op = "Divide" THEN Sign(a) ELSE 0)
              [] op = "Divide" -> Float(Quotient(a * FloatScale, b))
              [] op = "Modulo" -> Float(Remainder(a, b))
    ELSE LET sign == FloatSign(w) * (IF op = "Minus" THEN -1 ELSE 1)
         IN CASE IsNaN(v) \/ IsNaN(w) -> NotFinite(0)
              [] op \in {"Plus", "Minus"} ->
                   (CASE Finite(w) -> v
                      [] Finite(v) -> NotFinite(sign)
                      [] OTHER -> NotFinite(IF v.sign = sign THEN sign ELSE 0))
              [] op = "Multiply" -> NotFinite(FloatSign(v) * FloatSign(w))
              [] op = "Divide" -> (CASE Finite(v) -> Float(0)
                                     [] Finite(w) -> NotFinite(v.sign * (IF w.float < 0 THEN -1 ELSE 1))
                                     [] OTHER -> NotFinite(0))
              [] op = "Modulo" -> IF Finite(v) THEN v ELSE NotFinite(0)

Numeric == {"Int", "Float"}

-----------------------------------------------------------------------------
(* Equal, Less and Hash.                                                      *)

Comparable(v, w) == v.t = w.t \/ {v.t, w.t} = Numeric

RECURSIVE Equal(_, _)
Equal(v, w) ==
    /\ Comparable(v, w)
    /\ CASE v.t = "Int" /\ w.t = "Int" -> v = w
         [] v.t \in Numeric -> ~IsNaN(v) /\ AsNumber(v) = AsNumber(w)
         [] v.t = "Array" -> /\ Len(v.arr) = Len(w.arr)
                             /\ \A i \in DOMAIN v.arr : Equal(v.arr[i], w.arr[i])
         [] v.t = "Map" -> /\ DOMAIN v.map = DOMAIN w.map
                           /\ \A k \in DOMAIN v.map : Equal(v.map[k], w.map[k])
         [] OTHER -> v = w

MHashFloats(v) == v

\* Hash.  The hash function is taken to be injective: the hash of a value is the
\* value itself with every integral float replaced by the integer.  A NaN never
\* has the hash of another value.
RECURSIVE Hash(_)
Hash(v) ==
    CASE v.t = "Float" ->
           IF Finite(v) /\ v.float % FloatScale = 0 THEN Integer(v.float \div FloatScale) ELSE v
      [] v.t = "Array" -> Array([i \in DOMAIN v.arr |-> Hash(v.arr[i])])
      [] v.t = "Map" -> Map([k \in DOMAIN v.map |-> Hash(v.map[k])])
      [] OTHER -> v

RECURSIVE HasNaN(_)
HasNaN(v) ==
    \/ IsNaN(v)
    \/ v.t = "Array" /\ \E i \in DOMAIN v.arr : HasNaN(v.arr[i])
    \/ v.t = "Map" /\ \E k \in DOMAIN v.map : HasNaN(v.map[k])

SameHash(v, w) == ~HasNaN(v) /\ Hash(v) = Hash(w)

\* Some order of the hash values: the code uses the one of the 64 bit numbers.
Precedes(g, h) == g # h /\ g = CHOOSE x \in {g, h} : TRUE
HashLess(v, w) == Precedes(Hash(v), Hash(w))

\* Symbols of a string compare as they stand in this alphabet, the rest after them.
SymbolOrder(x) ==
    LET known == Digit \o <<"a", "b", "c", "d", "k", "m", "s", "x", "y">>
    IN SelectInSeq(known \o <<x>>, LAMBDA y : y = x)

RECURSIVE StringLess(_, _)
StringLess(s, u) ==
    CASE u = <<>> -> FALSE
      [] s = <<>> -> TRUE
      [] Head(s) = Head(u) -> StringLess(Tail(s), Tail(u))
      [] OTHER -> SymbolOrder(Head(s)) < SymbolOrder(Head(u))

Less(v, w) ==
    IF ~Comparable(v, w) THEN TypeOrder(v) < TypeOrder(w)
    ELSE CASE v.t = "Null" -> FALSE
           [] v.t = "Bool" -> ~v.bool /\ w.bool
           [] v.t = "Int" /\ w.t = "Int" -> v.int < w.int
           [] v.t \in Numeric -> FloatLess(AsNumber(v), AsNumber(w))
           [] v.t = "String" -> StringLess(v.str, w.str)
           [] v.t = "Timestamp" -> v.us < w.us
           [] v.t = "Array" -> IF Len(v.arr) = Len(w.arr) THEN HashLess(v, w)
                               ELSE Len(v.arr) < Len(w.arr)
           [] v.t = "Map" -> LET m == Cardinality(DOMAIN v.map)
                                 n == Cardinality(DOMAIN w.map)
                             IN IF m = n THEN HashLess(v, w) ELSE m < n

-----------------------------------------------------------------------------
(* Conversions.                                                              *)

AllDigits(s) == s # <<>> /\ \A i \in DOMAIN s : s[i] \in {Digit[j] : j \in 1..10}
Unsigned(s) == IF s # <<>> /\ Head(s) \in {"-", "+"} THEN Tail(s) ELSE s
Negative(s) == s # <<>> /\ Head(s) = "-"

\* strconv.ParseInt with base 0: a leading zero stands for base 8.
ParseInt(s) ==
    LET u == Unsigned(s)
        base == IF Len(u) > 1 /\ Head(u) = "0" THEN 8 ELSE 10
        n == FoldLeft(LAMBDA acc, d : base * acc + DigitValue(d), 0, u)
        m == IF Negative(s) THEN -n ELSE n
    IN IF AllDigits(u) /\ (\A i \in DOMAIN u : DigitValue(u[i]) < base) /\ m \in MinInt..MaxInt
       THEN Integer(m) ELSE Error

ParseFloat(s) ==
    LET u == Unsigned(s)
        p == SelectInSeq(u, LAMBDA x : x = ".")
        whole == IF p = 0 THEN u ELSE SubSeq(u, 1, p - 1) \o SubSeq(u, p + 1, Len(u))
        f == IF p = 0 THEN Natural(u) * FloatScale ELSE FloatValue(u)
    IN IF AllDigits(whole) THEN Float(IF Negative(s) THEN -f ELSE f) ELSE Error

\* The RFC 3339 text of a time.
TimeString(us) == <<"T">> \o IntString(us)
ParseTime(s) == IF s # <<>> /\ Head(s) = "T" /\ AllDigits(Unsigned(Tail(s)))
                THEN Timestamp(Signed(Tail(s), Natural)) ELSE Error

Second == 1000000   \* a second in the unit of Timestamp
Trimmed(s) ==
    LET inked == {i \in DOMAIN s : s[i] \notin {" ", "\t", "\n", "\r"}}
    IN IF inked = {} THEN <<>> ELSE SubSeq(s, Min(inked), Max(inked))

TrueWords == {<<"t">>, <<"TRUE">>, <<"y">>, <<"yes">>, <<"ON">>, <<"1">>}
FalseWords == {<<"f">>, <<"FALSE">>, <<"n">>, <<"no">>, <<"off">>, <<"0">>}

ToBool(v) ==
    CASE v.t = "Null" -> Bool(FALSE)
      [] v.t = "Bool" -> v
      [] v.t = "Int" -> Bool(v.int # 0)
      [] v.t = "Float" -> Bool(~IsNaN(v) /\ FloatSign(v) # 0)
      [] v.t = "String" -> IF Trimmed(v.str) \in TrueWords \cup FalseWords
                           THEN Bool(Trimmed(v.str) \in TrueWords) ELSE Error
      [] v.t = "Timestamp" -> Bool(TRUE)
      [] v.t = "Array" -> Bool(v.arr # <<>>)
      [] v.t = "Map" -> Bool(DOMAIN v.map # {})

\* Both bounds are floats: float64(math.MaxInt64) is one more than the largest int64.
MaxConvFloat64 == FloatOfInt(MaxInt).float
MinConvFloat64 == FloatOfInt(MinInt).float

Convertible(v) == Finite(v) /\ v.float \in MinConvFloat64..MaxConvFloat64

ToInt(v) ==
    CASE v.t = "Null" -> Integer(0)
      [] v.t = "Bool" -> Integer(IF v.bool THEN 1 ELSE 0)
      [] v.t = "Int" -> v
      [] v.t = "Float" -> IF Convertible(v) THEN Integer(Wrap(Quotient(v.float, FloatScale))) ELSE Error
      [] v.t = "String" -> ParseInt(v.str)
      [] v.t = "Timestamp" -> Integer(Wrap(v.us \div Second))
      [] OTHER -> Error

ToFloat(v) ==
    CASE v.t = "Null" -> Float(0)
      [] v.t = "Bool" -> Float(IF v.bool THEN FloatScale ELSE 0)
      [] v.t = "Int" -> FloatOfInt(v.int)
      [] v.t = "Float" -> v
      [] v.t = "String" -> ParseFloat(v.str)
      [] v.t = "Timestamp" -> Float(v.us \div (Second \div FloatScale))
      [] OTHER -> Error

ToStr(v) ==
    CASE v.t = "Null" -> Str(<<>>)
      [] v.t = "String" -> v
      [] v.t = "Timestamp" -> Str(TimeString(v.us))
      [] v.t = "Float" /\ ~Finite(v) -> Str(<<IF v.sign = 0 THEN "NaN" ELSE "Inf">>)
      [] OTHER -> Str(JSON(v))

ToTimestamp(v) ==
    CASE v.t = "Int" -> Timestamp(v.int * Second)
      [] v.t = "Float" -> IF Convertible(v) THEN Timestamp(v.float * (Second \div FloatScale)) ELSE Error
      [] v.t = "String" -> ParseTime(v.str)
      [] v.t = "Timestamp" -> v
      [] OTHER -> Error     \* a cast of Null does not reach this
=============================================================================
