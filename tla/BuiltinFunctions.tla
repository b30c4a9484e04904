-------------------------- MODULE BuiltinFunctions --------------------------
(***************************************************************************)
(* The functions of BQL that statements of the instances call                *)
(* (src/bql/udf/builtin): all the aggregate functions, and coalesce and       *)
(* array_length for the others.  Aggregate functions get the values of a     *)
(* group as an array.                                                       *)
(***************************************************************************)
EXTENDS DataValues

Types_(vs) == {vs[i].t : i \in DOMAIN vs}
NonNull(vs) == SelectSeq(vs, LAMBDA v : v.t # "Null")
SumOf(vs, Value(_)) == FoldLeft(LAMBDA n, v : n + Value(v), 0, vs)

\* The functions below that ignore null values are Null without another value
\* and fail if a value has none of the types.
OfTypes(vs, types, Result(_)) ==
    CASE ~(Types_(NonNull(vs)) \subseteq types) -> Error
      [] NonNull(vs) = <<>> -> Null
      [] OTHER -> Result(NonNull(vs))

countFunc(vs) == Integer(Len(NonNull(vs)))
arrayAggFunc(vs) == IF vs = <<>> THEN Null ELSE Array(vs)

\* The values are finite floats in the instances.
InFloat(v) == AsNumber(v).float

avgFunc(vs) ==
    OfTypes(vs, Numeric, LAMBDA ns : Float(Quotient(SumOf(ns, InFloat), Len(ns))))

medianFunc(vs) ==
    OfTypes(vs, Numeric, LAMBDA ns :
        LET fs == SortSeq([i \in DOMAIN ns |-> InFloat(ns[i])], <)
            middle == Len(fs) \div 2
        IN Float(IF Len(fs) % 2 = 0 THEN Quotient(fs[middle + 1] + fs[middle], 2)
                 ELSE fs[middle + 1]))

boolAndFunc(vs) ==
    OfTypes(vs, {"Bool"}, LAMBDA bs : Bool(\A i \in DOMAIN bs : bs[i].bool))
boolOrFunc(vs) ==
    OfTypes(vs, {"Bool"}, LAMBDA bs : Bool(\E i \in DOMAIN bs : bs[i].bool))

sumFunc(vs) ==
    OfTypes(vs, Numeric, LAMBDA ns :
        IF "Float" \in Types_(ns) THEN Float(SumOf(ns, InFloat))
        ELSE Integer(Wrap(SumOf(ns, LAMBDA v : v.int))))

\* The largest integer and the largest float, and of these the larger one.
Extreme(ns, Ext(_)) ==
    LET ints == {ns[i].int : i \in {j \in DOMAIN ns : ns[j].t = "Int"}}
        floats == {ns[i].float : i \in {j \in DOMAIN ns : ns[j].t = "Float"}}
        int == Ext(ints)
        float == Ext(floats)
    IN CASE floats = {} -> Integer(int)
         [] ints = {} -> Float(float)
         [] OTHER -> IF Ext({FloatOfInt(int).float, float}) = FloatOfInt(int).float
                     THEN Integer(int) ELSE Float(float)

\* Timestamps if the first value that is not null is one, numbers otherwise.
ExtremeFunc(vs, Ext(_)) ==
    IF NonNull(vs) # <<>> /\ Head(NonNull(vs)).t = "Timestamp"
    THEN OfTypes(vs, {"Timestamp"}, LAMBDA ts : Timestamp(Ext({ts[i].us : i \in DOMAIN ts})))
    ELSE OfTypes(vs, Numeric, LAMBDA ns : Extreme(ns, Ext))

maxFunc(vs) == ExtremeFunc(vs, Max)
minFunc(vs) == ExtremeFunc(vs, Min)

jsonObjectAggFunc(ks, vs) ==
    LET pairs == SelectSeq([i \in DOMAIN ks |-> <<ks[i], vs[i]>>],
                           LAMBDA p : p[1].t # "Null" \/ p[2].t # "Null")
        keys == [i \in DOMAIN pairs |-> pairs[i][1]]
    IN CASE ks = <<>> -> Null
         [] ~(Types_(keys) \subseteq {"String"}) -> Error
         [] ~IsInjective(keys) -> Error
         [] OTHER -> Map([k \in {keys[i].str : i \in DOMAIN keys} |->
                             pairs[CHOOSE i \in DOMAIN keys : keys[i].str = k][2]])

\* A delimiter precedes a string unless the text so far is empty.
stringAggFunc(vs, delim) ==
    LET strs == NonNull(vs)
    IN CASE delim.t # "String" -> Error
         [] vs = <<>> -> Null
         [] ~(Types_(strs) \subseteq {"String"}) -> Error
         [] OTHER -> Str(FoldLeft(LAMBDA s, v : IF s = <<>> THEN v.str
                                                ELSE s \o delim.str \o v.str, <<>>, strs))

coalesceFunc(vs) == IF NonNull(vs) = <<>> THEN Null ELSE Head(NonNull(vs))

arrayLengthFunc(v) ==
    CASE v.t = "Null" -> Null
      [] v.t = "Array" -> Integer(Len(v.arr))
      [] OTHER -> Error

-----------------------------------------------------------------------------
(* The function registry: names, the arities that are accepted, and which      *)
(* parameters are aggregated.                                                *)

Unary == {1}
Entry(arities, aggregated) == [arities |-> arities, aggregated |-> aggregated]

Registry ==
    (<<"count">> :> Entry(Unary, {1})) @@ (<<"ARRAY", "_", "agg">> :> Entry(Unary, {1}))
    @@ (<<"avg">> :> Entry(Unary, {1})) @@ (<<"median">> :> Entry(Unary, {1}))
    @@ (<<"BOOL", "_", "AND">> :> Entry(Unary, {1})) @@ (<<"BOOL", "_", "OR">> :> Entry(Unary, {1}))
    @@ (<<"sum">> :> Entry(Unary, {1}))
    @@ (<<"max">> :> Entry(Unary, {1})) @@ (<<"min">> :> Entry(Unary, {1}))
    @@ (<<"json", "_", "object", "_", "agg">> :> Entry({1, 2}, {1, 2}))
    @@ (<<"STRING", "_", "agg">> :> Entry({1, 2}, {1}))
    @@ (<<"coalesce">> :> Entry(Nat \ {0}, {})) @@ (<<"ARRAY", "_", "length">> :> Entry(Unary, {}))

Lookup(name, arity) == name \in DOMAIN Registry /\ arity \in Registry[name].arities
IsAggregationParameter(name, k) == k \in Registry[name].aggregated
isAggregateFunc(name, arity) == \E k \in 1..arity : IsAggregationParameter(name, k)

\* UDF.Call.  Aggregated arguments are arrays, or the call fails.
CallFunction(name, args) ==
    LET arr(i) == args[i].arr
        agg == Registry[name].aggregated
    IN IF \E i \in agg : i \notin DOMAIN args \/ args[i].t # "Array" THEN Error
       ELSE CASE name = <<"count">> -> countFunc(arr(1))
              [] name = <<"ARRAY", "_", "agg">> -> arrayAggFunc(arr(1))
              [] name = <<"avg">> -> avgFunc(arr(1))
              [] name = <<"median">> -> medianFunc(arr(1))
              [] name = <<"BOOL", "_", "AND">> -> boolAndFunc(arr(1))
              [] name = <<"BOOL", "_", "OR">> -> boolOrFunc(arr(1))
              [] name = <<"sum">> -> sumFunc(arr(1))
              [] name = <<"max">> -> maxFunc(arr(1))
              [] name = <<"min">> -> minFunc(arr(1))
              [] name = <<"json", "_", "object", "_", "agg">> -> jsonObjectAggFunc(arr(1), arr(2))
              [] name = <<"STRING", "_", "agg">> ->
                   IF Len(args) # 2 THEN Error ELSE stringAggFunc(arr(1), args[2])
              [] name = <<"coalesce">> -> coalesceFunc(args)
              [] name = <<"ARRAY", "_", "length">> -> arrayLengthFunc(args[1])
=============================================================================
