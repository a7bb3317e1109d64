------------------------------ MODULE JsValues ------------------------------
(***************************************************************************)
(* What a JavaScript expression can evaluate to: the meaning against which *)
(* the rules about constant expressions are compared.                      *)
(*                                                                         *)
(* Values are told apart by type, truthiness, nullishness, the string they *)
(* convert to and, for objects, whether the expression has just made them. *)
(* A variable reads as any value; no variable stands in an expression      *)
(* twice, so the outcomes of operands are independent and the set of       *)
(* outcomes is exact.  Kinds of expression, beside the literals:           *)
(*   x | call | array e* | hole | spread e | object | regex | function |   *)
(*   new | newBuiltin | paren e | void e | typeof e | ! e | + e | ++ x |   *)
(*   delete x | Boolean e* | String e | Number e | cond e e e |            *)
(*   template (text | emptytext | e)* | and the binary operators.          *)
(***************************************************************************)
EXTENDS Syntax

Value(type, val) == [type |-> type, val |-> val, fresh |-> FALSE]
Fresh(val) == [type |-> "object", val |-> val, fresh |-> TRUE]

Undefined == Value("undefined", "undefined")
Null == Value("null", "null")
Bool(b) == Value("boolean", IF b THEN "true" ELSE "false")
Num(val) == Value("number", val)
Str(val) == Value("string", val)

Numbers == {Num(v) : v \in {"0", "1", "NaN"}}
Booleans == {Bool(TRUE), Bool(FALSE)}
AnyValue ==
    {Undefined, Null} \cup Booleans \cup Numbers
    \cup {Str(v) : v \in {"", "0", "1", "a"}}
    \cup {Value("bigint", v) : v \in {"0", "1"}}
    \cup {Value("object", v) : v \in {"", "1", "a"}}

LiteralValue ==
    [k \in {"true", "false", "null", "undefined", "NaN", "0", "1", "''", "'a'", "'1'", "0n", "1n"} |->
        CASE k \in {"true", "false"} -> Bool(k = "true")
          [] k = "null" -> Null
          [] k = "undefined" -> Undefined
          [] k \in {"NaN", "0", "1"} -> Num(k)
          [] k = "''" -> Str("")
          [] k = "'a'" -> Str("a")
          [] k = "'1'" -> Str("1")
          [] k = "0n" -> Value("bigint", "0")
          [] k = "1n" -> Value("bigint", "1")]

Truthy(v) ==
    \/ v.type = "object"
    \/ v.type = "string" /\ v.val # ""
    \/ v.type \in {"boolean", "number", "bigint"} /\ v.val \notin {"false", "0", "NaN"}
Nullish(v) == v.type \in {"undefined", "null"}

-----------------------------------------------------------------------------
(* Conversions; a string of digits other than these does not occur.        *)
Numeral(s) == CASE s = "" -> "0" [] s \in {"0", "1"} -> s [] OTHER -> "NaN"
ToNumber(v) ==
    CASE v.type = "undefined" -> "NaN"
      [] v.type = "null" -> "0"
      [] v.type = "boolean" -> (IF v.val = "true" THEN "1" ELSE "0")
      [] v.type \in {"number", "bigint"} -> v.val
      [] OTHER -> Numeral(v.val)
InArray(v) == IF Nullish(v) THEN "" ELSE v.val

(* Arithmetic of a bigint and anything else throws: no outcome.           *)
Arithmetic(a, b, result) ==
    CASE a.type = "bigint" /\ b.type = "bigint" -> {Value("bigint", result)}
      [] "bigint" \in {a.type, b.type} -> {}
      [] OTHER -> {Num(result)}
Sum(a, b) ==
    LET m == ToNumber(a)  n == ToNumber(b)
    IN  IF {a.type, b.type} \cap {"string", "object"} # {} THEN {Str(a.val \o b.val)}
        ELSE Arithmetic(a, b, CASE "NaN" \in {m, n} -> "NaN" [] m = "0" -> n [] n = "0" -> m [] OTHER -> "2")
Minus(a, b) ==
    LET m == ToNumber(a)  n == ToNumber(b)
    IN  Arithmetic(a, b, CASE "NaN" \in {m, n} -> "NaN" [] m = n -> "0" [] OTHER -> m \o "-" \o n)
Less(a, b) == ToNumber(a) = "0" /\ ToNumber(b) \notin {"0", "NaN"}

(* What a === b and a == b can yield.                                      *)
StrictEqual(a, b) ==
    CASE a.type # b.type -> {FALSE}
      [] a.type = "object" -> (IF a.fresh \/ b.fresh \/ a.val # b.val THEN {FALSE} ELSE BOOLEAN)
      [] a.type = "number" -> {a.val = b.val /\ a.val # "NaN"}
      [] OTHER -> {a.val = b.val}

LooseEqual(a, b) ==
    CASE a.type = b.type -> StrictEqual(a, b)
      [] Nullish(a) \/ Nullish(b) -> {Nullish(a) /\ Nullish(b)}
      [] {a.type, b.type} = {"object", "string"} -> {a.val = b.val}
      [] OTHER -> {ToNumber(a) = ToNumber(b) /\ ToNumber(a) # "NaN"}

-----------------------------------------------------------------------------
RECURSIVE Outcomes(_), Strings(_), Concatenations(_)

(* The strings an array's elements contribute, one sequence per outcome.   *)
Strings(elements) ==
    IF elements = <<>> THEN {<<>>}
    ELSE LET e == Head(elements)
             heads == CASE e.kind = "hole" -> {<<"">>}
                        [] e.kind = "spread" /\ e.subs[1].kind = "array" -> Strings(e.subs[1].subs)
                        [] e.kind = "spread" -> {<<>>, <<"">>, <<"a">>, <<"a", "a">>}
                        [] OTHER -> {<<InArray(v)>> : v \in Outcomes(e)}
         IN  {h \o t : h \in heads, t \in Strings(Tail(elements))}

Join(ss) == IF Len(ss) = 0 THEN "" ELSE IF Len(ss) = 1 THEN ss[1] ELSE "a,"

Concatenations(parts) ==
    IF parts = <<>> THEN {""}
    ELSE LET p == Head(parts)
             heads == CASE p.kind = "text" -> {"a"}
                        [] p.kind = "emptytext" -> {""}
                        [] OTHER -> {v.val : v \in Outcomes(p)}
         IN  {h \o t : h \in heads, t \in Concatenations(Tail(parts))}

Outcomes(e) ==
    LET one == Outcomes(e.subs[1])
        two == Outcomes(e.subs[2])
        three == Outcomes(e.subs[3])
    IN CASE e.kind \in DOMAIN LiteralValue -> {LiteralValue[e.kind]}
         [] e.kind \in {"x", "call"} -> AnyValue
         [] e.kind = "array" -> {Fresh(Join(ss)) : ss \in Strings(e.subs)}
         [] e.kind \in {"object", "function", "regex", "newBuiltin"} -> {Fresh("a")}
         [] e.kind = "new" -> {Fresh("a"), Value("object", "a")}
         [] e.kind = "paren" -> one
         [] e.kind = "void" -> {Undefined}
         [] e.kind = "typeof" -> {Str(IF v = Null THEN "object" ELSE v.type) : v \in one}
         [] e.kind = "!" -> {Bool(~Truthy(v)) : v \in one}
         [] e.kind = "+x" -> {Num(ToNumber(v)) : v \in {w \in one : w.type # "bigint"}}
         [] e.kind = "++" -> Numbers \cup {Value("bigint", "1")}
         [] e.kind = "delete" -> Booleans
         [] e.kind = "Boolean" -> (IF e.subs = <<>> THEN {Bool(FALSE)} ELSE {Bool(Truthy(v)) : v \in one})
         [] e.kind = "String" -> {Str(v.val) : v \in one}
         [] e.kind = "Number" -> {Num(ToNumber(v)) : v \in one}
         [] e.kind = "template" -> {Str(s) : s \in Concatenations(e.subs)}
         [] e.kind = "cond" ->
                (IF \E v \in one : Truthy(v) THEN two ELSE {}) \cup (IF \E v \in one : ~Truthy(v) THEN three ELSE {})
         [] e.kind \in {",", "="} -> two
         [] e.kind \in {"&&", "&&="} ->
                {v \in one : ~Truthy(v)} \cup (IF \E v \in one : Truthy(v) THEN two ELSE {})
         [] e.kind \in {"||", "||="} ->
                {v \in one : Truthy(v)} \cup (IF \E v \in one : ~Truthy(v) THEN two ELSE {})
         [] e.kind \in {"??", "??="} ->
                {v \in one : ~Nullish(v)} \cup (IF \E v \in one : Nullish(v) THEN two ELSE {})
         [] e.kind \in {"+", "+="} -> UNION {Sum(v, w) : v \in one, w \in two}
         [] e.kind \in {"-", "-="} -> UNION {Minus(v, w) : v \in one, w \in two}
         [] e.kind = "<" -> {Bool(Less(v, w)) : v \in one, w \in two}
         [] e.kind = "===" -> {Bool(b) : b \in UNION {StrictEqual(v, w) : v \in one, w \in two}}
         [] e.kind = "==" -> {Bool(b) : b \in UNION {LooseEqual(v, w) : v \in one, w \in two}}

ConstantTruthiness(e) == Cardinality({Truthy(v) : v \in Outcomes(e)}) <= 1
ConstantNullishness(e) == Cardinality({Nullish(v) : v \in Outcomes(e)}) <= 1
=============================================================================
