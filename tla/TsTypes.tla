------------------------------ MODULE TsTypes ------------------------------
(***************************************************************************)
(* TypeScript types as the rules ask the checker about them: a type is the *)
(* set of its union members, and `never` is the empty set.  A member is    *)
(* named as TypeScript prints it, except for                               *)
(*   T, T<..>     a type parameter, with its constraint;                    *)
(*   K            an indexed access that stays generic, T[keyof T];         *)
(*   'a'&B, ..    an intersection with an object type (a brand);            *)
(*   T&{}         NonNullable<T>;                                           *)
(*   upper        a string of a pattern, Uppercase<string>;                 *)
(*   E.Zero, ..   the member of an enumeration whose value is 0, 1.         *)
(* MemberValues says which values a member stands for; the rules do not    *)
(* look at it, their properties do.                                        *)
(***************************************************************************)
EXTENDS JsValues

Boolean == {"true", "false"}
NullishMembers == {"null", "undefined"}

Constraint == [m \in {"T<object>", "T<string>", "T<'a'>", "T<undefined>", "T<unknown>"} |->
    CASE m = "T<object>" -> {"object"}
      [] m = "T<string>" -> {"string"}
      [] m = "T<'a'>" -> {"'a'"}
      [] m = "T<undefined>" -> {"undefined"}
      [] m = "T<unknown>" -> {"unknown"}]
IsTypeParameter(m) == m = "T" \/ m \in DOMAIN Constraint
IsTypeVariable(m) == IsTypeParameter(m) \/ m = "K"

Brands == [m \in {"''&B", "'a'&B", "string&B", "boolean&B"} |->
    CASE m = "''&B" -> "''" [] m = "'a'&B" -> "'a'" [] m = "string&B" -> "string" [] m = "boolean&B" -> "boolean"]

BooleanLike == {"true", "false", "boolean"}
StringLike == {"string", "''", "'a'", "upper"}
NumberLike == {"number", "0", "1", "E.Zero", "E.One"}
BigIntLike == {"bigint", "0n", "1n"}
PrimitiveLike == BooleanLike \cup StringLike \cup NumberLike \cup BigIntLike

RECURSIVE Values(_)
MemberValues(m) ==
    CASE m \in DOMAIN LiteralValue -> {LiteralValue[m]}
      [] m = "boolean" -> Booleans
      [] m = "string" -> {v \in AnyValue : v.type = "string"}
      [] m = "upper" -> {Str(""), Str("1")}
      [] m = "number" -> Numbers
      [] m \in {"E.Zero", "E.One"} -> {Num(IF m = "E.Zero" THEN "0" ELSE "1")}
      [] m = "bigint" -> {v \in AnyValue : v.type = "bigint"}
      [] m = "void" -> {Undefined}
      [] m \in {"object", "symbol"} -> {v \in AnyValue : v.type = "object"}
      [] m \in {"{}", "T&{}"} -> {v \in AnyValue : ~Nullish(v)}
      [] m \in DOMAIN Brands -> Values({Brands[m]})
      [] m \in DOMAIN Constraint -> Values(Constraint[m])
      [] m \in {"any", "unknown", "T", "K"} -> AnyValue
Values(type) == UNION {MemberValues(m) : m \in type}

AlwaysTruthy(type) == \A v \in Values(type) : Truthy(v)
AlwaysFalsy(type) == \A v \in Values(type) : ~Truthy(v)

-----------------------------------------------------------------------------
(* The types the checker gives to the logical operators: what && keeps of  *)
(* its left operand, and what || and ?? do.                                *)
DefinitelyFalsy == {"false", "null", "undefined", "void", "''", "0", "0n"}
FalsyPart(m) ==
    CASE m \in {"string", "upper"} -> {"''"}
      [] m \in {"number", "E.Zero"} -> {"0"}
      [] m = "bigint" -> {"0n"}
      [] m \in {"true", "object", "symbol", "'a'", "1", "E.One", "1n", "{}", "T&{}"} -> {}
      [] OTHER -> {m}
NotType(type) ==
    IF AlwaysTruthy(type) THEN {"false"} ELSE IF AlwaysFalsy(type) THEN {"true"} ELSE Boolean
AndType(left, right) == UNION {FalsyPart(m) : m \in left} \cup right
OrType(left, right) == (left \ DefinitelyFalsy) \cup right
CoalesceType(left, right) == (left \ {"null", "undefined", "void"}) \cup right
-----------------------------------------------------------------------------
(* Trees whose leaves are reads of a type: plain, of an array's element,   *)
(* of a tuple's by a literal or not, of a property of an element, of a     *)
(* record's element, of a chain, or a literal.                             *)
Read(type, access) == [kind |-> "x", subs |-> <<>>, type |-> type, access |-> access]
Expr(kind, subs) == [kind |-> kind, subs |-> subs, type |-> {}, access |-> "none"]

RECURSIVE TypeOf(_)
TypeOf(e) ==
    CASE e.kind = "x" -> e.type
      [] e.kind = "paren" -> TypeOf(e.subs[1])
      [] e.kind = "!" -> NotType(TypeOf(e.subs[1]))
      [] e.kind \in {"&&", "&&="} -> AndType(TypeOf(e.subs[1]), TypeOf(e.subs[2]))
      [] e.kind \in {"||", "||="} -> OrType(TypeOf(e.subs[1]), TypeOf(e.subs[2]))
      [] e.kind \in {"??", "??="} -> CoalesceType(TypeOf(e.subs[1]), TypeOf(e.subs[2]))
      [] e.kind = "cond" -> TypeOf(e.subs[2]) \cup TypeOf(e.subs[3])
      [] e.kind = "," -> TypeOf(e.subs[2])
      [] e.kind = "Boolean" -> Boolean
      [] e.kind = "-x" -> {"number"}

RECURSIVE UnwrapRead(_)
UnwrapRead(e) == IF e.kind = "paren" THEN UnwrapRead(e.subs[1]) ELSE e

(* The subtree at a path, and the paths of a tree.                         *)
RECURSIVE Down(_, _), Places(_, _)
Down(tree, path) == IF path = <<>> THEN tree ELSE Down(tree.subs[path[1]], Tail(path))
Places(tree, path) ==
    {path} \cup UNION {Places(tree.subs[i], path \o <<i>>) : i \in DOMAIN tree.subs}

(* A position the program only asks the truth of.                          *)
Tests == {"if", "while", "do", "for", "cond"}
RECURSIVE OnlyTested(_, _)
OnlyTested(tree, path) ==
    /\ path # <<>>
    /\ LET parent == Down(tree, Front(path))
       IN  \/ parent.kind \in Tests /\ Last(path) = 1
           \/ parent.kind \in {"!", "Boolean"}
           \/ parent.kind = "cond" /\ Last(path) > 1 /\ OnlyTested(tree, Front(path))
           \/ parent.kind \in {"paren", "&&", "||", "??"} /\ OnlyTested(tree, Front(path))
           \/ parent.kind = "," /\ Last(path) = 2 /\ OnlyTested(tree, Front(path))

(* The program asks for the truth of the value here, among other uses.     *)
RECURSIVE Tested(_, _)
Tested(tree, path) ==
    \/ OnlyTested(tree, path)
    \/ /\ path # <<>>
       /\ LET parent == Down(tree, Front(path))
          IN  \/ parent.kind \in {"&&", "||"} /\ Last(path) = 1
              \/ parent.kind \in {"&&", "||", "paren"} /\ Tested(tree, Front(path))
=============================================================================
