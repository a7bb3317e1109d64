---------------------------- MODULE TestedValues ----------------------------
(***************************************************************************)
(* Two rules about values used as conditions.  strict-boolean-expressions  *)
(* asks whether a type may be tested at all, prefer-nullish-coalescing     *)
(* finds the defaults and guards that mean `??`.                           *)
(***************************************************************************)
EXTENDS RuleVisit, TsTypes

StrictBooleanId == "strict-boolean-expressions"
PreferNullishId == "prefer-nullish-coalescing"

-----------------------------------------------------------------------------
(* strict-boolean-expressions: which types may be tested.  opts is the set *)
(* of the options that are on.                                             *)
EnumLike == {"E.Zero", "E.One"}
IsAlwaysTruthyLiteral(m) == m \in {"'a'", "upper", "1", "E.Zero", "E.One", "1n", "true"}

Flavour(m) ==
    LET bare == IF m \in DOMAIN Brands THEN Brands[m] ELSE m
    IN  CASE m \in NullishMembers -> "nullable"
          [] m \in EnumLike -> "enum"
          [] IsAlwaysTruthyLiteral(m) -> "truthy"
          [] bare \in BooleanLike -> "bool"
          [] bare \in StringLike -> "string"
          [] bare \in NumberLike \cup BigIntLike -> "number"
          [] OTHER -> "other"

RECURSIVE IsAcceptable(_, _)
ScalarAcceptable(m, opts) ==
    LET bare == IF m \in DOMAIN Brands THEN Brands[m] ELSE m
    IN  \/ bare \in BooleanLike
        \/ bare \in StringLike /\ "string" \in opts
        \/ bare \in NumberLike \cup BigIntLike \cup EnumLike /\ "number" \in opts
        \/ m \in DOMAIN Constraint /\ IsAcceptable(Constraint[m], opts)

(* The flavours of a union's members, but a type parameter with an         *)
(* acceptable constraint adds none.                                        *)
Flavours(type, opts) ==
    {Flavour(m) : m \in {p \in type : ~(p \in DOMAIN Constraint /\ IsAcceptable(Constraint[p], opts))}}

IsAcceptable(type, opts) ==
    LET flavours == Flavours(type, opts)
        nullable == "nullable" \in flavours
        primitive == flavours \cap {"bool", "string", "number", "enum"}
    IN  CASE type \in {{"any"}, {"unknown"}} -> "any" \in opts
          [] type = {} -> TRUE
          [] Cardinality(type) = 1 -> \A m \in type : ScalarAcceptable(m, opts)
          [] "truthy" \in flavours /\ flavours \subseteq {"truthy", "nullable"} -> nullable => "nullableObject" \in opts
          [] "other" \in flavours -> nullable /\ "nullableObject" \in opts /\ primitive = {}
          [] nullable ->
                CASE primitive = {"bool"} -> "nullableBoolean" \in opts
                  [] primitive = {"string"} -> {"nullableString", "string"} \subseteq opts
                  [] primitive = {"number"} -> {"nullableNumber", "number"} \subseteq opts
                  [] primitive = {"enum"} -> "nullableEnum" \in opts
                  [] OTHER -> FALSE
          [] primitive \in {{"string"}, {"number"}} -> primitive \subseteq opts
          [] OTHER -> "bool" \in primitive /\ primitive \cap {"string", "number"} \subseteq opts

IsStrictlyBooleanReturn(type) == type # {} /\ type \subseteq BooleanLike

(* Where tests stand.                                                      *)
Logical == {"&&", "||"}
IsLogical(e) == UnwrapRead(e).kind \in Logical

CheckBoolean(tree, path, opts) ==
    IF IsLogical(Down(tree, path)) \/ IsAcceptable(TypeOf(Down(tree, path)), opts) THEN {} ELSE {path}

RECURSIVE IsBinaryTested(_, _)
IsBinaryTested(tree, path) ==
    /\ path # <<>>
    /\ LET parent == Down(tree, Front(path))
       IN  \/ parent.kind \in Tests \cup {"!"}
           \/ parent.kind \in Logical /\ Last(path) = 1
           \/ parent.kind \in Logical \cup {"paren"} /\ IsBinaryTested(tree, Front(path))

VisitTest(tree, path, opts) ==
    LET n == Down(tree, path)
    IN  CASE n.kind \in Tests \cup {"!"} -> CheckBoolean(tree, path \o <<1>>, opts)
          [] n.kind \in Logical ->
                CheckBoolean(tree, path \o <<1>>, opts)
                \cup IF IsBinaryTested(tree, path) THEN CheckBoolean(tree, path \o <<2>>, opts) ELSE {}
          [] OTHER -> {}

VisitTests(n) ==
    UNION {{<<p, r>> : r \in VisitTest(n.tree, p, n.opts)} : p \in Places(n.tree, <<>>)}

(* assert(..): the signatures of the callee (one, when the call resolves), *)
(* each the parameter it asserts, 0 for none, and whether it narrows; the  *)
(* arguments, each a type or, for a spread, "spread".                      *)
AssertedParameter(signatures) ==
    IF /\ signatures # <<>>
       /\ \A i \in DOMAIN signatures : ~signatures[i].narrows /\ signatures[i].param = signatures[1].param
    THEN signatures[1].param ELSE 0
VisitAssertion(n) ==
    LET param == AssertedParameter(n.signatures)
    IN  IF \/ param \notin DOMAIN n.args
           \/ \E i \in 1..param : n.args[i] = {"spread"}
           \/ IsAcceptable(n.args[param], n.opts)
        THEN {} ELSE {param}

(* arr.filter(cb): the return type written on cb, {"none"} when there is   *)
(* not, those of its declared overloads, and the inferred one.             *)
VisitCallback(n) ==
    CASE n.annotation # {"none"} -> IF IsStrictlyBooleanReturn(n.annotation) THEN {} ELSE {"callback"}
      [] Len(n.overloads) > 1 /\ \E i \in DOMAIN n.overloads : ~IsStrictlyBooleanReturn(n.overloads[i]) -> {"callback"}
      [] OTHER -> IF IsAcceptable(n.returns, n.opts) THEN {} ELSE {"callback"}

VisitStrictBoolean(n) ==
    CASE "runWithoutStrictNullChecks" \in n.opts -> {}
      [] n.handler = "tests" -> VisitTests(n)
      [] n.handler = "assertion" -> VisitAssertion(n)
      [] n.handler = "callback" -> VisitCallback(n)

-----------------------------------------------------------------------------
(* prefer-nullish-coalescing: `a || b` and `a ||= b`.                      *)
TypeIsNullable(type) == type \cap {"null", "undefined", "unknown", "any"} # {}

ShouldIgnoreByPrimitives(type, opts) ==
    LET ignored == UNION {CASE o = "ignoreBoolean" -> BooleanLike [] o = "ignoreString" -> StringLike
                            [] o = "ignoreNumber" -> NumberLike [] o = "ignoreBigInt" -> BigIntLike
                            [] OTHER -> {} : o \in opts}
    IN  IF type \in {{"any"}, {"unknown"}} THEN ignored # {}
        ELSE Cardinality(type) > 1 /\ \E m \in type : m \in ignored \/ (m \in DOMAIN Brands /\ Brands[m] \in ignored)

RECURSIVE InTestPosition(_, _), InBooleanCoercion(_, _), LogicalRoot(_, _), ContainsAnd(_)
InTestPosition(tree, path) ==
    /\ path # <<>>
    /\ LET parent == Down(tree, Front(path))
       IN  \/ parent.kind \in Tests
           \/ parent.kind \in {"paren", "!", "&&", "||", "??", ","} /\ InTestPosition(tree, Front(path))
InBooleanCoercion(tree, path) ==
    /\ path # <<>>
    /\ LET parent == Down(tree, Front(path))
       IN  \/ parent.kind \in {"Boolean", "!", "-x"}
           \/ parent.kind \in {"paren", "&&", "||", "??", ","} /\ InBooleanCoercion(tree, Front(path))

LogicalRoot(tree, path) ==
    IF path # <<>> /\ Down(tree, Front(path)).kind \in Logical THEN LogicalRoot(tree, Front(path)) ELSE path
ContainsAnd(e) ==
    \/ e.kind = "&&"
    \/ e.kind \in {"paren", "||"} /\ \E s \in Range(e.subs) : ContainsAnd(s)

VisitOr(tree, path, opts) ==
    LET type == TypeOf(Down(tree, path).subs[1])
    IN  IF \/ "ignoreConditionalTests" \in opts /\ InTestPosition(tree, path)
           \/ "ignoreMixed" \in opts /\ ContainsAnd(Down(tree, LogicalRoot(tree, path)))
           \/ "ignoreCoercion" \in opts /\ InBooleanCoercion(tree, path)
           \/ ~TypeIsNullable(type)
           \/ ShouldIgnoreByPrimitives(type, opts)
        THEN {} ELSE {path}
VisitOrs(n) ==
    UNION {VisitOr(n.tree, p, n.opts) : p \in {q \in Places(n.tree, <<>>) : Down(n.tree, q).kind \in {"||", "||="}}}

(* Guards.  A comparison: [subject, op, nullish], "no" for what is not one *)
(* (the subject on either side, `typeof` and parentheses aside).  A guard  *)
(* is one comparison, two joined by an operator, or a bare or negated      *)
(* subject; it says which subject, and whether it holds for nullish.       *)
NoGuard == [subject |-> "none", negated |-> FALSE]
Guard(subject, negated) == [subject |-> subject, negated |-> negated]
Negative(c) == c.op \in {"!==", "!="}
Loose(c) == c.op \in {"==", "!="}

(* analyseTernaryNullCheck                                                 *)
TernaryNullCheck(g) ==
    IF /\ g.form = "two"
       /\ g.left.subject = g.right.subject
       /\ g.left.nullish # g.right.nullish
       /\ Negative(g.left) = (g.join = "&&") /\ Negative(g.right) = (g.join = "&&")
    THEN Guard(g.left.subject, g.join = "||") ELSE NoGuard

(* A strict comparison with the one of null and undefined the type has.    *)
CoversNullish(c, type) ==
    \/ Loose(c)
    \/ type \cap NullishMembers = {c.nullish} /\ type # {c.nullish}

SingleNullCheck(g, types) ==
    IF g.form = "one" /\ CoversNullish(g.left, types[g.left.subject])
    THEN Guard(g.left.subject, ~Negative(g.left)) ELSE NoGuard

(* Truthiness counts when the branch it selects is the subject itself and  *)
(* evaluating it twice is evaluating it once.                              *)
ImplicitNullCheck(g, wanted, types) ==
    IF g.form \in {"bare", "not"} /\ wanted = g.subject /\ ~g.calls /\ TypeIsNullable(types[g.subject])
    THEN Guard(g.subject, g.form = "not") ELSE NoGuard

VisitTernary(n) ==
    LET g == n.guard
        two == TernaryNullCheck(g)
        one == SingleNullCheck(g, n.types)
        implicit == ImplicitNullCheck(g, IF g.form = "not" THEN n.otherwise ELSE n.then, n.types)
        found == IF two # NoGuard THEN two ELSE IF one # NoGuard THEN one ELSE implicit
    IN  IF \/ "ignoreTernaries" \in n.opts
           \/ found = NoGuard
           \/ (IF found.negated THEN n.otherwise ELSE n.then) # found.subject
           \/ ShouldIgnoreByPrimitives(n.types[found.subject], n.opts)
        THEN {} ELSE {"ternary"}

(* if (guard) target = value; for an if without else around one assignment *)
VisitIfAssignment(n) ==
    LET g == n.guard
        found == CASE g.form = "not" /\ TypeIsNullable(n.types[g.subject]) -> Guard(g.subject, TRUE)
                   [] g.form = "two" /\ g.join = "||" -> TernaryNullCheck(g)
                   [] g.form = "one" -> SingleNullCheck(g, n.types)
                   [] OTHER -> NoGuard
    IN  IF "ignoreIfs" \notin n.opts /\ found.negated /\ n.target = found.subject THEN {"if"} ELSE {}

VisitPreferNullish(n) ==
    CASE n.handler = "or" -> VisitOrs(n)
      [] n.handler = "ternary" -> VisitTernary(n)
      [] n.handler = "if" -> VisitIfAssignment(n)

-----------------------------------------------------------------------------
RECURSIVE UnderBranch(_, _)
UnderBranch(tree, path) ==
    path # <<>> /\ ((Down(tree, Front(path)).kind = "cond" /\ Last(path) > 1) \/ UnderBranch(tree, Front(path)))

(* Every operand of a logical chain is checked by one handler only, and    *)
(* only where its truth is asked for; but what stands in the branch of a   *)
(* ternary is taken for its test.                                          *)
TestedOperandsAreCheckedOnce ==
    Visited(StrictBooleanId) /\ node.handler = "tests" =>
        \A r, s \in reports :
            /\ r[2] = s[2] => r = s
            /\ UnderBranch(node.tree, r[2]) \/ Tested(node.tree, r[2])

(* With no option on, what passes as a test is false for one kind of value *)
(* at most, and only for a boolean if it is not the test of a literal.     *)
FalsyKind(v) == IF Nullish(v) THEN "nullish" ELSE IF v.type = "bigint" THEN "number" ELSE v.type
FalsyKinds(type) == {FalsyKind(v) : v \in {w \in Values(type) : ~Truthy(w)}}
QuietTestsAreUnambiguous ==
    Visited(StrictBooleanId) /\ node.handler = "tests" /\ node.tree.kind = "if" /\ reports = {} =>
        LET test == node.tree.subs[1]
        IN  test.kind = "x" /\ test.type \cap {"upper", "E.Zero", "T"} = {} =>
                /\ node.opts = {} => FalsyKinds(test.type) \subseteq {"boolean"}
                /\ node.opts = {"string", "number", "nullableObject"} =>
                        Cardinality(FalsyKinds(test.type) \ {"boolean"}) <= 1

AssertedArgumentsAreTheAsserted ==
    Visited(StrictBooleanId) /\ node.handler = "assertion" =>
        \A p \in reports :
            /\ \A i \in DOMAIN node.signatures : node.signatures[i].param = p
            /\ FalsyKinds(node.args[p]) # {} => FalsyKinds(node.args[p]) # {"boolean"}

(* What a guard says of a value, and of ?? instead: the same result.       *)
Holds(c, v) ==
    LET same == IF Loose(c) THEN Nullish(v) ELSE v = LiteralValue[c.nullish]
    IN  same # Negative(c)
GuardHolds(g, v) ==
    CASE g.form = "one" -> Holds(g.left, v)
      [] g.join = "&&" -> Holds(g.left, v) /\ Holds(g.right, v)
      [] OTHER -> Holds(g.left, v) \/ Holds(g.right, v)

ReportedGuardsAreCoalescing ==
    Visited(PreferNullishId) /\ node.handler \in {"ternary", "if"} /\ reports # {} /\ node.guard.form \in {"one", "two"} =>
        LET subject == node.guard.left.subject
        IN  \A v \in Values(node.types[subject]) :
                IF node.handler = "if"
                THEN node.target = subject /\ (GuardHolds(node.guard, v) <=> Nullish(v))
                ELSE \/ node.then = node.otherwise
                     \/ (IF GuardHolds(node.guard, v) THEN node.then ELSE node.otherwise) = subject <=> ~Nullish(v)

(* A nullable `||` is passed over, with nothing but the two options about  *)
(* positions on, only where its value is used for its truth alone; but the *)
(* branch of a ternary, the left of a comma and the operand of a minus     *)
(* pass as well.                                                           *)
RECURSIVE Excused(_, _)
Excused(tree, path) ==
    path # <<>> /\ (Down(tree, Front(path)).kind \in {"cond", ",", "-x"} \/ Excused(tree, Front(path)))
SilentDefaultsAreTests ==
    Visited(PreferNullishId) /\ node.handler = "or" /\ node.opts \subseteq {"ignoreConditionalTests", "ignoreCoercion"} =>
        \A p \in Places(node.tree, <<>>) :
            LET e == Down(node.tree, p)
            IN  e.kind \in {"||", "||="} /\ TypeIsNullable(TypeOf(e.subs[1])) /\ p \notin reports =>
                    OnlyTested(node.tree, p) \/ Excused(node.tree, p)

(* All of these: a value is tested where, and as, its type says.           *)
TestsAskOneThing ==
    /\ TestedOperandsAreCheckedOnce
    /\ QuietTestsAreUnambiguous
    /\ AssertedArgumentsAreTheAsserted
    /\ ReportedGuardsAreCoalescing
    /\ SilentDefaultsAreTests
=============================================================================
