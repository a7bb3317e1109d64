------------------------ MODULE UnnecessaryCondition ------------------------
(***************************************************************************)
(* The rule no-unnecessary-condition: a condition, a comparison or a chain *)
(* whose outcome the types of its operands already decide.                 *)
(*                                                                         *)
(* A test position: a tree whose leaves are variables with a type and the  *)
(* way they are read.  Every node of the tree has a handler of its own;    *)
(* a report names the handler's node, the operand's and the reason.        *)
(***************************************************************************)
EXTENDS RuleVisit, TsTypes

UnnecessaryConditionId == "no-unnecessary-condition"

-----------------------------------------------------------------------------
(* Questions about a type.                                                 *)
IsNonNullableNonPrimitive(m) ==
    /\ m \notin {"any", "unknown", "null", "undefined", "void"} \cup PrimitiveLike
    /\ ~IsTypeParameter(m)
    /\ m \notin DOMAIN Brands

LiteralMembers == {"true", "false", "''", "'a'", "upper", "0", "1", "E.Zero", "0n", "1n"}

RECURSIVE IsAlwaysTruthyType(_), IsAlwaysFalsyType(_)
IsAlwaysTruthyType(type) ==
    type # {} /\ \A m \in type :
        \/ m \in LiteralMembers \ {"false", "''", "0", "0n"}
        \/ IsNonNullableNonPrimitive(m)
        \/ m \in DOMAIN Brands /\ Brands[m] \in LiteralMembers /\ IsAlwaysTruthyType({Brands[m]})
        \/ m \in DOMAIN Constraint /\ IsAlwaysTruthyType(Constraint[m])
IsAlwaysFalsyType(type) ==
    type # {} /\ \A m \in type :
        \/ m \in DefinitelyFalsy
        \/ m \in DOMAIN Brands /\ Brands[m] \in LiteralMembers /\ IsAlwaysFalsyType({Brands[m]})
        \/ m \in DOMAIN Constraint /\ IsAlwaysFalsyType(Constraint[m])

(* typeIncludesNullOrUndefined, typeIncludesNull and typeIncludesUndefined *)
(* ask the same for different members.                                     *)
RECURSIVE Includes(_, _)
Includes(type, members) ==
    \E m \in type :
        \/ m \in {"any", "unknown", "T"} \cup members
        \/ m \in DOMAIN Constraint /\ Includes(Constraint[m], members)
IncludesNullOrUndefined(type) == Includes(type, {"null", "undefined", "void"})
IncludesNull(type) == Includes(type, {"null"})
IncludesUndefined(type) == Includes(type, {"undefined", "void"})

RECURSIVE IsAlwaysNullishOnly(_)
IsAlwaysNullishOnly(type) ==
    type # {} /\ \A m \in type :
        m \in {"null", "undefined", "void"} \/ (m \in DOMAIN Constraint /\ IsAlwaysNullishOnly(Constraint[m]))

IsSingleLiteral(type) == \E m \in (LiteralMembers \cup NullishMembers) : type = {m}

RECURSIVE InvolvesTypeVariable(_)
InvolvesTypeVariable(type) ==
    \E m \in type : IsTypeVariable(m) /\ (m \notin DOMAIN Constraint \/ InvolvesTypeVariable(Constraint[m]))

ResolveConstraint(type) ==
    IF \E m \in DOMAIN Constraint : type = {m} THEN Constraint[CHOOSE m \in type : TRUE] ELSE type

RECURSIVE FromArrayIndex(_)
FromArrayIndex(e) ==
    \/ e.kind = "!" /\ FromArrayIndex(UnwrapRead(e.subs[1]))
    \/ e.kind = "x" /\ e.access \in {"arrayElement", "tupleElement", "elementProperty"}

(* An element in parentheses is no longer seen as one.                     *)
IsIndexLike(e) ==
    \/ e.kind = "x" /\ e.access \in {"arrayElement", "tupleElement", "tupleLiteral", "recordElement"}
    \/ UnwrapRead(e).kind = "x" /\ UnwrapRead(e).access = "chain"

-----------------------------------------------------------------------------
(* The walk below a test position.                                         *)
Verdict(e) ==
    LET type == TypeOf(e)  resolved == ResolveConstraint(type)
    IN  CASE type = {} -> "never"
          [] InvolvesTypeVariable(type) \/ FromArrayIndex(UnwrapRead(e)) -> "none"
          [] IsAlwaysTruthyType(resolved) -> "truthy"
          [] IsAlwaysFalsyType(resolved) -> "falsy"
          [] OTHER -> "none"
Check(e, path) == {<<path, Verdict(e)>>} \ {<<path, "none">>}

RECURSIVE CheckRecursive(_, _)
CheckRecursive(e, path) ==
    CASE e.kind \in {"&&", "||"} ->
            CheckRecursive(e.subs[1], path \o <<1>>) \cup CheckRecursive(e.subs[2], path \o <<2>>)
            \cup {<<path \o <<2>>, "duplicate">> : i \in {j \in {1} : e.subs[1] = e.subs[2]}}
      [] e.kind \in {"paren", "!"} -> CheckRecursive(e.subs[1], path \o <<1>>)
      [] OTHER -> Check(e, path)

RECURSIVE InBooleanTest(_, _, _)
InBooleanTest(tree, path, through) ==
    /\ path # <<>>
    /\ LET parent == Down(tree, Front(path))
       IN  \/ parent.kind \in Tests /\ ("&&" \in through => Last(path) = 1)
           \/ parent.kind \in through /\ InBooleanTest(tree, Front(path), through)
IsInsideBooleanTest(tree, path) == InBooleanTest(tree, path, {"paren", "!"})
InBooleanTestPosition(tree, path) == InBooleanTest(tree, path, {"paren", "!", "&&", "||"})

VisitCoalesce(left, path, op, unchecked) ==
    LET type == TypeOf(left)
    IN  CASE type \cap {"any", "unknown"} # {} -> {}
          [] ~IncludesNullOrUndefined(type) ->
                IF IsIndexLike(left) /\ (op = "??=" \/ ~unchecked) THEN {} ELSE {<<path, "non-nullish">>}
          [] IsAlwaysNullishOnly(type) -> {<<path, "nullish">>}
          [] OTHER -> {}

AllowedLoopTest(e) == e.kind = "x" /\ e.access = "literal" /\ e.type \in {{"true"}, {"false"}, {"0"}, {"1"}}

Handle(tree, path, opts) ==
    LET n == Down(tree, path)  left == path \o <<1>>
    IN  CASE n.kind = "if" -> IF opts.disabled THEN {} ELSE CheckRecursive(n.subs[1], left)
          [] n.kind \in {"while", "do", "for"} ->
                IF \/ opts.loops = "always"
                   \/ opts.loops = "only-allowed-literals" /\ AllowedLoopTest(UnwrapRead(n.subs[1]))
                THEN {} ELSE CheckRecursive(n.subs[1], left)
          [] n.kind = "cond" -> CheckRecursive(n.subs[1], left)
          [] n.kind = "!" -> IF IsInsideBooleanTest(tree, path) THEN {} ELSE Check(n.subs[1], left)
          [] n.kind \in {"&&", "||", "&&=", "||="} ->
                IF InBooleanTestPosition(tree, path) THEN {} ELSE Check(n.subs[1], left)
          [] n.kind \in {"??", "??="} -> VisitCoalesce(n.subs[1], left, n.kind, opts.unchecked)
          [] OTHER -> {}

VisitConditions(n) ==
    UNION {{<<p, r[1], r[2]>> : r \in Handle(n.tree, p, n.opts)} : p \in Places(n.tree, <<>>)}

-----------------------------------------------------------------------------
(* Comparisons, and the label of a case with what the switch is over.      *)
(* Mutant: `=== undefined` is asked of null.                               *)
AgainstExcludedNullishSwapped(this, other, loose) ==
    /\ \E m \in NullishMembers : TypeOf(this) = {m}
    /\ ~IsIndexLike(other)
    /\ IF loose THEN ~IncludesNullOrUndefined(TypeOf(other)) ELSE ~IncludesNull(TypeOf(other))

AgainstExcludedNullish(this, other, loose) ==
    /\ \E m \in NullishMembers : TypeOf(this) = {m}
    /\ ~IsIndexLike(other)
    /\ CASE loose -> ~IncludesNullOrUndefined(TypeOf(other))
         [] TypeOf(this) = {"null"} -> ~IncludesNull(TypeOf(other))
         [] OTHER -> ~IncludesUndefined(TypeOf(other))

VisitComparison(n) ==
    LET l == n.left  r == n.right
        literal == IsSingleLiteral(TypeOf(l)) /\ IsSingleLiteral(TypeOf(r))
        excluded == AgainstExcludedNullish(l, r, n.op = "==") \/ AgainstExcludedNullish(r, l, n.op = "==")
    IN  IF literal \/ (n.op \in {"==", "==="} /\ excluded) THEN {"determined"} ELSE {}

(* A call: the callback of an array method, by how it is written and what  *)
(* it returns; the argument of a predicate `x is narrowed`, `asserts x` or *)
(* `asserts x is narrowed`; {} stands for no narrowed type.                *)
VisitPredicateCall(n) ==
    LET returns == ResolveConstraint(n.returns)
    IN  CASE n.receiver # "array" \/ n.callback \notin {"arrow", "function", "name"} -> {}
          [] n.returns \in {{"any"}, {"unknown"}, {"T"}} -> {}
          [] IsAlwaysTruthyType(returns) -> {"truthy"}
          [] IsAlwaysFalsyType(returns) -> {"falsy"}
          [] OTHER -> {}

IsAssignableTo(type, target) == "any" \in type \/ type \subseteq target
    \/ (\A m \in type : \E p \in {"string", "number", "boolean", "bigint", "unknown"} \cap target :
            p = "unknown" \/ MemberValues(m) \subseteq MemberValues(p))

CheckAssertionCall(n) ==
    CASE ~n.checkTypePredicates \/ n.arg \in {{"any"}, {"unknown"}} -> {}
      [] n.narrowed # {} ->
            IF /\ IsAssignableTo(n.arg, n.narrowed)
               /\ IsAssignableTo(n.narrowed, n.arg) \/ Cardinality(n.narrowed) > 1
            THEN {"predicate"} ELSE {}
      [] n.asserts /\ (IsAlwaysTruthyType(n.arg) \/ IsAlwaysFalsyType(n.arg)) -> {"assertion"}
      [] OTHER -> {}

-----------------------------------------------------------------------------
(* Optional chains.  A chain starts from a value of type root; a link is   *)
(* `.name`, `[index]` or `()`, written with `?.` or not, and yields, for   *)
(* every member of a union it reads from or every name an index stands     *)
(* for, the type in props.  source says what is read: an object, an array, *)
(* a tuple, or a record, whose properties are not declared one by one.     *)
Declared(c, i) ==
    IF i = 0 THEN c.root
    ELSE UNION Range(c.links[i].props)
         \cup IF c.unchecked /\ c.links[i].source \in {"array", "record"} THEN {"undefined"} ELSE {}
IsOptionalChain(c, i) == \E j \in 1..i : c.links[j].opt
ChainType(c, i) ==
    Declared(c, i) \cup
    IF \E j \in 1..i : c.links[j].opt /\ Declared(c, j - 1) \cap NullishMembers # {} THEN {"undefined"} ELSE {}

RECURSIVE ContainsNullable(_)
ContainsNullable(type) ==
    \E m \in type :
        \/ m \in {"null", "undefined", "void", "unknown", "T"}
        \/ m \in DOMAIN Constraint /\ ContainsNullable(Constraint[m])

NamesKeys(link) == link.kind = "elem" /\ link.index = "string"
InTuple(link) == link.source = "tuple" /\ link.index = "number"

(* typeHasDefiniteOwnProperty, for every name the index can stand for.     *)
ResolvesToDefiniteProperty(link) ==
    /\ NamesKeys(link)
    /\ link.source = "object"
    /\ \A i \in DOMAIN link.props : ~IncludesUndefined(link.props[i])

RECURSIVE HasPriorElementAccess(_, _)
HasPriorElementAccess(c, i) ==
    /\ i > 0
    /\ \/ /\ c.links[i].kind = "elem"
          /\ ~ContainsNullable(ChainType(c, i))
          /\ ~c.unchecked
          /\ ~InTuple(c.links[i])
       \/ IsOptionalChain(c, i) /\ HasPriorElementAccess(c, i - 1)

(* callReturnTypeForChain prefers a nullable return; the property types    *)
(* are those of the first member or the first name.                        *)
EffectiveReceiverType(c, i) ==
    LET link == c.links[i]
        nullable == SelectSeq(link.props, ContainsNullable)
    IN  CASE ~IsOptionalChain(c, i) -> ChainType(c, i)
          [] link.kind = "call" -> (nullable \o link.props)[1]
          [] link.source = "object" /\ (link.kind = "prop" \/ NamesKeys(link)) -> link.props[1]
          [] /\ link.kind = "prop" /\ ~c.unchecked
             /\ link.props[1] \notin {{"any"}, {"unknown"}, {}} /\ ~IncludesNullOrUndefined(link.props[1])
                -> ChainType(c, i) \ NullishMembers
          [] OTHER -> ChainType(c, i)

VisitOptionalLink(c, i) ==
    LET prior == i - 1
        type == IF prior = 0 THEN c.root ELSE EffectiveReceiverType(c, prior)
    IN  CASE ~c.links[i].opt -> {}
          [] /\ prior > 0 /\ c.links[prior].kind = "elem"
             /\ ~c.unchecked /\ ~ResolvesToDefiniteProperty(c.links[prior]) /\ ~InTuple(c.links[prior]) -> {}
          [] HasPriorElementAccess(c, prior) -> {}
          [] type \in {{"any"}, {"unknown"}} \/ ContainsNullable(type) -> {}
          [] OTHER -> {i}
VisitChain(c) == UNION {VisitOptionalLink(c, i) : i \in DOMAIN c.links}

VisitUnnecessary(n) ==
    CASE n.handler = "conditions" -> VisitConditions(n)
      [] n.handler = "comparison" -> VisitComparison(n)
      [] n.handler = "callback" -> VisitPredicateCall(n)
      [] n.handler = "assertion" -> CheckAssertionCall(n)
      [] n.handler = "chain" -> VisitChain(n)

-----------------------------------------------------------------------------
(* Where the rule is known to report what can go both ways: a value of     *)
(* type {}, T&{} or K may be falsy, as may a string of a pattern and a     *)
(* member of an enumeration.                                               *)
Misjudged == {"{}", "T&{}", "K", "upper", "E.Zero"}

(* A report on a test says which way it goes, and it always goes that way. *)
ReportedTestsAreConstant ==
    Visited(UnnecessaryConditionId) /\ node.handler = "conditions" =>
        \A r \in reports :
            LET type == TypeOf(Down(node.tree, r[2]))
            IN  type \cap Misjudged = {} =>
                    /\ r[3] = "truthy" => AlwaysTruthy(type)
                    /\ r[3] \in {"falsy", "never"} => AlwaysFalsy(type)
                    /\ r[3] = "non-nullish" => \A v \in Values(type) : ~Nullish(v)
                    /\ r[3] = "nullish" => \A v \in Values(type) : Nullish(v)

(* A plain variable that decides an if or a ternary alone is reported.     *)
DecidedTestsAreReported ==
    Visited(UnnecessaryConditionId) /\ node.handler = "conditions" =>
        (/\ node.tree.kind \in {"if", "cond"} /\ ~node.opts.disabled
         /\ node.tree.subs[1].kind = "x" /\ node.tree.subs[1].access = "none"
         /\ AlwaysTruthy(node.tree.subs[1].type) \/ AlwaysFalsy(node.tree.subs[1].type)
         => reports # {})

(* The values that can reach a link: an element may be missing.            *)
Receivers(c, i) ==
    Values(Declared(c, i)) \cup
    IF i > 0 /\ c.links[i].source = "array" THEN {Undefined} ELSE {}

ReportedChainsNeverBreak ==
    Visited(UnnecessaryConditionId) /\ node.handler = "chain" =>
        \A i \in reports :
            (i > 1 => Len(node.links[i - 1].props) = 1) =>
                \A v \in Receivers(node, i - 1) : ~Nullish(v)

ReportedComparisonsAreDetermined ==
    Visited(UnnecessaryConditionId) /\ node.handler = "comparison" /\ reports # {} =>
        LET l == Values(TypeOf(node.left))  r == Values(TypeOf(node.right))
        IN  (TypeOf(node.left) \cup TypeOf(node.right)) \cap Misjudged = {} =>
                CASE node.op = "==" -> Cardinality(UNION {LooseEqual(a, b) : a \in l, b \in r}) <= 1
                  [] node.op \in {"===", "case"} -> Cardinality(UNION {StrictEqual(a, b) : a \in l, b \in r}) <= 1
                  [] OTHER -> Cardinality({Less(a, b) : a \in l, b \in r}) <= 1

ReportedCallsAreVacuous ==
    Visited(UnnecessaryConditionId) =>
        /\ node.handler = "callback" /\ node.returns \cap Misjudged = {} =>
              /\ "truthy" \in reports => AlwaysTruthy(node.returns)
              /\ "falsy" \in reports => AlwaysFalsy(node.returns)
        /\ node.handler = "assertion" /\ node.arg \cap Misjudged = {} =>
              /\ "predicate" \in reports => Values(node.arg) \subseteq Values(node.narrowed)
              /\ "assertion" \in reports => AlwaysTruthy(node.arg) \/ AlwaysFalsy(node.arg)

(* All of these: what the rule calls decided is decided by the types, and  *)
(* a test that is decided is called so.                                    *)
NothingUnnecessaryIsInvented ==
    /\ ReportedTestsAreConstant
    /\ DecidedTestsAreReported
    /\ ReportedChainsNeverBreak
    /\ ReportedComparisonsAreDetermined
    /\ ReportedCallsAreVacuous
=============================================================================
