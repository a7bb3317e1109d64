------------------------ MODULE ConstantExpressions -------------------------
(***************************************************************************)
(* Two rules about expressions whose value is already decided.             *)
(*                                                                         *)
(* no-constant-condition: a node is a statement with its condition,        *)
(* whether a yield can run in its iterations, and the name, if any, that a *)
(* scope around it rebinds.                                                *)
(*                                                                         *)
(* no-constant-binary-expression: a logical operator whose left operand    *)
(* already decides, and a comparison that cannot go both ways.  A node is  *)
(* a binary expression; `!==` and `!=` are constant when `===` and `==`    *)
(* are, and stand for them.                                                *)
(***************************************************************************)
EXTENDS JsValues, RuleVisit

ConstantConditionId == "no-constant-condition"

Falsities == {"false", "null"}
Objects == {"regex", "array", "object", "function", "new", "newBuiltin"}
EmptyStrings == {"''"}
NonEmptyStrings == {"'a'", "'1'"}
Zeros == {"0", "0n"}
NonZeros == {"1", "1n"}
Primitives == {"true", "false", "null", "0", "1", "0n", "1n", "''", "'a'", "'1'"}

RECURSIVE
    IsConstantTruthy(_), IsConstantFalsy(_), IsConstantNullish(_), IsConstantNonNullish(_), IsPrimitiveConstant(_),
    IsPrimitiveConstantTruthy(_), IsCoercibleArrayLiteral(_), IsObviouslyConstant(_)

IsConstantNullish(e) ==
    \/ e.kind = "paren" /\ IsConstantNullish(e.subs[1])
    \/ e.kind \in {"null", "void", "undefined"}

IsConstantNonNullish(e) ==
    \/ e.kind = "paren" /\ IsConstantNonNullish(e.subs[1])
    \/ e.kind \in (Primitives \ {"null"}) \cup Objects

IsConstantTruthy(e) ==
    \/ e.kind \in {"true", "typeof"} \cup Objects \cup NonEmptyStrings \cup NonZeros
    \/ e.kind = "paren" /\ IsConstantTruthy(e.subs[1])
    \/ e.kind = "!" /\ IsConstantFalsy(e.subs[1])
    \/ e.kind = "&&" /\ IsConstantTruthy(e.subs[1]) /\ IsConstantTruthy(e.subs[2])
    \/ e.kind = "||" /\ (IsConstantTruthy(e.subs[1]) \/ IsConstantTruthy(e.subs[2]))
    \/ e.kind = "??" /\ \/ IsConstantTruthy(e.subs[1])
                        \/ IsConstantNullish(e.subs[1]) /\ IsConstantTruthy(e.subs[2])
    \/ e.kind \in {",", "||=", "="} /\ IsConstantTruthy(e.subs[2])

IsConstantFalsy(e) ==
    \/ e.kind \in Falsities \cup EmptyStrings \cup Zeros \cup {"undefined", "void"}
    \/ e.kind = "paren" /\ IsConstantFalsy(e.subs[1])
    \/ e.kind = "!" /\ IsConstantTruthy(e.subs[1])
    \/ e.kind = "&&" /\ (IsConstantFalsy(e.subs[1]) \/ IsConstantFalsy(e.subs[2]))
    \/ e.kind = "||" /\ IsConstantFalsy(e.subs[1]) /\ IsConstantFalsy(e.subs[2])
    \/ e.kind = "??" /\ IsConstantNullish(e.subs[1]) /\ IsConstantFalsy(e.subs[2])
    \/ e.kind \in {",", "&&=", "="} /\ IsConstantFalsy(e.subs[2])

Assignments == {"=", "+=", "-=", "||=", "&&=", "??="}
Binary == Assignments \cup {",", "&&", "||", "??", "+", "-", "<", "==", "==="}

IsPrimitiveConstant(e) ==
    \/ e.kind \in Primitives \cup {"void", "undefined"}
    \/ e.kind \in {"typeof", "paren", "+x"} /\ IsPrimitiveConstant(e.subs[1])
    \/ /\ e.kind = "!"
       /\ \/ IsConstantTruthy(e.subs[1]) \/ IsConstantFalsy(e.subs[1])
          \/ IsPrimitiveConstant(e.subs[1])
    \/ /\ e.kind \in Binary \ (Assignments \cup {","})
       /\ LET left == e.subs[1]  right == e.subs[2]
              decided == IF e.kind = "&&" THEN IsConstantFalsy(left) ELSE IsConstantTruthy(left)
              passed == IF e.kind = "&&" THEN IsConstantTruthy(left) ELSE IsConstantFalsy(left)
          IN  IF e.kind \in {"&&", "||"} /\ (decided \/ passed)
              THEN IsPrimitiveConstant(IF decided THEN left ELSE right)
              ELSE IsPrimitiveConstant(left) /\ IsPrimitiveConstant(right)

IsCoercibleArrayLiteral(e) ==
    \/ e.kind = "paren" /\ IsCoercibleArrayLiteral(e.subs[1])
    \/ /\ e.kind = "array"
       /\ \A s \in Range(e.subs) :
            CASE s.kind = "spread" -> IsCoercibleArrayLiteral(s.subs[1])
              [] s.kind = "hole" -> TRUE
              [] OTHER -> IsPrimitiveConstant(s) \/ IsCoercibleArrayLiteral(s)

(* The elements arrayCoercionIsTruthy counts: a spread array's are its own. *)
Spliced(elements) ==
    FoldLeft(LAMBDA acc, s :
        acc \o (IF s.kind # "spread" THEN <<s>>
                ELSE IF s.subs[1].kind = "array" THEN s.subs[1].subs
                ELSE <<>>), <<>>, elements)

ArrayCoercionIsTruthy(e) ==
    LET elements == Spliced(e.subs)
    IN  \/ \E s \in Range(elements) : s.kind # "hole" /\ IsPrimitiveConstantTruthy(s)
        \/ Len(elements) >= 2

IsPrimitiveConstantTruthy(e) ==
    \/ e.kind = "paren" /\ IsPrimitiveConstantTruthy(e.subs[1])
    \/ e.kind \in Falsities \cup {"true"} \cup NonEmptyStrings \cup Zeros \cup NonZeros
    \/ e.kind = "+" /\ IsPrimitiveConstantTruthy(e.subs[1]) /\ IsPrimitiveConstantTruthy(e.subs[2])
    \/ e.kind = "array" /\ IsCoercibleArrayLiteral(e) /\ ArrayCoercionIsTruthy(e)
    \/ e.kind = "template" /\ IsObviouslyConstant(e)

IsConstantBinary(e) ==
    LET left == e.subs[1]
        right == e.subs[2]
        both == IsObviouslyConstant(left) /\ IsObviouslyConstant(right)
    IN  CASE e.kind \in {"=", ","} -> IsObviouslyConstant(right)
          [] e.kind = "||=" -> IsConstantTruthy(right)
          [] e.kind = "&&=" -> IsConstantFalsy(right)
          [] e.kind \in Assignments \ {"=", "||=", "&&="} -> FALSE
          [] e.kind = "&&" -> IsConstantFalsy(left) \/ IsConstantFalsy(right) \/ both
          [] e.kind = "||" -> IsConstantTruthy(left) \/ IsConstantTruthy(right) \/ both
          [] e.kind = "??" -> IsConstantNonNullish(left) \/ both
          [] OTHER ->
                \/ e.kind = "+" /\ \/ IsPrimitiveConstant(left) /\ IsCoercibleArrayLiteral(right)
                                   \/ IsPrimitiveConstant(right) /\ IsCoercibleArrayLiteral(left)
                \/ IsPrimitiveConstant(left) /\ IsPrimitiveConstant(right)

HasTruthyPart(e) ==
    \E part \in Range(e.subs) : part.kind = "text" \/ (part.kind # "emptytext" /\ IsPrimitiveConstantTruthy(part))

IsObviouslyConstant(e) ==
    \/ e.kind \in Primitives \cup Objects \cup {"undefined", "void", "typeof"}
    \/ e.kind \in {"paren", "!"} /\ IsObviouslyConstant(e.subs[1])
    \/ e.kind = "+x" /\ IsPrimitiveConstant(e.subs[1])
    \/ e.kind \in Binary /\ IsConstantBinary(e)
    \/ e.kind = "template" /\ HasTruthyPart(e)
    \/ e.kind = "Boolean" /\ (e.subs = <<>> \/ IsConstantTruthy(e.subs[1]) \/ IsConstantFalsy(e.subs[1]))

-----------------------------------------------------------------------------
(* The handlers.  A node: its statement, its test, the places of the loop  *)
(* that yield, whether it is in a generator, the names rebound around it.  *)
Loops == {"while", "do", "for"}

RECURSIVE IsLiteralTrue(_)
IsLiteralTrue(e) == e.kind = "true" \/ (e.kind = "paren" /\ IsLiteralTrue(e.subs[1]))

LoopExemptByYield(n) ==
    n.generator /\ n.yields \cap ({"body", "test"} \cup IF n.stmt = "for" THEN {"update"} ELSE {}) # {}

(* A rebound name in the test: undefined anywhere, Boolean as a callee.    *)
HasLocallyShadowedReference(n) ==
    \E e \in Nodes(n.test) : e.kind \in {"undefined", "Boolean"} /\ e.kind \in n.shadowed

ReportCondition(n) ==
    IF IsObviouslyConstant(n.test) /\ ~HasLocallyShadowedReference(n) THEN {"test"} ELSE {}

VisitCondition(n) ==
    IF /\ n.stmt \in Loops
       /\ \/ n.checkLoops = "none"
          \/ n.stmt = "while" /\ n.checkLoops = "allExceptWhileTrue" /\ IsLiteralTrue(n.test)
          \/ LoopExemptByYield(n)
    THEN {}
    ELSE ReportCondition(n)

-----------------------------------------------------------------------------
(* A rebound name reads as a variable, a rebound Boolean as any function.  *)
RECURSIVE Rebound(_, _)
Rebound(e, names) ==
    IF e.kind \in names THEN Leaf("x") ELSE Node(e.kind, [i \in DOMAIN e.subs |-> Rebound(e.subs[i], names)])

(* An array of null or undefined converts to the empty string, which       *)
(* isPrimitiveConstantTruthy overlooks in a template.                      *)
NullishElement(e) ==
    \E a \in Nodes(e) : a.kind = "array" /\ \E s \in Range(Spliced(a.subs)) : s.kind \in {"null", "paren"}

(* a ?? b is taken for constant when a and b are, although which of them    *)
(* is taken may depend on a: (x && false) ?? true.                         *)
UndecidedCoalescing(e) ==
    \E n \in Nodes(e) : n.kind = "??" /\ ~ConstantNullishness(n.subs[1])

(* What is reported cannot go the other way, whatever the variables hold   *)
(* and whichever names are rebound.                                        *)
ConstantConditionsAreConstant ==
    Visited(ConstantConditionId) /\ reports # {} /\ ~NullishElement(node.test) /\ ~UndecidedCoalescing(node.test) =>
        ConstantTruthiness(Rebound(node.test, node.shadowed))

(* With true, false, variables and logical operators only, what is not     *)
(* reported can go both ways.                                              *)
LogicalKinds == {"true", "false", "x", "!", "paren", "&&", "||"}
UnreportedConditionsVary ==
    /\ Visited(ConstantConditionId)
    /\ node.stmt = "if"
    /\ reports = {}
    /\ {e.kind : e \in Nodes(node.test)} \subseteq LogicalKinds
    => ~ConstantTruthiness(node.test)

-----------------------------------------------------------------------------
ConstantBinaryId == "no-constant-binary-expression"

RECURSIVE Unwrap(_)
Unwrap(e) == IF e.kind = "paren" THEN Unwrap(e.subs[1]) ELSE e

RECURSIVE IsAlwaysTruthy(_), IsAlwaysFalsy(_), HasConstantTruthiness(_), HasConstantNullishness(_), IsStaticallyNullish(_),
    IsFreshReferenceLiteral(_), IsSingletonValue(_), PrimitiveTypeTag(_), IsStablyCoercedReference(_)

IsAlwaysTruthy(e) ==
    \/ e.kind \in {"true", "typeof"} \cup Objects \cup NonEmptyStrings \cup NonZeros
    \/ e.kind = "paren" /\ IsAlwaysTruthy(e.subs[1])
    \/ e.kind = "!" /\ IsAlwaysFalsy(e.subs[1])
    \/ e.kind = "Boolean" /\ e.subs # <<>> /\ IsAlwaysTruthy(e.subs[1])

IsAlwaysFalsy(e) ==
    \/ e.kind \in {"void", "undefined"} \cup Falsities \cup EmptyStrings \cup Zeros
    \/ e.kind = "paren" /\ IsAlwaysFalsy(e.subs[1])
    \/ e.kind = "!" /\ IsAlwaysTruthy(e.subs[1])
    \/ e.kind = "Boolean" /\ (e.subs = <<>> \/ IsAlwaysFalsy(e.subs[1]))

HasConstantTruthiness(e) ==
    \/ e.kind \in Primitives \cup Objects \cup {"undefined", "NaN", "void", "typeof"}
    \/ e.kind \in {"paren", "+x", "!"} /\ HasConstantTruthiness(e.subs[1])
    \/ e.kind = "template" /\ \E part \in Range(e.subs) : part.kind = "text"
    \/ e.kind = "Boolean" /\ (IsAlwaysTruthy(e) \/ IsAlwaysFalsy(e))
    \/ /\ e.kind \in Binary
       /\ LET left == Unwrap(e.subs[1])
              right == Unwrap(e.subs[2])
              both == HasConstantTruthiness(left) /\ HasConstantTruthiness(right)
          IN  \/ e.kind \in {",", "="} /\ HasConstantTruthiness(right)
              \/ e.kind = "&&" /\ (IsAlwaysFalsy(left) \/ IsAlwaysFalsy(right) \/ both)
              \/ e.kind = "||" /\ (IsAlwaysTruthy(left) \/ IsAlwaysTruthy(right) \/ both)
              \/ e.kind = "??" /\ HasConstantNullishness(left) /\ both

IsStaticallyNullish(e) ==
    \/ e.kind \in {"null", "void", "undefined"}
    \/ e.kind = "paren" /\ IsStaticallyNullish(e.subs[1])
    \/ e.kind \in {",", "="} /\ IsStaticallyNullish(Unwrap(e.subs[2]))

HasConstantNullishness(e) ==
    \/ e.kind \in Primitives \cup Objects
           \cup {"template", "undefined", "NaN", "void", "typeof", "+x", "!", "++", "delete", "Boolean", "String", "Number"}
    \/ e.kind = "paren" /\ HasConstantNullishness(e.subs[1])
    \/ /\ e.kind \in Binary
       /\ LET right == Unwrap(e.subs[2])
          IN  CASE e.kind = "??" -> HasConstantNullishness(right) /\ ~IsStaticallyNullish(right)
                [] e.kind \in {"&&", "||"} -> FALSE
                [] e.kind \in {",", "="} -> HasConstantNullishness(right)
                [] OTHER -> TRUE   \* arithmetic, comparisons and compound assignments

-----------------------------------------------------------------------------
(* Comparisons.                                                            *)
IsFreshReferenceLiteral(e) ==
    \/ e.kind \in Objects \ {"new", "newBuiltin"}
    \/ e.kind \in Assignments \cup {","} /\ IsFreshReferenceLiteral(Unwrap(e.subs[2]))
    \/ e.kind = "cond" /\ \A i \in {2, 3} : IsFreshReferenceLiteral(Unwrap(e.subs[i]))

IsSingletonValue(e) ==
    \/ e.kind \in Primitives \cup {"void", "undefined"}
    \/ e.kind = "paren" /\ IsSingletonValue(e.subs[1])
    \/ e.kind = "!" /\ (IsAlwaysTruthy(e.subs[1]) \/ IsAlwaysFalsy(e.subs[1]))
    \/ e.kind = "Boolean" /\ (e.subs = <<>> \/ IsAlwaysTruthy(e.subs[1]) \/ IsAlwaysFalsy(e.subs[1]))

PrimitiveTypeTag(e) ==
    CASE e.kind \in {"null", "undefined"} -> e.kind
      [] e.kind = "void" -> "undefined"
      [] e.kind \in {"true", "false", "!", "delete", "Boolean", "<", "==", "==="} -> "boolean"
      [] e.kind \in {"0", "1", "NaN", "+x", "++", "Number", "-", "-="} -> "number"
      [] e.kind \in {"''", "'a'", "'1'", "typeof", "String"} -> "string"
      [] e.kind \in {"0n", "1n"} -> "bigint"
      [] e.kind = "paren" -> PrimitiveTypeTag(e.subs[1])
      [] OTHER -> ""

HasSingletonSelfEquality(left, right) == IsSingletonValue(left) /\ IsSingletonValue(right)

IsStringOrNumberBinary(e) == Unwrap(e).kind \in {"+", "+="}
NonStringOrNumberTags == {"boolean", "null", "undefined", "bigint"}

HasIncompatibleTypeTag(left, right) ==
    LET l == PrimitiveTypeTag(left)  r == PrimitiveTypeTag(right)
    IN  \/ HasSingletonSelfEquality(left, right)
        \/ IsStringOrNumberBinary(left) /\ r \in NonStringOrNumberTags
        \/ IsStringOrNumberBinary(right) /\ l \in NonStringOrNumberTags
        \/ "" \notin {l, r} /\ l # r

LooseEqualityCanCoerce(left, right) ==
    LET l == PrimitiveTypeTag(left)  r == PrimitiveTypeTag(right)
    IN  /\ ~(left.kind = "typeof" /\ r \notin {"string", ""})
        /\ ~(right.kind = "typeof" /\ l \notin {"string", ""})
        /\ {l, r} \in {{"number", "string"}, {"number", "boolean"}, {"string", "boolean"},
                       {"bigint", "number"}, {"bigint", "string"}}

IsCoercionFixedArray(e) ==
    LET elements == Unwrap(e).subs
    IN  /\ Unwrap(e).kind = "array"
        /\ \/ elements = <<>>
           \/ Len(elements) > 1 /\ \A s \in Range(elements) : s.kind \notin {"hole", "spread"}

IsStablyCoercedReference(e) ==
    \/ e.kind = "paren" /\ IsStablyCoercedReference(e.subs[1])
    \/ e.kind \in {"object", "function", "regex"}

IsLooseEqualityImmuneLiteral(e) ==
    Unwrap(e).kind \in {"true", "false", "null", "undefined", "void", "Boolean", "!"}

Immune(left, right) ==
    (IsStablyCoercedReference(left) \/ IsCoercionFixedArray(left)) /\ IsLooseEqualityImmuneLiteral(right)

IsStrictlyConstant(left, right) ==
    \/ IsFreshReferenceLiteral(left) \/ IsFreshReferenceLiteral(right)
    \/ left.kind \in {"new", "newBuiltin"} /\ PrimitiveTypeTag(right) # ""
    \/ right.kind \in {"new", "newBuiltin"} /\ PrimitiveTypeTag(left) # ""
    \/ "newBuiltin" \in {left.kind, right.kind}
    \/ HasIncompatibleTypeTag(left, right)

(* Mutant: values of two types are never equal, also loosely.              *)
IsLooselyConstantByType(left, right) ==
    \/ IsFreshReferenceLiteral(left) /\ IsFreshReferenceLiteral(right)
    \/ HasIncompatibleTypeTag(left, right)

IsLooselyConstant(left, right) ==
    \/ Immune(left, right) \/ Immune(right, left)
    \/ IsFreshReferenceLiteral(left) /\ IsFreshReferenceLiteral(right)
    \/ HasSingletonSelfEquality(left, right)
    \/ HasIncompatibleTypeTag(left, right) /\ ~LooseEqualityCanCoerce(left, right)

VisitBinary(n) ==
    LET left == Unwrap(n.subs[1])  right == Unwrap(n.subs[2])
    IN  CASE n.kind \in {"&&", "||"} /\ HasConstantTruthiness(left) -> {"truthiness"}
          [] n.kind = "??" /\ HasConstantNullishness(left) -> {"nullishness"}
          [] n.kind = "===" /\ IsStrictlyConstant(left, right) -> {"comparison"}
          [] n.kind = "==" /\ IsLooselyConstant(left, right) -> {"comparison"}
          [] OTHER -> {}

-----------------------------------------------------------------------------
(* Where the rule is known to report what is not constant:                 *)
(* a logical assignment keeps what its left side held, and + of an object  *)
(* converts it,                                                            *)
DecidedOperand(e) ==
    /\ KindsIn(e) \cap {"||=", "&&=", "??="} = {}
    /\ \A n \in Nodes(e) : n.kind = "+x" => IsPrimitiveConstant(n.subs[1])

(* a compound assignment does not keep a fresh object, bigints have no tag *)
(* of their own, a sum may be equal to a boolean, and [] is equal to false.*)
DecidedComparison(e) ==
    /\ KindsIn(e) \cap {"+=", "-=", "||=", "&&=", "??=", "0n", "1n"} = {}
    /\ e.kind = "==" =>
        /\ "+" \notin {Unwrap(s).kind : s \in Range(e.subs)}
        /\ Leaf("array") \notin {Unwrap(s) : s \in Range(e.subs)}

(* A logical operator is reported only if its left operand always takes    *)
(* the same way, whatever the variables in it hold.                        *)
DecidingOperandsAreConstant ==
    Visited(ConstantBinaryId) /\ DecidedOperand(node.subs[1]) =>
        /\ "truthiness" \in reports => ConstantTruthiness(node.subs[1])
        /\ "nullishness" \in reports => ConstantNullishness(node.subs[1])

(* A comparison is reported only if it has one outcome.                    *)
ReportedComparisonsAreConstant ==
    Visited(ConstantBinaryId) /\ "comparison" \in reports /\ DecidedComparison(node) =>
        Cardinality(Outcomes(node)) <= 1

(* All of these: what is called constant is, and a decided condition of    *)
(* plain logic is called so.                                               *)
ConstantsAreConstant ==
    /\ ConstantConditionsAreConstant
    /\ UnreportedConditionsVary
    /\ DecidingOperandsAreConstant
    /\ ReportedComparisonsAreConstant
=============================================================================
