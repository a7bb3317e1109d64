----------------------------- MODULE Assertions -----------------------------
(***************************************************************************)
(* The rule no-unnecessary-type-assertion: `e as T`, `<T>e` and `e!` whose *)
(* removal would leave the program as it is for the checker.               *)
(***************************************************************************)
EXTENDS RuleVisit, SequencesExt, FiniteSetsExt

AssertionId == "no-unnecessary-type-assertion"

-----------------------------------------------------------------------------
(* Types: sets of union members.  Some are objects with properties, one is *)
(* an array of any, two are type parameters and one of these meets {}.     *)
Literals == {"'a'", "1"}
Base == [m \in Literals |-> IF m = "1" THEN "number" ELSE "string"]
ParameterConstraint == [m \in {"T<string>", "T<undefined>"} |-> IF m = "T<string>" THEN {"string"} ELSE {"string", "undefined"}]
Shapes == [m \in {"{p}", "{p:'a'}", "{p,q}", "{}", "{f}", "{f<T>}"} |->
    CASE m = "{p}" -> [p |-> {"string"}]
      [] m = "{p:'a'}" -> [p |-> {"'a'"}]
      [] m = "{p,q}" -> [p |-> {"string"}, q |-> {"string"}]
      [] m = "{}" -> <<>>
      [] m \in {"{f}", "{f<T>}"} -> [f |-> {m}]]
NullishTypes == {"null", "undefined", "void"}

(* What takes a member as it is: its own type, a wider one, or {}.         *)
TakesMember(target, m) ==
    \/ m \in target
    \/ m \in Literals /\ Base[m] \in target
    \/ m = "undefined" /\ "void" \in target
    \/ m = "T<string>&{}" /\ target \intersect {"T<string>", "string"} # {}
    \/ m \notin NullishTypes \cup {"unknown"} \cup DOMAIN ParameterConstraint /\ "{}" \in target
Unchecked(source, target) == target \intersect {"any", "unknown"} # {} \/ "any" \in source
Fits(source, target) == Unchecked(source, target) \/ \A m \in source : TakesMember(target, m)
(* A parameter goes where its constraint does, an object where one with a  *)
(* part of its properties is expected; neither constraints nor properties  *)
(* are parameters or compared objects themselves.                          *)
Assignable(source, target) ==
    \/ Unchecked(source, target)
    \/ \A m \in source :
          \/ TakesMember(target, m)
          \/ m \in DOMAIN ParameterConstraint /\ Fits(ParameterConstraint[m], target)
          \/ /\ m \in DOMAIN Shapes
             /\ \E t \in target \intersect DOMAIN Shapes :
                   /\ DOMAIN Shapes[t] \subseteq DOMAIN Shapes[m]
                   /\ \A p \in DOMAIN Shapes[t] :
                         {"{f}", "{f<T>}"} \intersect Shapes[t][p] = {} => Fits(Shapes[m][p], Shapes[t][p])

ContainsAny(type) == type \intersect {"any", "[any]"} # {}
IsUnion(type) == Cardinality(type) > 1

NotSurelyThere == NullishTypes \cup {"unknown"}
MayBeNullish(type) ==
    \E m \in type : m \in NotSurelyThere \/ (m \in DOMAIN ParameterConstraint /\ ParameterConstraint[m] \intersect NotSurelyThere # {})

IsLiteralOrTuple(type) == \E m \in Literals \cup {"[string]"} : type = {m}
IsLiteralLike(type) == IsLiteralOrTuple(type) \/ type = {"E.A"}

(* T and T & {} where T admits neither null nor undefined.                 *)
IsIntersectedWithEmptyObject(source, target) ==
    source = {"T<string>"} /\ target = {"T<string>&{}"} /\ ~MayBeNullish(ParameterConstraint["T<string>"])

HasSameProperties(a, b) == \E s, t \in DOMAIN Shapes : a = {s} /\ b = {t} /\ DOMAIN Shapes[s] = DOMAIN Shapes[t]
HasLiteralProperty(type) ==
    \E m \in type \intersect DOMAIN Shapes : \E p \in DOMAIN Shapes[m] : IsLiteralOrTuple(Shapes[m][p])

(* A property the context expects a generic function for, and gets none.   *)
GenericsMismatch(source, context) == context = {"{f<T>}"} /\ source # {"{f<T>}"}

-----------------------------------------------------------------------------
(* An assertion: what it is written on (the kind of the expression and its *)
(* type, and the casts to any and unknown around that), the type it names, *)
(* and its place: the node around it with what that expects.               *)
IsLiteralExpression(kind) == kind \in {"literal", "null"}
IsNullishLiteral(kind) == kind \in {"null", "undefined"}

(* The casts to any and unknown directly under the assertion are seen      *)
(* through; those below another cast are part of its operand.              *)
WideningCasts(n) == SelectInSeq(n.casts \o <<{}>>, LAMBDA t : t \notin {{"any"}, {"unknown"}}) - 1
Unwraps(n) == WideningCasts(n) > 0
Bare(n) == WideningCasts(n) = Len(n.casts)
SourceKind(n) == IF n.casts = <<>> \/ (Unwraps(n) /\ Bare(n)) THEN n.source ELSE "cast"
SourceType(n) ==
    IF n.casts = <<>> THEN n.type
    ELSE IF ~Unwraps(n) THEN n.casts[1]
    ELSE IF Bare(n) THEN n.type ELSE n.casts[WideningCasts(n) + 1]

IsInWideningPosition(place) == place.kind \in {"property", "array element", "mutable field", "let"}

LogicalAssignment == {"??=", "||=", "&&="}
ShouldSkipContextual(n) ==
    \/ n.place.kind \in {"spread", "satisfies"} \cup LogicalAssignment
    \/ n.place.kind = "??" /\ n.target \in {{"any"}, {"unknown"}}
    \/ n.place.kind = "= in an expression"
    \/ n.casts = <<>> /\ n.source = "array" /\ n.target # {"any"}

(* The parameters at the argument's position, one for each signature.      *)
IsArgument(place) == place.kind = "argument"
OverloadsDisagree(n) ==
    /\ IsArgument(n.place)
    /\ Len(n.place.overloads) > 1
    /\ \/ <<>> \in Range(n.place.overloads)
       \/ /\ Cardinality(Range(n.place.overloads)) > 1
          /\ \E p \in Range(n.place.overloads) : ~Assignable(SourceType(n), p[1])

(* A call of a generic function around the assertion, with at most one     *)
(* function in between, an arrow with an expression for a body.            *)
InGenericCall(place) == place.generic
PropertyIsProblematic(n) ==
    /\ n.place.kind = "property"
    /\ \/ /\ n.place.unionObject
          /\ \/ n.place.expected = {} \/ Cardinality(n.place.expected \ NullishTypes) >= 2
             \/ ~Assignable(SourceType(n), n.place.expected)
       \/ ~n.place.unionObject /\ n.place.satisfies

(* The reports that compare the two types.                                 *)
SameType(n) ==
    \/ SourceType(n) = n.target
    \/ IsIntersectedWithEmptyObject(SourceType(n), n.target)
    \/ /\ SourceKind(n) = "object literal"
       /\ n.properties
       /\ ~IsUnion(SourceType(n)) /\ ~IsUnion(n.target)
       /\ ~HasLiteralProperty(n.target)
       /\ HasSameProperties(SourceType(n), n.target)
       /\ Assignable(SourceType(n), n.target)

(* Mutant: a generic call expects what its argument is.                    *)
FitsTheContextGeneric(n) ==
    /\ n.place.expected # {} /\ ~ShouldSkipContextual(n) /\ ~OverloadsDisagree(n)
    /\ Assignable(SourceType(n), n.place.expected)

(* The report that compares the source with what the place expects.        *)
FitsTheContext(n) ==
    LET generic == InGenericCall(n.place)
        expected == n.place.expected
    IN  /\ n.place.kind \notin {"cast", "destructuring"}
        /\ ~ShouldSkipContextual(n)
        /\ ~OverloadsDisagree(n)
        /\ generic => /\ IsLiteralExpression(SourceKind(n)) \/ n.place.kind = "property"
                      /\ n.target \notin {{"any"}, {"fn"}}
        /\ ~ContainsAny(SourceType(n))
        /\ ~PropertyIsProblematic(n)
        /\ expected # {}
        /\ IF expected = {"any"} THEN IsArgument(n.place) /\ ~ContainsAny(n.target)
                                 ELSE ContainsAny(expected) => n.target \in {{"any"}, {"unknown"}}
        /\ Assignable(SourceType(n), expected)
        /\ ~GenericsMismatch(SourceType(n), expected)
        /\ ~(IsUnion(n.target) /\ n.casts = <<>> /\ IsNullishLiteral(n.source))

IsAlreadyConst(n) ==
    /\ n.checkConst
    /\ (n.casts = <<>> /\ IsLiteralExpression(n.source)) \/ IsLiteralLike(n.constType)
    /\ ~IsInWideningPosition(n.place)
IsKept(n) ==
    \/ n.ignored
    \/ n.target = {"undefined"} /\ n.source = "IIFE" /\ n.casts = <<>>
    \/ IsLiteralOrTuple(n.target) /\ (~IsLiteralExpression(SourceKind(n)) \/ IsInWideningPosition(n.place))
VisitAs(n) ==
    IF n.target = {"const"} THEN (IF IsAlreadyConst(n) THEN {"already literal"} ELSE {})
    ELSE IF IsKept(n) THEN {}
    ELSE IF SameType(n) THEN {"same type"}
    ELSE IF FitsTheContext(n) THEN {"fits the context"} ELSE {}

-----------------------------------------------------------------------------
(* e!: the same places.                                                    *)

(* The name of a variable that may not have been assigned yet.  A variable *)
(* is declared with or without an initializer, in a block that ends before *)
(* the use or around it, and the type may have been narrowed since.        *)
PossiblyUnassigned(n) ==
    /\ n.source = "variable"
    /\ \/ n.variable.blockEnded
       \/ ~n.variable.initialized /\ n.variable.annotated /\ ~n.variable.narrowed /\ ~n.variable.definite

AcceptsNull(n) ==
    n.place.expected # {} /\ MayBeNullish(n.place.expected) /\ Assignable(n.type, n.place.expected)
VisitNonNull(n) ==
    IF n.place.kind = "left of =" THEN {"target"}
    ELSE IF n.place.kind \in {"=", "= in an expression"} THEN {}
    ELSE IF AcceptsNull(n) THEN {"fits the context"}
    ELSE IF n.type \notin {{"any"}, {"unknown"}, {"void"}} /\ ~MayBeNullish(n.type) /\ ~PossiblyUnassigned(n) THEN {"not nullable"}
    ELSE {}

VisitTypeAssertion(n) == IF n.nonNull THEN VisitNonNull(n) ELSE VisitAs(n)

-----------------------------------------------------------------------------
(* What the checker makes of the program without the assertion.  The type  *)
(* of a literal widens where its variable can change.  Where a type is     *)
(* expected the value only has to fit; `satisfies` and the inference of    *)
(* type parameters and the choice of an overload look at the type itself.  *)
TypeAlone(n) ==
    IF SourceKind(n) = "literal" /\ IsInWideningPosition(n.place) /\ n.place.expected = {}
      THEN {IF m \in Literals THEN Base[m] ELSE m : m \in n.type} ELSE SourceType(n)
OnlyChecked(n) ==
    /\ n.place.expected # {} /\ n.place.kind # "satisfies" /\ ~n.place.generic
    /\ IsArgument(n.place) => \A p \in Range(n.place.overloads) : p = <<n.place.expected>>

(* Known: the argument of a call that infers its type parameters, and of   *)
(* one whose overloads all accept the source, is judged by what the chosen *)
(* signature expects; e! under `satisfies` loses its narrower type; an     *)
(* array literal is taken for the tuple that `as const` makes of it.       *)
ExpectedAsInferred(n) ==
    /\ n.place.expected # {}
    /\ \/ n.place.generic /\ (n.nonNull \/ IsLiteralExpression(SourceKind(n)) \/ n.place.kind = "property")
       \/ IsArgument(n.place) /\ (n.nonNull \/ ~OverloadsDisagree(n)) /\ ~n.place.generic
       \/ n.place.kind = "satisfies" /\ n.nonNull

(* An assertion reported as unnecessary can go: what is left has the same  *)
(* type, or stands where it only has to fit and fits.                      *)
ReportedAssertionsChangeNothing ==
    Visited(AssertionId) /\ ~node.nonNull /\ reports # {} =>
        \/ node.target = {"const"} /\ (TypeAlone(node) = node.constType \/ node.source = "array")
        \/ TypeAlone(node) = node.target \/ SourceType(node) \cup node.target = {"T<string>", "T<string>&{}"}
        \/ SourceKind(node) = "object literal" /\ HasSameProperties(SourceType(node), node.target)
        \/ (OnlyChecked(node) \/ ExpectedAsInferred(node)) /\ Assignable(TypeAlone(node), node.place.expected)

(* e! is reported when e is not nullish or stands where null may stand,    *)
(* and only then.  Known: the right side of an assignment is never looked  *)
(* at, nor a place that expects any; a variable that may be unassigned is  *)
(* left alone.                                                             *)
NonNullAssertionsAreNeeded ==
    Visited(AssertionId) /\ node.nonNull =>
        /\ reports # {} =>
              \/ node.place.kind = "left of =" \/ ~MayBeNullish(node.type)
              \/ (OnlyChecked(node) \/ ExpectedAsInferred(node)) /\ Assignable(node.type, node.place.expected)
        /\ reports = {} =>
              \/ MayBeNullish(node.type) /\ (node.place.expected = {} \/ ~Assignable(node.type, node.place.expected))
              \/ node.place.kind \in {"=", "= in an expression"} \/ PossiblyUnassigned(node)
              \/ "any" \in node.type \cup node.place.expected

AssertionsAreNeeded == ReportedAssertionsChangeNothing /\ NonNullAssertionsAreNeeded

-----------------------------------------------------------------------------
(* The assertions that a program can contain: a literal has the type of    *)
(* that literal, `as const` stands on no cast and only makes something     *)
(* else of an array.                                                       *)
IsAssertion(n) ==
    n.nonNull \/ /\ n.source = "literal" => \E m \in Literals : n.type = {m}
                 /\ n.target = {"const"} => n.casts = <<>> /\ (n.source = "array" \/ n.constType = n.type)

(* The engine dispatches the rule on any number of them.                   *)
AssertionsSpec(assertions) ==
    Start(AssertionId, assertions) /\ [][Dispatch(AssertionId, VisitTypeAssertion)]_vars
=============================================================================
