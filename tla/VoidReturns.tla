---------------------------- MODULE VoidReturns ----------------------------
(***************************************************************************)
(* The rule strict-void-return: a place that wants a function for its      *)
(* effects only, given one whose result is lost.                           *)
(***************************************************************************)
EXTENDS RuleVisit, FiniteSetsExt

VoidReturnId == "strict-void-return"

-----------------------------------------------------------------------------
(* A type is a set of union members; a member has the results of its call  *)
(* signatures, each a set of union members again, and is named if it has   *)
(* none.                                                                   *)
Callable(results) == [name |-> "function", results |-> results]
NoFunction(name) == [name |-> name, results |-> {}]
AllVoid(result) == \A m \in result : m = "void"
NullishOrAny == {"any", "unknown", "null", "undefined", "never", "void"}
IsNullishOrAny(type) == \E name \in NullishOrAny : type = {NoFunction(name)}

(* The checker has signatures for a union when every member is callable.   *)
CallSignatures(type) ==
    IF \E m \in type : m.results = {} THEN {}
    ELSE IF Cardinality(type) = 1 THEN UNION {m.results : m \in type}
    ELSE {UNION UNION {m.results : m \in type}}

IsVoidFunctionMember(m) == m.results # {} /\ \A r \in m.results : AllVoid(r)
IsVoidFunction(type) ==
    /\ \E m \in type : IsVoidFunctionMember(m)
    /\ \A m \in type : m.results # {} => IsVoidFunctionMember(m)

Lost(result, allowAny) == \E m \in result : m \notin {"void", "undefined", "never"} \cup (IF allowAny THEN {"any"} ELSE {})

(* Mutant: one signature that returns nothing is enough.                   *)
AllowedReturnOfOne(type, allowAny) == \E r \in CallSignatures(type) : ~Lost(r, allowAny)
AllowedReturn(type, allowAny) ==
    CallSignatures(type) # {} /\ \A r \in CallSignatures(type) : ~Lost(r, allowAny)
AllowedValue(result, allowAny) == Cardinality(result) = 1 /\ ~Lost(result, allowAny)

(* A function: how it is written, its type, what it says it returns, and   *)
(* the values of its own return statements or of its expression.           *)
ReturnsLost(f, allowAny) == {<<"value", v>> : v \in {w \in f.values : ~AllowedValue(w, allowAny)}}
ReportIfNonVoid(f, allowAny) ==
    IF (IsNullishOrAny(f.type) /\ f.type # {NoFunction("any")}) \/ AllowedReturn(f.type, allowAny) THEN {}
    ELSE IF f.written = "other" THEN (IF CallSignatures(f.type) = {} THEN {} ELSE {<<"function", {}>>})
    ELSE IF f.written = "generator" THEN {<<"function", {}>>}
    ELSE IF f.async THEN {<<"async", {}>>}
    ELSE IF f.annotation \notin {{}, {"void"}} THEN {<<"function", {}>>}
    ELSE ReturnsLost(f, allowAny)

-----------------------------------------------------------------------------
(* The places: those that ask what the checker expects of an expression,   *)
(* arguments, and members of classes and of object literals.               *)
CheckedPlaces == {"variable", "assignment", "return", "element", "property", "arrow body", "field", "attribute"}
CheckExpression(n) ==
    IF n.place \in CheckedPlaces /\ ~(n.place = "attribute" /\ n.function.identifier) /\ IsVoidFunction(n.expected)
      THEN ReportIfNonVoid(n.function, n.allowAny) ELSE {}

(* What every signature of the callee expects at the argument, and what    *)
(* the one that is chosen does.                                            *)
ArgReturns(n) == UNION UNION {UNION {m.results : m \in p} : p \in n.overloads}
AllVoidLike(members) == members \subseteq NullishOrAny \cup {"T"}
VisitArgument(n) ==
    LET returns == ArgReturns(n)
    IN  IF /\ Cardinality(n.overloads) = 1 \/ (returns # {} /\ AllVoidLike(returns))
           /\ IsVoidFunction(n.expected)
          THEN ReportIfNonVoid(n.function, n.allowAny)
        ELSE IF "void" \in returns /\ returns \subseteq NullishOrAny THEN ReportIfNonVoid(n.function, n.allowAny)
        ELSE {}

(* A method, by its annotation or by what the base class, an interface or  *)
(* the literal's context has under its name: the first signature of it.    *)
MethodIsVoid(n) ==
    \/ n.function.annotation = {"void"}
    \/ n.in = "object" /\ IsVoidFunction(n.expected)
    \/ n.in = "class" /\ n.inherited # <<>> /\ AllVoid(n.inherited[1])
VisitMethod(n) ==
    IF ~MethodIsVoid(n) THEN {}
    ELSE IF n.function.written = "generator" THEN {<<"function", {}>>}
    ELSE IF n.function.async THEN {<<"async", {}>>}
    ELSE ReturnsLost(n.function, n.allowAny)

(* A getter's values, where the inherited property is a void function.     *)
VisitGetter(n) == IF IsVoidFunction(n.expected) THEN UNION {ReportIfNonVoid(f, n.allowAny) : f \in n.functions} ELSE {}
(* A field without an annotation, by the inherited property.               *)
VisitField(n) == IF ~n.annotated /\ IsVoidFunction(n.expected) THEN ReportIfNonVoid(n.function, n.allowAny) ELSE {}

VisitVoidReturn(n) ==
    IF n.place = "argument" THEN VisitArgument(n)
    ELSE IF n.place = "method" THEN VisitMethod(n)
    ELSE IF n.place = "getter" THEN VisitGetter(n)
    ELSE IF n.place = "inherited field" THEN VisitField(n)
    ELSE CheckExpression(n)

-----------------------------------------------------------------------------
(* A function loses a value when one of its calls may end with something   *)
(* other than undefined.                                                   *)
MayLose(f, allowAny) ==
    \E m \in f.type : \E r \in m.results : Lost(r, allowAny)
Unlooked == {"shorthand", "parameter default", "inherited field"}

(* A reported function loses a value where nobody asks for one: a void     *)
(* function is expected.  Known: an argument is also reported where one    *)
(* overload wants void and the others take a result of any type.           *)
ReportedValuesAreLost ==
    Visited(VoidReturnId) /\ node.place \notin {"method", "getter"} /\ reports # {} =>
        /\ MayLose(node.function, node.allowAny)
        /\ \/ IsVoidFunction(node.expected)
           \/ node.place = "argument" /\ "void" \in ArgReturns(node) /\ ArgReturns(node) \subseteq NullishOrAny

(* What loses a value is reported where a void function is expected.       *)
(* Known: a type that may be something else than a function passes, as do  *)
(* identifiers in JSX, shorthand properties, defaults of parameters, and   *)
(* arguments for which some overload wants a value.                        *)
LostValuesAreReported ==
    /\ Visited(VoidReturnId) /\ node.place \notin {"method", "getter"} /\ IsVoidFunction(node.expected)
    /\ MayLose(node.function, node.allowAny) /\ reports = {}
    =>      \/ CallSignatures(node.function.type) = {}
            \/ node.place \in Unlooked \/ (node.place = "attribute" /\ node.function.identifier)
            \/ node.place = "argument" /\ ~AllVoidLike(ArgReturns(node)) /\ Cardinality(node.overloads) > 1

(* A method is judged by every signature it inherits.  Known: only the     *)
(* first of them is looked at, and a static method is compared with the    *)
(* base class's instances.                                                 *)
MethodsAreJudged ==
    Visited(VoidReturnId) /\ node.place = "method" /\ node.in = "class" /\ node.function.annotation = {} =>
        LET void == {i \in DOMAIN node.inherited : AllVoid(node.inherited[i])}
            loses == node.function.async \/ node.function.written = "generator" \/ ReturnsLost(node.function, node.allowAny) # {}
        IN  /\ reports # {} => loses /\ (void = DOMAIN node.inherited \/ 1 \in void)
            /\ (loses /\ void = DOMAIN node.inherited /\ void # {}) => reports # {}

(* The rule's promise: where a void function is wanted no result is lost   *)
(* unseen, and nothing else is reported.                                   *)
ResultsAreNotLost == ReportedValuesAreLost /\ LostValuesAreReported /\ MethodsAreJudged

-----------------------------------------------------------------------------
(* The nodes that a program can contain.  The expression of a function has *)
(* one signature, whose result is what it is annotated with or else comes  *)
(* from its values and the ends it may run into; a generator's and an      *)
(* asynchronous function's are objects.  An argument is expected by one of *)
(* the overloads.                                                          *)
IsFunctionExpression(f) ==
    \E m \in f.type : \E r \in m.results :
        /\ f.type = {m} /\ m.results = {r} /\ f.written \in {"function", "generator"}
        /\ (f.written = "function" /\ ~f.async) =>
              IF f.annotation = {} THEN r \subseteq {"void"} \cup UNION f.values ELSE r = f.annotation
OverloadsAreTypes(n) ==
    /\ IsFiniteSet(n.overloads) /\ n.expected \in n.overloads
    /\ \A p \in n.overloads : \A m \in p : {} \notin m.results
IsVoidPlace(n) ==
    /\ n.place \in CheckedPlaces \cup Unlooked \cup {"argument", "method", "getter"}
    /\ n.place \notin {"method", "getter"} => n.function.written = "other" \/ IsFunctionExpression(n.function)
    /\ n.place = "argument" => OverloadsAreTypes(n)
    /\ n.place = "method" => n.inherited \in Seq(SUBSET STRING)

(* The engine dispatches the rule on any number of them.                   *)
VoidSpec(nodes) == Start(VoidReturnId, nodes) /\ [][Dispatch(VoidReturnId, VisitVoidReturn)]_vars
=============================================================================
