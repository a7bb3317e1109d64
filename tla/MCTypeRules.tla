----------------------------- MODULE MCTypeRules -----------------------------
EXTENDS UnnecessaryCondition, TestedValues, Promises, Assertions, AnyFlow,
    AsyncFunctions, VoidReturns, StringSearch, TypeParameters, Deprecated,
    ClassMembers, Operands

-----------------------------------------------------------------------------
(* no-unnecessary-condition                                                *)
Object == {"object"}
OrUndefined == {"object", "undefined"}
OrNull == {"object", "null"}
Singles == {{m} : m \in DOMAIN Constraint \cup DOMAIN Brands \cup LiteralMembers
            \cup {"any", "unknown", "void", "null", "undefined", "string", "number", "bigint", "object", "symbol", "{}", "T", "K", "T&{}"}}
    \cup {{}, Boolean}
Unions == Singles \cup {s \cup n : s \in {Object, {"string"}, {"''"}, {"'a'"}, {"T"}, Boolean, {"0"}},
                                  n \in {{"null"}, {"undefined"}, {"null", "undefined"}, {"1"}, {"false"}}}
FewTypes == {Object, {"null"}, Boolean, {"string"}, {}, OrUndefined}
Leaves(S) == {Read(t, "none") : t \in S}
Accesses == {Read(t, a) : t \in FewTypes, a \in {"arrayElement", "tupleElement", "elementProperty", "tupleLiteral", "recordElement", "chain", "literal"}}
    \cup {Read({"true"}, "literal"), Read({"0"}, "literal")}
V == Read(Object, "none")
B == Read(Boolean, "none")
Joined(k, S, R) == {Expr(o, <<a, b>>) : o \in k, a \in S, b \in R}
Prefixed(S) == {Expr(k, <<a>>) : k \in {"!", "paren"}, a \in S}
Operands == Joined({"&&", "||", "??", "&&=", "||=", "??="}, Leaves(Unions) \cup Accesses, {B, V})
Once == Leaves(FewTypes) \cup Joined({"&&", "||", "??"}, Leaves(FewTypes), Leaves(FewTypes)) \cup Prefixed(Leaves(FewTypes))
    \cup {Expr("cond", <<B, a, B>>) : a \in Leaves(FewTypes)}
Twice == Once \cup Joined({"&&", "||"}, Once, {B, V}) \cup Joined({"&&", "||"}, {B, V}, Once) \cup Prefixed(Once)
    \cup {Expr("cond", <<a, V, B>>) : a \in Once} \cup {Expr("cond", <<B, V, a>>) : a \in Once}
Opts(d, l, u) == [disabled |-> d, loops |-> l, unchecked |-> u]
Condition(t, o) == [handler |-> "conditions", tree |-> t, opts |-> o]
Conditions ==
    {Condition(Expr("if", <<e>>), Opts(FALSE, "never", FALSE)) : e \in Twice \cup Operands \cup Leaves(Unions) \cup Accesses}
    \cup {Condition(e, Opts(FALSE, "never", FALSE)) : e \in Twice \cup Operands}
    \cup {Condition(Expr(k, <<e>>), Opts(d, m, FALSE)) :
            k \in {"if", "while"}, d \in BOOLEAN, m \in {"never", "always", "only-allowed-literals"}, e \in Leaves(FewTypes) \cup Accesses}
    \cup {Condition(e, Opts(FALSE, "never", TRUE)) : e \in {x \in Operands : x.kind \in {"??", "??="}}}
Compared == Leaves(Singles) \cup Accesses \cup {Expr("paren", <<a>>) : a \in Accesses}
Comparisons == {[handler |-> "comparison", op |-> o, left |-> l, right |-> r] :
                    o \in {"==", "===", "case", "<"}, l \in Compared, r \in Leaves(Singles)}
Callbacks == {[handler |-> "callback", receiver |-> r, callback |-> c, returns |-> t] :
                    r \in {"array", "other"}, c \in {"arrow", "name", "other"}, t \in Unions}
Asserts == {[handler |-> "assertion", checkTypePredicates |-> c, asserts |-> a, narrowed |-> n, arg |-> t] :
                    c, a \in BOOLEAN, n \in {{}, {"string"}, {"'a'"}, {"string", "number"}}, t \in Unions}
Link(k, o, p, s, i) == [kind |-> k, opt |-> o, props |-> p, source |-> s, index |-> i]
Props == {<<Object>>, <<OrUndefined>>, <<OrNull>>, <<{"any"}>>, <<Object, OrUndefined>>, <<Object, OrNull>>}
Links == {Link("prop", o, p, s, "none") : o \in BOOLEAN, p \in Props, s \in {"object", "record"}}
    \cup {Link("call", o, p, "object", "none") : o \in BOOLEAN, p \in Props}
    \cup {Link("elem", o, p, s, i) : o \in BOOLEAN, p \in Props, s \in {"array", "tuple"}, i \in {"number", "other"}}
    \cup {Link("elem", o, p, s, "string") : o \in BOOLEAN, p \in Props, s \in {"object", "record"}}
LastLinks == {Link("prop", TRUE, <<Object>>, "object", "none"), Link("call", TRUE, <<Object>>, "object", "none")}
WellTyped(c) == \A i \in DOMAIN c.links : c.links[i].opt \/ Declared(c, i - 1) \cap {"null", "undefined", "void", "T"} = {}
Roots == {Object, OrUndefined, {"any"}, {"T"}, {"void"}, {"object", "void"}, {"unknown"}, {"T<object>"}, {"T<undefined>"}}
Chain(r, links, u) == [handler |-> "chain", root |-> r, links |-> links, unchecked |-> u]
Chains == {c \in {Chain(r, <<l, e>>, u) : r \in Roots, l \in Links, e \in LastLinks, u \in BOOLEAN}
                  \cup {Chain(OrUndefined, <<l, k, e>>, u) : l, k \in Links, e \in LastLinks, u \in BOOLEAN} : WellTyped(c)}
-----------------------------------------------------------------------------
(* strict-boolean-expressions and prefer-nullish-coalescing                *)
Default == {"string", "number", "nullableObject"}
TestOptions == {{}, Default, Default \cup {"nullableBoolean", "nullableString", "any"}, {"runWithoutStrictNullChecks"}}
WideTypes == Unions \cup {{"E.Zero", "E.One"}, {"E.Zero", "null"}, {"string", "number"}, {"true", "false", "string"}, {"bigint", "1n"}, {"object", "null", "0"}}
TestTrees == {Expr("if", <<e>>) : e \in Once} \cup Twice
StrictBooleans ==
    {[handler |-> "tests", tree |-> t, opts |-> Default] : t \in TestTrees}
    \cup {[handler |-> "tests", tree |-> Expr("if", <<Read(t, "none")>>), opts |-> o] : t \in WideTypes, o \in TestOptions}
Signatures == {[param |-> p, narrows |-> n] : p \in 0..2, n \in BOOLEAN}
Args == {<<>>, <<{"string"}>>, <<{"spread"}, {"object"}>>, <<Boolean, {"string", "null"}>>}
Assertions ==
    {[handler |-> "assertion", signatures |-> s, args |-> a, opts |-> o] :
        s \in {<<>>} \cup {<<x>> : x \in Signatures} \cup {<<x, y>> : x, y \in Signatures}, a \in Args, o \in TestOptions}
    \cup {[handler |-> "callback", annotation |-> a, overloads |-> v, returns |-> r, opts |-> o] :
        a \in {{"none"}, {"string"}, Boolean}, v \in {<<>>, <<Boolean>>, <<{"true"}, {"string"}>>}, r \in {{"string"}, {"any"}, Boolean}, o \in TestOptions}

PositionOptions == {{}, {"ignoreConditionalTests"}, {"ignoreCoercion"}, {"ignoreConditionalTests", "ignoreCoercion"}, {"ignoreMixed"}, {"ignoreString"}}
Or == Expr("||", <<Read({"string", "undefined"}, "none"), Read({"string"}, "none")>>)
Around(S) == {Expr(k, <<e>>) : k \in {"!", "paren", "Boolean", "-x"}, e \in S}
    \cup {Expr(k, <<e, B>>) : k \in {"&&", "||", "??", ","}, e \in S} \cup {Expr(k, <<B, e>>) : k \in {"&&", "??", ","}, e \in S}
    \cup {Expr("cond", <<e, V, V>>) : e \in S} \cup {Expr("cond", <<B, e, V>>) : e \in S}
Nested == {Or} \cup Around({Or}) \cup Around(Around({Or}))
Ors == {[handler |-> "or", tree |-> t, opts |-> o] : t \in Nested \cup {Expr(k, <<e>>) : k \in {"if", "while"}, e \in Nested}, o \in PositionOptions}
    \cup {[handler |-> "or", tree |-> Expr(k, <<Read(t, "none"), V>>), opts |-> o] : k \in {"||", "||="}, t \in WideTypes, o \in PositionOptions}
Compare == {[subject |-> s, op |-> o, nullish |-> n] : s \in {"a", "b"}, o \in {"===", "==", "!==", "!="}, n \in {"null", "undefined"}}
Guards == {[form |-> "one", left |-> c] : c \in Compare}
    \cup {[form |-> "two", join |-> j, left |-> c, right |-> d] : j \in {"&&", "||"}, c \in {k \in Compare : k.subject = "a"}, d \in Compare}
    \cup {[form |-> f, subject |-> "a", calls |-> c] : f \in {"bare", "not"}, c \in BOOLEAN}
GuardTypes == {{"string", "null"}, {"string", "undefined"}, {"string", "null", "undefined"}, {"string"}, {"null"}, {"null", "undefined"}, {"any"}, {"string", "void"}}
Ternaries == {[handler |-> "ternary", guard |-> g, then |-> p, otherwise |-> q, types |-> [s \in {"a", "b"} |-> t], opts |-> o] :
        g \in Guards, p, q \in {"a", "b"}, t \in GuardTypes, o \in {{}, {"ignoreString"}}}
    \cup {[handler |-> "if", guard |-> g, target |-> p, types |-> [s \in {"a", "b"} |-> t], opts |-> o] :
        g \in Guards, p \in {"a", "b"}, t \in GuardTypes, o \in {{}, {"ignoreIfs"}}}

-----------------------------------------------------------------------------
(* no-floating-promises, await-thenable and no-misused-promises            *)
P == {"promise"}
Awaitables == {P, {"thenable"}, {"safe"}, {"number"}, {"promise", "number"}, {"promise", "safe"}, {"T"}, {"any"}}
    \cup {{m} : m \in DOMAIN Elements \cup DOMAIN PromiseConstraint}
Sources == {Read(t, "none") : t \in Awaitables} \cup {[kind |-> "call", subs |-> <<>>, type |-> P, callee |-> c] : c \in {"function", "safe", "other"}}
FewSources == {Read(t, "none") : t \in {P, {"number"}, {"[promise]"}, {"safe"}}}
Handlers == {{}, {"f:void"}, {"undefined"}, {"f:number", "undefined"}}
Chained(S) == {[kind |-> k, subs |-> <<e>>, onRejected |-> h, spread |-> s] : k \in {"catch", "then", "finally"}, e \in S, h \in Handlers, s \in BOOLEAN}
Wrapped(S) == {Expr(k, <<e>>) : k \in {"paren", "void", "await"}, e \in S}
Operated(S, R) == {Expr(k, <<e, f>>) : k \in {",", "=", "&&", "||", "??"}, e \in S, f \in R}
    \cup {Expr("cond", <<Read({"number"}, "none"), e, f>>) : e \in S, f \in R}
Catching == {[kind |-> "catch", subs |-> <<Read(P, "none")>>, onRejected |-> {"f:void"}, spread |-> FALSE],
             [kind |-> "finally", subs |-> <<Read(P, "none")>>, onRejected |-> {"f:void"}, spread |-> FALSE]}
Simple == FewSources \cup Catching \cup Wrapped(FewSources) \cup Operated(FewSources, FewSources)
Statements == Sources \cup Chained(Sources) \cup Wrapped(Sources \cup Chained(FewSources)) \cup Simple
    \cup Operated(Simple, FewSources) \cup Operated(FewSources, Simple) \cup Wrapped(Simple) \cup Chained(Simple \ Operated(FewSources, FewSources))
FloatingOptions == {{}, {"ignoreVoid"}, {"ignoreIIFE", "safeCalls"}, {"checkThenables"}, {"safePromises", "ignoreVoid"}}
Floating == {[expr |-> e, opts |-> o] : e \in Statements, o \in FloatingOptions}

AwaitTypes == Awaitables \cup {{"unknown"}, {"promise", "T"}, {"number", "any"}, {"T", "number"}, {"T<number>", "promise"}}
LiteralElements == {[type |-> t, spread |-> s] : t \in AwaitTypes, s \in BOOLEAN} \cup {[type |-> {}, spread |-> FALSE]}
Awaits == {[handler |-> "await", type |-> t] : t \in AwaitTypes}
    \cup {[handler |-> h, type |-> t] : h \in {"for await", "await using"}, t \in AwaitTypes \cup {{"asyncIterable"}, {"asyncDisposable"}, {"asyncDisposable", "null"}}}
    \cup {[handler |-> "aggregator", literal |-> FALSE, type |-> t] : t \in AwaitTypes}
    \cup {[handler |-> "aggregator", literal |-> TRUE, elements |-> <<e, f>>] : e, f \in LiteralElements}

Functions == {{m} : m \in DOMAIN Returns} \cup {{"f:void", "undefined"}, {"f:void", "f:promise"}, {"f:promise", "null"}, {"number"}, {"f:void", "number"}}
MisusedOptions == {{}, {"conditionals", "spreads"}, {"voidReturn", "arguments"}, {"voidReturn", "variables", "properties", "attributes", "returns", "inheritedMethods", "arguments"}}
AllMisused == {"voidReturn", "arguments"}
Parameters == {{"f:void"}, {"f:promise"}, {"f:void,promise"}, {"f:void", "undefined"}, {"number"}}
OverloadSignatures == {[params |-> <<p>>, rest |-> "no"] : p \in Parameters}
    \cup {[params |-> <<p, <<q>>>>, rest |-> "array"] : p, q \in {{"f:void"}, {"f:promise"}}}
    \cup {[params |-> <<p, <<q, {"f:void"}>>>>, rest |-> "tuple"] : p, q \in {{"f:void"}, {"f:promise"}}}
Misused == {[handler |-> "call", args |-> <<a, b>>, signatures |-> {s, u}, contextual |-> <<c, {}>>, arrayPredicate |-> q, promiseFinally |-> FALSE, opts |-> AllMisused] :
            a, b \in {{"f:promise"}, {"f:number"}, {"f:void", "f:promise"}, {"f:void,promise"}}, s, u \in OverloadSignatures, c \in {{}, {"f:promise"}, {"f:void"}}, q \in BOOLEAN}
    \cup {[handler |-> "call", args |-> <<a>>, signatures |-> {s}, contextual |-> <<{}>>, arrayPredicate |-> q, promiseFinally |-> f, opts |-> o] :
            a \in Functions, s \in OverloadSignatures, q, f \in BOOLEAN, o \in MisusedOptions}
    \cup {[handler |-> "place", place |-> p, type |-> t, expected |-> e, opts |-> o] : p \in DOMAIN PlaceOption, t, e \in Functions, o \in MisusedOptions}
    \cup {[handler |-> "member", inClass |-> c, static |-> s, type |-> t, declared |-> <<d, e>>, opts |-> o] : c, s \in BOOLEAN, t, d \in Functions, e \in {{"f:void"}, {}}, o \in MisusedOptions}
    \cup {[handler |-> "spread", type |-> t, opts |-> o] : t \in Awaitables, o \in MisusedOptions}
TestLeaves == {Read(t, "none") : t \in {P, {"promise", "number"}, {"number"}, {"safe", "promise"}}}
Conjoined(S) == {Expr(k, <<e, f>>) : k \in {"&&", "||", "??"}, e \in S, f \in TestLeaves} \cup {Expr(k, <<e>>) : k \in {"!", "paren"}, e \in S}
    \cup {Expr("cond", <<e, f, f>>) : e \in S, f \in TestLeaves}
PromiseTests == {[handler |-> "tests", tree |-> t, opts |-> {"conditionals"}] : t \in Conjoined(Conjoined(TestLeaves)) \cup {Expr(k, <<e>>) : k \in {"if", "while"}, e \in Conjoined(TestLeaves) \cup Conjoined(Conjoined(TestLeaves))}}

-----------------------------------------------------------------------------
(* no-unnecessary-type-assertion                                           *)
Place(k, e) == [kind |-> k, expected |-> e, overloads |-> <<>>, generic |-> FALSE, unionObject |-> FALSE, satisfies |-> FALSE]
AssertedTypes == {{"string"}, {"'a'"}, {"string", "null"}, {"string", "undefined"}, {"'a'", "null"}, {"null"}, {"undefined"}, {"void"}, {"any"}, {"unknown"}, {"string", "number"}, {"fn"},
    {"T<string>"}, {"T<undefined>"}, {"T<string>&{}"}, {"[any]"}, {"[string]"}} \cup {{s} : s \in DOMAIN Shapes}
Expectations == {{}, {"string"}, {"'a'"}, {"string", "null"}, {"any"}, {"unknown"}, {"[any]"}, {"{p}"}, {"{f<T>}"}, {"string", "number"}}
Free == {"none", "spread", "destructuring"}
PlaceKinds == LogicalAssignment \cup {"satisfies", "cast", "??", "const", "let", "=", "= in an expression", "return", "array element", "mutable field", "readonly field"}
ArgumentPlaces ==
    {[Place("argument", e) EXCEPT !.overloads = o, !.generic = g] : e \in Expectations \ {{}}, g \in BOOLEAN,
        o \in {<<<<{"string"}>>, <<{"number"}>>>>, <<<<{"string"}>>, <<{"string", "number"}>>>>, <<<<{"string"}>>, <<>>>>}}
    \cup {[Place("argument", e) EXCEPT !.overloads = <<<<e>>>>, !.generic = g] : e \in Expectations \ {{}}, g \in BOOLEAN}
PropertyPlaces == {[Place("property", e) EXCEPT !.generic = g, !.unionObject = u, !.satisfies = s] : e \in Expectations, g, u, s \in BOOLEAN}
AssertedPlaces == {Place(k, {}) : k \in Free} \cup {Place(k, e) : k \in PlaceKinds, e \in Expectations} \cup ArgumentPlaces \cup PropertyPlaces
AssertedSources == {[source |-> "variable", type |-> t] : t \in AssertedTypes \cup {{"void"}}} \cup {[source |-> "literal", type |-> {"'a'"}], [source |-> "null", type |-> {"null"}],
    [source |-> "undefined", type |-> {"undefined"}], [source |-> "IIFE", type |-> {"undefined"}], [source |-> "array", type |-> {"[string]"}]}
    \cup {[source |-> "object literal", type |-> {s}] : s \in DOMAIN Shapes}
Casts == {<<>>, <<{"any"}>>, <<{"any"}, {"unknown"}>>, <<{"unknown"}, {"string"}>>, <<{"string"}>>}

Asserted(s, p, t, c, i) ==
    [nonNull |-> FALSE, source |-> s.source, type |-> s.type, casts |-> c, target |-> t, ignored |-> i, properties |-> s.type # {"{}"},
     constType |-> {}, checkConst |-> FALSE, place |-> p]
AsConst(s, p) == [Asserted(s, p, {"const"}, <<>>, FALSE) EXCEPT !.checkConst = TRUE, !.constType = IF s.source = "array" THEN {"[string]"} ELSE s.type]
NonNull(t, p, v) == [nonNull |-> TRUE, source |-> "variable", casts |-> <<>>, type |-> t, place |-> p, variable |-> v]
Variables == {[blockEnded |-> FALSE, initialized |-> TRUE, annotated |-> TRUE, narrowed |-> FALSE, definite |-> FALSE]}
    \cup {[blockEnded |-> b, initialized |-> FALSE, annotated |-> a, narrowed |-> n, definite |-> d] : b, a, n, d \in BOOLEAN}

AssertionsStart ==
    \/ \E s \in AssertedSources, p \in AssertedPlaces :
          Start(AssertionId, {Asserted(s, p, t, <<>>, FALSE) : t \in AssertedTypes})
    \/ \E s \in AssertedSources, c \in Casts, e \in {{}, {"string"}, {"'a'"}}, k \in {"const", "let", "return"} :
          Start(AssertionId, {Asserted(s, Place(k, e), t, c, i) : t \in AssertedTypes, i \in BOOLEAN})
    \/ \E s \in AssertedSources, k \in PlaceKinds \cup Free \cup {"property"} : Start(AssertionId, {AsConst(s, Place(k, {}))})
    \/ \E t \in AssertedTypes, p \in AssertedPlaces : Start(AssertionId, {NonNull(t, p, v) : v \in {u \in Variables : u.initialized}})
    \/ \E t \in AssertedTypes, k \in Free \cup {"left of ="} : Start(AssertionId, {NonNull(t, Place(k, {}), v) : v \in Variables})
AssertionsInit == AssertionsStart /\ IsAssertion(node)
AssertionsNext == Dispatch(AssertionId, VisitTypeAssertion)

-----------------------------------------------------------------------------
(* no-unsafe-*                                                             *)
Unknown == Ty("unknown", <<>>)
StringType == Ty("string", <<>>)
Atoms == {AnyType, Unknown, StringType}
UnionOf(a, b) == Ty("union", <<a, b>>)
OneDeep == Atoms \cup {Ty(g, <<a>>) : g \in Generics, a \in Atoms} \cup {Ty("tuple", <<a>>) : a \in Atoms} \cup {Ty("object", <<a>>) : a \in Atoms}
TwoDeep == OneDeep \cup {Ty(g, <<a>>) : g \in {"Set", "Array", "Promise"}, a \in OneDeep}
    \cup {UnionOf(StringType, a) : a \in OneDeep \ Atoms} \cup {Ty("tuple", <<StringType, a>>) : a \in OneDeep}

Name == [kind |-> "name", elems |-> <<>>]
PatternElem(f, k, p) == [form |-> f, key |-> k, pattern |-> p]
ArrayPatterns(inner) ==
    {[kind |-> "array", elems |-> <<PatternElem(f, 1, p)>>] : f \in {"plain", "default", "rest"}, p \in inner}
    \cup {[kind |-> "array", elems |-> <<PatternElem(f, 1, Name), PatternElem(g, 2, p)>>] : f \in {"plain", "hole"}, g \in {"plain", "default"}, p \in inner}
ObjectPatterns(inner) ==
    {[kind |-> "object", elems |-> <<PatternElem(f, k, p)>>] : f \in {"plain", "default"}, k \in 0..2, p \in inner}
    \cup {[kind |-> "object", elems |-> <<PatternElem("plain", 1, p), PatternElem("plain", 2, Name)>>] : p \in inner}
Flat == {Name} \cup ArrayPatterns({Name}) \cup ObjectPatterns({Name})
Patterns == ArrayPatterns(Flat) \cup ObjectPatterns(Flat)
Destructured == Atoms \cup {Ty("Array", <<a>>) : a \in OneDeep}
    \cup {Ty(k, <<a, b>>) : k \in {"tuple", "object"}, a \in OneDeep, b \in Atoms} \cup {Ty("tuple", <<StringType, a>>) : a \in OneDeep}
PatternSubjects(p) ==
    {[in |-> "pattern", pattern |-> p, source |-> s, declared |-> d, keyword |-> FALSE, target |-> t] :
        s \in Destructured, d \in {NoType, Unknown}, t \in BOOLEAN}
CheckSubjects(s) ==
    {[in |-> i, pattern |-> Name, source |-> s, declared |-> d, keyword |-> k, target |-> FALSE] :
        i \in {"declaration", "property", "assignment pattern", "array spread"}, d \in TwoDeep \cup {NoType}, k \in BOOLEAN}

Fn(k, d, a) == [kind |-> k, declared |-> d, async |-> a]
Declarations == Atoms \cup {NoType} \cup {Ty(g, <<a>>) : g \in {"Set", "Promise"}, a \in Atoms}
FnKinds == {"function", "arrow", "method", "get", "constructor"}
Stacks == {<<Fn(k, d, a)>> : k \in FnKinds, d \in Declarations, a \in BOOLEAN}
    \cup {<<Fn(k, d, FALSE), Fn(j, e, a)>> : k \in FnKinds, j \in {"function", "get"}, d \in {NoType, StringType}, e \in Declarations, a \in BOOLEAN}
ReturnSubjects(s) == {[source |-> s, stack |-> k, keyword |-> w] : k \in Stacks, w \in BOOLEAN}

ArgTypes == Atoms \cup {Ty(k, <<a>>) : k \in {"Array", "Set", "tuple"}, a \in Atoms} \cup {Ty("tuple", <<a, b>>) : a, b \in {AnyType, StringType}}
ArgForms == {[form |-> f, type |-> t, keyword |-> k] : f \in {"plain", "spread"}, t \in ArgTypes, k \in BOOLEAN}
Spreadable(a) == a.form = "spread" => a.type.sym \in {"any", "Array", "tuple", "Set"}
Params == {<<>>, <<AnyType>>, <<StringType>>, <<Unknown, StringType>>, <<StringType, AnyType>>, <<Ty("Set", <<StringType>>)>>, <<StringType, Ty("Set", <<StringType>>)>>}
CallSubjects2(p, o) ==
    {[args |-> <<a, b>>, params |-> p, open |-> o] : a, b \in {x \in ArgForms : Spreadable(x)}}

ChainLink(t, o, a, i) == [receiver |-> t, optional |-> o, apart |-> a, index |-> i]
AccessLinks == {ChainLink(t, o, a, i) : t \in {AnyType, StringType}, o, a \in BOOLEAN, i \in {NoType, AnyType}}
ChainSubjects(a, b) == {[links |-> l, allowOptional |-> w] : w \in BOOLEAN,
    l \in {x \in {<<a, b, c>> : c \in AccessLinks} \cup {<<a, b, c, d>> : c, d \in AccessLinks} :
            ~x[1].apart /\ \A i \in 2..Len(x) : x[i - 1].receiver = AnyType => x[i].receiver = AnyType}}

AnyFlowInit ==
    \/ \E p \in Patterns : Start(UnsafeAssignmentId, PatternSubjects(p))
    \/ \E s \in TwoDeep : Start(UnsafeAssignmentId, CheckSubjects(s)) \/ Start(UnsafeReturnId, ReturnSubjects(s))
    \/ \E p \in Params, o \in BOOLEAN : (o => p # <<>>) /\ Start(UnsafeArgumentId, CallSubjects2(p, o))
    \/ \E a, b \in AccessLinks : Start(UnsafeMemberId, ChainSubjects(a, b))
AnyFlowNext ==
    \/ Dispatch(UnsafeAssignmentId, VisitUnsafeAssignment)
    \/ Dispatch(UnsafeReturnId, VisitUnsafeReturn)
    \/ Dispatch(UnsafeArgumentId, VisitUnsafeArguments)
    \/ Dispatch(UnsafeMemberId, VisitUnsafeMembers)

-----------------------------------------------------------------------------
(* return-await, require-await and executors of promises                   *)
ReturnStep(k, f, u, a) == [kind |-> k, finally |-> f, using |-> u, async |-> a]
Plain(k) == ReturnStep(k, FALSE, FALSE, FALSE)
Inside == {Plain("try"), Plain("finally"), Plain("if")} \cup {ReturnStep("catch", f, FALSE, FALSE) : f \in BOOLEAN}
    \cup {ReturnStep(k, FALSE, u, FALSE) : k \in {"block", "for", "case clause"}, u \in BOOLEAN}
Boundaries == {ReturnStep(k, FALSE, FALSE, a) : k \in Owners, a \in BOOLEAN}
Endings == {<<b>> : b \in Boundaries} \cup {<<Plain("accessor"), b>> : b \in Boundaries} \cup {<<b, Plain("try"), ReturnStep("function", FALSE, FALSE, TRUE)>> : b \in Boundaries}
ReturnPaths == {<<>>} \cup {<<a>> : a \in Inside} \cup {<<a, b>> : a, b \in Inside}
Returned(types, via) == {[type |-> t, awaited |-> a, via |-> via] : a \in BOOLEAN, t \in types}
Few(via) == Returned({"promise", "number"}, via)
ReturnTest == [type |-> "number", awaited |-> TRUE, via |-> <<"?: test">>]
FewReturned == {{e} : e \in Few(<<>>)}
ReturnedSets == {{e} : e \in Returned({"promise", "thenable", "T<promise>", "any", "T", "number"}, <<>>)}
    \cup {{ReturnTest, a, b} : a \in Few(<<"?: then">>), b \in Few(<<"?: else">>)} \cup {{e} : e \in Few(<<"paren">>)}
Modes == {"in-try-catch", "always", "never", "error-handling-correctness-only"}

Item(k, t, p) == [kind |-> k, type |-> t, place |-> p]
ItemPlaces == {"body", "nested function", "accessor"}
Items == {Item(k, "number", p) : k \in {"await", "for await", "await using"}, p \in {"body", "nested function"}} \cup {Item("await", "number", "computed name")}
    \cup {Item("yield", t, p) : t \in {"number", "promise", "promise or number"}, p \in {"body", "nested function"}}
    \cup {Item("yield*", t, p) : t \in {"number", "async iterable", "any declared async iterable", "any call of async iterable"}, p \in {"body", "nested function"}}
    \cup {Item("return", t, p) : t \in {"number", "promise", "promise or number", "nothing"}, p \in ItemPlaces}
Bodies == {{a, b} : a, b \in Items} \cup {{}}

Scopes == {[kind |-> k, does |-> d] : k \in ScopeNodes, d \in {"nothing", "variable", "function", "class", "pattern", "pattern key", "initializer"}}
    \cup {[kind |-> "source file", does |-> d] : d \in {"import", "imported as another", "enum"}}
    \cup {[kind |-> "function", does |-> d] : d \in {"parameter", "parameter default", "own name", "nested var"}}
    \cup {[kind |-> "case clause", does |-> d] : d \in {"nothing", "variable"}}
ScopeLists == {<<>>} \cup {<<s>> : s \in Scopes} \cup {<<s, u>> : s, u \in Scopes}
Executors == {"arrow expression", "arrow", "function", "name", "none"}
ReturnItems == {i \in Items : i.kind = "return"}
NewPromise(s, e, t, b) == [scopes |-> s, executor |-> e, typeArgument |-> t, items |-> b]

RejectTypes == LET M == ErrorNames \cup DOMAIN Parts \cup DOMAIN Bound \cup {"string", "T"}
               IN  {{}, {"any"}, {"unknown"}} \cup {{a, b} : a, b \in M}
RejectReceivers == {"Promise", "own Promise", "PromiseConstructor", "subclass", "intersection", "union", "other"}
Rejection == [callee |-> "member", written |-> ".reject", receiver |-> "Promise", of |-> "none", index |-> 0, name |-> "", argument |-> TRUE, type |-> {"string"},
              allowsMine |-> FALSE, allowEmpty |-> FALSE, allowAny |-> FALSE, allowUnknown |-> FALSE]
Called == {[Rejection EXCEPT !.written = w, !.receiver = r] : w \in {".reject", "['reject']", "[template]"}, r \in RejectReceivers}
    \cup {[Rejection EXCEPT !.callee = "name", !.written = "", !.receiver = r, !.of = o, !.index = i, !.name = x] :
            r \in RejectReceivers, o \in {"new", "new ()", "other"}, i \in 1..3, x \in {"reject", "no"}}
Rejections(c) == {[c EXCEPT !.type = t, !.allowsMine = m] : t \in RejectTypes, m \in BOOLEAN}
    \cup {[c EXCEPT !.argument = a, !.type = t, !.allowEmpty = e, !.allowAny = y, !.allowUnknown = u] :
            a, e, y, u \in BOOLEAN, t \in {{"any"}, {"unknown"}, {"string"}, {"Error"}}}

AsyncNodes ==
    CASE rule = ReturnAwaitId -> IsReturn(node) [] rule = RequireAwaitId -> IsFunctionBody(node)
      [] rule = ExecutorReturnId -> IsNewPromise(node) [] rule = RejectErrorsId -> IsRejection(node)
AsyncStart ==
    \/ \E p \in ReturnPaths, e \in Endings : Start(ReturnAwaitId, {[path |-> p \o e, returned |-> r, mode |-> m] : r \in IF Len(p) = 2 THEN FewReturned ELSE ReturnedSets, m \in Modes})
    \/ Start(RequireAwaitId, {[async |-> a, items |-> b] : a \in BOOLEAN, b \in Bodies})
    \/ \E s \in ScopeLists : Start(ExecutorReturnId, {NewPromise(s, e, t, {}) : e \in Executors \ {"arrow", "function"}, t \in BOOLEAN}
                                                \cup {NewPromise(s, e, t, {i, j}) : e \in {"arrow", "function"}, t \in BOOLEAN, i \in ReturnItems, j \in IF Len(s) = 2 THEN {Item("return", "nothing", "body")} ELSE ReturnItems})
    \/ \E c \in Called : Start(RejectErrorsId, Rejections(c))
AsyncInit == AsyncStart /\ AsyncNodes

-----------------------------------------------------------------------------
(* strict-void-return                                                      *)
Results == {{"void"}, {"undefined"}, {"number"}, {"any"}, {"never"}, {"promise"}, {"void", "undefined"}, {"number", "undefined"}, {"void", "number"}, {"T"}}
FewResults == {{"void"}, {"number"}, {"any"}, {"T"}, {"unknown"}}
OneFunction == {{Callable({r})} : r \in Results}
VoidTypes == OneFunction \cup {{Callable({r, s})} : r, s \in FewResults} \cup {{Callable({r}), Callable({s})} : r, s \in FewResults}
    \cup {{Callable({r}), NoFunction(p)} : r \in FewResults, p \in {"undefined", "string"}} \cup {{NoFunction(p)} : p \in {"any", "undefined", "null", "string"}}

Written(w, t, a, v, s, i) == [written |-> w, type |-> t, annotation |-> a, values |-> v, async |-> s, identifier |-> i]
(* An inferred result is the union of what the function returns, and       *)
(* undefined or void where it may end without a value.                     *)
ReturnValues == {{}} \cup {{r} : r \in Results \ {{"never"}}} \cup {{r, s} : r, s \in {{"void"}, {"number"}, {"undefined"}, {"any"}, {"void", "undefined"}}}
Inferred(v) == IF v = {} THEN {"void"} ELSE UNION v
FunctionLiterals == {Written("function", {Callable({Inferred(v)})}, {}, v, FALSE, FALSE) : v \in ReturnValues}
    \cup {Written("function", {Callable({a})}, a, v, FALSE, FALSE) : a \in {{"void"}, {"number"}, {"undefined"}, {"void", "number"}}, v \in {{}, {{"undefined"}}}}
    \cup {Written("function", {Callable({{"promise"}})}, {}, v, TRUE, FALSE) : v \in {{}, {{"number"}}}}
    \cup {Written("generator", {Callable({{"generator"}})}, {}, v, FALSE, FALSE) : v \in {{}, {{"number"}}}}
VoidSubjects == FunctionLiterals \cup {Written("other", t, {}, {}, FALSE, i) : t \in VoidTypes, i \in BOOLEAN}

AtPlace(p, f, e, a) == [place |-> p, function |-> f, expected |-> e, allowAny |-> a]
OverloadSets == {{p} : p \in VoidTypes} \cup {{p, q} : p, q \in OneFunction \cup {{NoFunction("string")}}}
ArgumentAt(o, f, a) == {[AtPlace("argument", f, e, a) EXCEPT !.place = "argument"] @@ [overloads |-> o] : e \in o}
MethodSubjects(i) ==
    {[place |-> "method", in |-> "class", function |-> f, inherited |-> i, expected |-> {}, allowAny |-> a] : f \in FunctionLiterals, a \in BOOLEAN}
Inherited == {<<>>} \cup {<<r>> : r \in Results} \cup {<<r, s>> : r, s \in Results}

VoidStart ==
    \/ \E p \in CheckedPlaces \cup Unlooked, e \in VoidTypes :
          Start(VoidReturnId, {AtPlace(p, f, e, a) @@ [annotated |-> TRUE] : f \in VoidSubjects, a \in BOOLEAN})
    \/ \E e \in VoidTypes : Start(VoidReturnId, {AtPlace("inherited field", f, e, a) @@ [annotated |-> FALSE] : f \in VoidSubjects, a \in BOOLEAN})
    \/ \E o \in OverloadSets : Start(VoidReturnId, UNION {ArgumentAt(o, f, a) : f \in VoidSubjects, a \in BOOLEAN})
    \/ \E i \in Inherited : Start(VoidReturnId, MethodSubjects(i))
    \/ Start(VoidReturnId, {[place |-> "method", in |-> "object", function |-> f, inherited |-> <<>>, expected |-> e, allowAny |-> FALSE] : f \in FunctionLiterals, e \in VoidTypes})
    \/ Start(VoidReturnId, {[place |-> "getter", functions |-> {f, g}, expected |-> e, allowAny |-> FALSE] : f, g \in FunctionLiterals, e \in OneFunction})
VoidInit == VoidStart /\ IsVoidPlace(node)
VoidNext == Dispatch(VoidReturnId, VisitVoidReturn)

-----------------------------------------------------------------------------
(* prefer-string-starts-ends-with and prefer-includes                      *)
StringTypes == {{"string"}, {"'a'", "T<string>"}, {"string", "number"}}
NameS == StringName("s", {"string"})
NameT == StringName("t", {"string"})
SearchReceivers == {StringName("s", t) : t \in StringTypes} \cup {Call(StringName("u", {"string"}), "slice", <<Number(0)>>)}
Needles == {NameT, Text(<<>>), Text(<<"a">>), Text(<<"a", "A">>), StringName("t", {"number"})}
Sizes(r, x) == {Number(i) : i \in 0..2} \cup {LengthOf(r), LengthOf(x), LengthOf(StringName("u", {"string"}))}
Offsets(r, x) == Sizes(r, x) \cup {Signed(g, e) : g \in {"-", "+"}, e \in Sizes(r, x)} \cup {Difference(LengthOf(r), e) : e \in Sizes(r, x)}
    \cup {Difference(LengthOf(StringName("u", {"string"})), e) : e \in Sizes(r, x)}
SearchAccesses(r, x) ==
    {At(r, i) : i \in Offsets(r, x)} \cup {Call(r, "charAt", <<i>>) : i \in Offsets(r, x)}
    \cup {Call(r, m, <<i>>) : m \in Slicing, i \in Offsets(r, x)}
    \cup {Call(r, m, <<Number(0), j>>) : m \in Slicing, j \in Sizes(r, x)} \cup {Call(r, m, <<i, LengthOf(r)>>) : m \in Slicing, i \in Offsets(r, x)}
Comparing(l, r, o, a) == {[handler |-> "comparison", op |-> o, left |-> l, right |-> r, allowSingle |-> a],
                          [handler |-> "comparison", op |-> o, left |-> r, right |-> l, allowSingle |-> a]}
SearchComparisons(r, x) ==
    UNION ({Comparing(a, x, "===", FALSE) : a \in SearchAccesses(r, x)} \cup {Comparing(a, x, "!==", TRUE) : a \in {At(r, Number(0)), Call(r, "charAt", <<Number(0)>>)}}
           \cup {Comparing(Call(r, m, <<x>>), e, "==", FALSE) : m \in {"indexOf", "lastIndexOf"}, e \in Offsets(r, x) \cup {Difference(LengthOf(r), LengthOf(x))}})

PatternItems == {"a", "A", "^", "$", ".", "\\$", "\\n", "\\/"}
RegexSources == UNION {[1..k -> PatternItems] : k \in 1..3} \cup {<<>>}
PatternsOf(src) == {Regex(src, {}, w) : w \in {"literal", "new", "called"}} \cup {Regex(src, f, "literal") : f \in {{"i"}, {"m"}, {"y"}}}
Arguments == {<<NameT>>, <<Text(<<"a">>)>>, <<StringName("t", {"number"})>>, <<NameT, NameT>>}
RegexTests(src) == {[handler |-> "test", regex |-> e, args |-> a, variables |-> 0, declarations |-> 1] : e \in PatternsOf(src), a \in Arguments}
    \cup {[handler |-> "test", regex |-> Regex(src, {}, "literal"), args |-> <<NameT>>, variables |-> v, declarations |-> d] : v \in 1..5, d \in 1..2}
MatchNull(src) == UNION {Comparing(Call(NameS, "match", <<e>>), NullLiteral, "!==", FALSE) : e \in PatternsOf(src)}

SearchTypes == {{m} : m \in DOMAIN Declares} \cup {{"string", m} : m \in DOMAIN Declares}
IndexOfs == {[handler |-> "comparison", op |-> o, left |-> l, right |-> r] :
                o \in Equalities \cup {"<", ">", "<=", ">="},
                l \in {Call(StringName("s", t), m, a) : t \in SearchTypes, m \in {"indexOf", "lastIndexOf"}, a \in {<<NameT>>, <<NameT, Number(1)>>}},
                r \in {Number(i) : i \in 0..2} \cup {Signed(g, Number(i)) : g \in {"-", "+"}, i \in 0..2}}

SearchInit ==
    \/ \E r \in SearchReceivers, x \in Needles : Start(StartsEndsId, SearchComparisons(r, x))
    \/ \E src \in RegexSources : Start(StartsEndsId, RegexTests(src) \cup MatchNull(src)) \/ Start(IncludesId, RegexTests(src))
    \/ Start(IncludesId, IndexOfs \cup {[n EXCEPT !.left = n.right, !.right = n.left] : n \in IndexOfs})
SearchNext == Dispatch(StartsEndsId, VisitStartsEnds) \/ Dispatch(IncludesId, VisitIncludes)

-----------------------------------------------------------------------------
(* no-unnecessary-type-parameters                                          *)
StringTy == TypeNode("string", <<>>)
FlatTypes == {TypeT, StringTy}
FunctionTypes(S) == {TypeNode("function", <<a, b>>) : a, b \in S} \cup {TypeNode("generic function", <<TypeT, TypeT>>)}
Around1(S) == {TypeNode(k, <<t>>) : k \in {"ref", "array", "tuple", "literal"}, t \in S} \cup {TypeNode("readonly", <<TypeNode("array", <<t>>)>>) : t \in S}
    \cup {TypeNode("ref", <<t, StringTy>>) : t \in S}
    \cup {TypeNode(k, <<t, StringTy>>) : k \in {"union", "function", "indexed"}, t \in S}
ShallowTypes == FlatTypes \cup Around1({TypeT}) \cup FunctionTypes(FlatTypes) \cup {TypeNode("{TypeT}", <<StringTy>>)}
DeepTypes == ShallowTypes \cup Around1(Around1({TypeT}))
ParamTypes == FlatTypes \cup {TypeNode("array", <<TypeT>>), TypeNode("ref", <<TypeT>>), TypeNode("function", <<TypeT, StringTy>>)}

Exp(k, of, type, subs) == [kind |-> k, of |-> of, type |-> type, subs |-> subs]
Word == Exp("string", "", Absent, <<>>)
Par(p) == Exp("param", p, Absent, <<>>)
Leafs(ps) == {Word} \cup {Par(p) : p \in ps} \cup {Exp("shorthand", p, Absent, <<>>) : p \in ps}
    \cup {Exp(k, "", t, <<>>) : k \in {"call"}, t \in {TypeNode("ref", <<TypeT>>), TypeNode("ref", <<TypeT, TypeT>>), TypeNode("array", <<TypeT>>)}}
Compound(S) == {Exp(k, "", Absent, <<e>>) : k \in {"paren", "object", "object T", "spread", "array"}, e \in S}
    \cup {Exp("as", "", t, <<e>>) : t \in {TypeT, StringTy, TypeNode("function", <<TypeT, TypeT>>)}, e \in S}
    \cup {Exp(k, "", Absent, <<e, Word>>) : k \in {"cond", "object"}, e \in S}
    \cup {Exp("element", "", Absent, <<e, i>>) : e \in {x \in S : x.kind = "param"}, i \in {x \in S : x.kind \in {"param", "string"}}}
    \cup {Exp("arrow", "", TypeNode(f, <<a, r>>), <<e>>) : f \in {"function"}, a \in FlatTypes, r \in {Absent, TypeT}, e \in S}
    \cup {Exp("arrow", "", TypeNode("generic function", <<TypeT, Absent>>), <<Word>>)}
OneReturn(ps) == Leafs(ps) \cup Compound(Leafs(ps)) \cup Compound(Compound({Par(p) : p \in ps} \cup {Word}))
Names2(k) == {ParameterNames[i] : i \in 1..k}
Fun(ps, o, r, b, e) == [kind |-> "function", params |-> ps, others |-> o, return |-> r, body |-> b, returns |-> e]
Constraints == {<<>>, <<TypeT>>, <<TypeNode("ref", <<TypeT>>)>>, <<StringTy>>}
ParamLists == {<<>>} \cup {<<t>> : t \in ShallowTypes} \cup {<<t, u>> : t, u \in ParamTypes} \cup {<<t, TypeofParameter("p")>> : t \in ParamTypes} \cup {<<TypeofParameter("q"), t>> : t \in ParamTypes}
ReturnTypes(ps) == DeepTypes \cup {TypeofParameter(ParameterNames[i]) : i \in DOMAIN ps} \cup {TypeNode("ref", <<TypeofParameter(ParameterNames[i])>>) : i \in DOMAIN ps}

Member(k, types) == [kind |-> k, types |-> types]
Members == {Member(k, <<t>>) : k \in {"property", "method", "constructor", "parameter property", "heritage", "constraint", "generic method"}, t \in ShallowTypes}
    \cup {Member("method", <<t, u>>) : t, u \in ParamTypes}

TypeParametersInit ==
    \/ \E ps \in ParamLists, o \in Constraints : Start(TypeParametersId, {Fun(ps, o, r, "none", <<>>) : r \in ReturnTypes(ps)})
    \/ \E ps \in {<<>>, <<TypeT>>, <<TypeNode("array", <<TypeT>>)>>, <<TypeT, StringTy>>, <<StringTy, TypeT>>, <<StringTy>>} :
          Start(TypeParametersId, {Fun(ps, <<>>, Absent, b, <<e>>) : b \in {"block", "expression"}, e \in OneReturn(Names2(Len(ps)))}
                                  \cup {Fun(ps, <<>>, Absent, "block", <<d, e>>) : d, e \in Leafs(Names2(Len(ps)))})
    \/ \E m \in Members : Start(TypeParametersId, {[kind |-> "class", members |-> s] : s \in {<<>>, <<m>>} \cup {<<m, o>> : o \in Members}})
TypeParametersNext == Dispatch(TypeParametersId, VisitTypeParameters)

-----------------------------------------------------------------------------
(* no-deprecated                                                           *)
Declaration(kind, deprecated) == [kind |-> kind, deprecated |-> deprecated]
DeclarationKinds(s) == {<<Declaration(k, d)>> : k \in s, d \in BOOLEAN}
PairsOf(s) == {a \o b : a, b \in s}
Symbols(s) == DeclarationKinds(s) \cup PairsOf(DeclarationKinds(s))
UseOf(kind, path, first, slot, decls) ==
    [kind |-> kind, path |-> path, first |-> first, slot |-> slot, decls |-> decls, selected |-> 0, allow |-> "none", from |-> ""]
CallPaths == {<<"callee">>, <<"member", "callee">>, <<"tag">>, <<"jsx">>, <<"member", "jsx">>, <<"paren", "callee">>, <<"member", "paren", "callee">>, <<"argument", "callee">>}
OtherPaths == {<<"receiver", "callee">>, <<"member", "receiver", "callee">>, <<"reference">>, <<"member", "reference">>, <<"type">>, <<"shorthand">>, <<"closing tag">>,
    <<"import">>, <<"import equals">>, <<"index", "callee">>}
ValueSymbols == Symbols({"variable", "function"}) \cup PairsOf(DeclarationKinds({"constructor", "specifier"}))
With(nodes) == {[n EXCEPT !.allow = a, !.from = f] : n \in nodes, a \in {"none", "name", "package"}, f \in {"", "import", "member of import"}}
PropertySymbols == Symbols({"property", "method"})
BindingPaths == {<<"binding">> \o p \o <<e>> : p \in {<<>>, <<"key">>, <<"index">>, <<"computed">>, <<"key", "computed">>, <<"index", "key">>}, e \in {"initialized", "declared", "parameter"}}
Selectable(e) ==
    LET overloads == {j \in DOMAIN e : e[j].kind \in Overloads} IN IF overloads = {} THEN {0} ELSE overloads
DeprecatedUses ==
    {[UseOf("identifier", p, TRUE, "", d) EXCEPT !.selected = i] :
        p \in CallPaths, <<d, i>> \in UNION {{e} \X Selectable(e) : e \in ValueSymbols}}
    \cup {UseOf("identifier", p, TRUE, "", d) : p \in OtherPaths, d \in ValueSymbols}
    \cup {UseOf("identifier", <<p>>, s[1], s[2], d) : p \in NamedDeclarations, s \in {<<TRUE, "name">>, <<FALSE, "value">>, <<TRUE, "value">>}, d \in ValueSymbols}
    \cup {UseOf("identifier", <<"export">>, TRUE, s, d) : s \in {"exported", "exported as", "exported as string"}, d \in ValueSymbols \cup PairsOf(DeclarationKinds({"this specifier", "function"}))}
    \cup {UseOf("identifier", p, TRUE, s, d) : p \in BindingPaths, s \in {"name", "key", "renamed", "rest", "default", "name of string key"}, d \in PropertySymbols}
    \cup {UseOf("identifier", <<"object property">>, TRUE, "assigned key", d) : d \in PropertySymbols}
    \cup {UseOf("identifier", <<"attribute">>, f, s, d) : f \in BOOLEAN, s \in {"", "static"}, d \in PropertySymbols}
    \cup {UseOf("element access", p, TRUE, s, d) : p \in {<<"reference">>, <<"callee">>}, s \in {"literal", "open"}, d \in PropertySymbols}
    \cup {[UseOf("super", p, TRUE, "", d) EXCEPT !.selected = i] : p \in {<<"callee">>, <<"receiver">>}, i \in 1..2, d \in PairsOf(DeclarationKinds({"constructor"}))}
DeprecatedInit == Start(DeprecatedId, With(DeprecatedUses)) /\ IsUse(node)
DeprecatedNext == Dispatch(DeprecatedId, VisitDeprecated)

-----------------------------------------------------------------------------
(* prefer-readonly, no-unused-private-class-members and unbound-method     *)
(* Fields, and one write below up to three frames.                         *)
FrameLists == {<<>>, <<"constructor">>, <<"method">>, <<"static method">>}
    \cup {<<m, f>> : m \in {"constructor", "method", "static method"}, f \in FunctionFrames} \cup {<<"arrow">>}
    \cup {<<m, "arrow", "object method">> : m \in {"constructor", "method"}} \cup {<<"method", "arrow", "arrow">>, <<"constructor", "arrow", "arrow">>}
    \cup {<<"method", "class", m>> : m \in {"method", "constructor", "static method"}}
NoAlias == [at |-> 0, declared |-> ""]
AliasesIn(frames) == {[at |-> i, declared |-> d] : i \in DOMAIN frames, d \in {"= this", "as this"}}
FieldNode(frames, receiver, alias, op, target) ==
    [frames |-> frames, receiver |-> receiver, alias |-> alias, op |-> op, target |-> target, field |-> "private", static |-> FALSE, readonly |-> FALSE,
     accessor |-> FALSE, onlyInlineLambdas |-> FALSE, initializer |-> "other", decorated |-> FALSE, key |-> "name", classNamed |-> TRUE]
WriteOps == {"=", "op=", "++", "delete", "pattern", "pattern default", "loop head", "loop pattern"}
WriteTargets == {"property", "element", "(property)"}
WritesBelow(frames) ==
    {FieldNode(frames, r, NoAlias, op, t) : r \in {"this", "instance", "Class"}, op \in WriteOps, t \in WriteTargets}
    \cup {FieldNode(frames, "alias", a, op, t) : a \in AliasesIn(frames), op \in WriteOps, t \in WriteTargets}
FieldsBelow(frames) ==
    {[w EXCEPT !.static = s, !.classNamed = c] : w \in WritesBelow(frames), s \in BOOLEAN, c \in BOOLEAN}
    \cup {[FieldNode(frames, "this", NoAlias, op, "property") EXCEPT !.field = f, !.readonly = r, !.accessor = a, !.onlyInlineLambdas = l, !.initializer = i, !.decorated = d, !.key = k] :
            op \in {"none", "="}, f \in {"private", "#", "public", "parameter"}, r \in BOOLEAN, a \in BOOLEAN, l \in BOOLEAN, i \in {"arrow", "other"}, d \in BOOLEAN,
            k \in {"name", "computed number", "computed string"}}
SensibleFields(frames) ==
    {n \in FieldsBelow(frames) : (n.op = "loop pattern" => n.target = "property") /\ (n.receiver = "Class" => n.static \/ n.op = "=") /\ (n.field = "parameter" => n.key = "name" /\ ~n.static)}

PathSteps == {"= left", "= right", "op= left", "op= right", "logical left", "logical right", "ternary test", "ternary branch", "unary", "operand",
    "arrow body", "parameter default", "binding default", "for-of value", "for test", "jsx", "argument", "array", "object value", "computed key", "spread", "wrap"}
PathEnds == {"statement", "return", "= right", "for-of head", "= left", "if test"}
PrivatePaths == {<<e>> : e \in PathEnds \cup PathSteps} \cup {<<s, e>> : s \in PathSteps, e \in PathEnds} \cup {<<s, t, e>> : s, t \in PathSteps, e \in PathEnds}
(* Targets of assignments are accesses and patterns.                       *)
IsTarget(s) == s \in {"= left", "for-of head", "op= left"}
LegalPath(p) ==
    /\ \A i \in 2..Len(p) : IsTarget(p[i]) =>
        \/ \A j \in 1..(i - 1) : p[j] \in {"array", "object value", "spread", "wrap"} /\ p[i] # "op= left"
        \/ \A j \in 1..(i - 1) : p[j] = "wrap"
        \/ \E j \in 1..(i - 1) : p[j] = "computed key" /\ \A k \in (j + 1)..(i - 1) : p[k] \in {"array", "object value"}
    /\ \A i \in 2..Len(p) : p[i] = "spread" => p[i - 1] # "spread"
PrivateNames ==
    {[member |-> "property", reference |-> "access", path |-> p, nested |-> FALSE] : p \in {q \in PrivatePaths : LegalPath(q)}}
    \cup {[member |-> m, reference |-> r, path |-> p, nested |-> x] :
            m \in {"property", "method", "getter", "pair"}, r \in {"none", "in", "access"}, p \in {<<"argument">>, <<"= left">>, <<"statement">>}, x \in BOOLEAN}

ReceiverType(kind, subs) == [kind |-> kind, subs |-> subs]
PlainTypes == {ReceiverType("user", <<>>), ReceiverType("static library", <<>>), ReceiverType("array", <<>>)}
ReceiverTypes == PlainTypes \cup {ReceiverType(k, <<t, u>>) : k \in {"union", "intersection"}, t, u \in PlainTypes} \cup {ReceiverType(k, <<t>>) : k \in {"user", "parameter"}, t \in PlainTypes}
MemberDeclarations == {[declared |-> d, this |-> t] : d \in {"method", "signature", "object function", "field function"}, t \in {"none", "void", "typed"}}
    \cup {[declared |-> d, this |-> "none"] : d \in {"arrow", "getter", "field"}}
PlainMethod == [declared |-> "method", this |-> "none"]
MethodReference(place, member) ==
    [place |-> place, member |-> member, path |-> <<>>, receiver |-> "", type |-> ReceiverType("user", <<>>), inLibrary |-> FALSE, static |-> FALSE, ignoreStatic |-> FALSE,
     key |-> "", ambient |-> FALSE, nativeSource |-> FALSE]
HandingOn == {"ternary branch", "&& right", "||", "??", "comma right", "wrap"}
LandingIn == {"test", "receiver", "index", "postfix", "callee", "tag", "ternary test", "unary", "equality", "= left", "&& left", "= right", "= right of this",
    "argument", "element", "statement", "operand", "case", "op= left", "comma left"}
MethodPaths == {<<e>> : e \in LandingIn} \cup {<<s, e>> : s \in HandingOn, e \in LandingIn} \cup {<<s, t, e>> : s, t \in HandingOn, e \in LandingIn}
MethodReferences ==
    {[MethodReference("access", PlainMethod) EXCEPT !.path = p, !.receiver = r] : p \in MethodPaths, r \in {"this", "super"}}
    \cup {[MethodReference("access", m) EXCEPT !.path = <<e>>, !.type = t, !.inLibrary = l, !.static = s, !.ignoreStatic = i] :
            m \in MemberDeclarations, e \in {"argument", "callee"}, t \in ReceiverTypes, l \in BOOLEAN, s \in BOOLEAN, i \in BOOLEAN}
    \cup {[MethodReference(q, m) EXCEPT !.key = k, !.ambient = a, !.nativeSource = g, !.static = s, !.ignoreStatic = i] :
            q \in {"declared pattern", "assigned pattern"}, m \in MemberDeclarations, k \in {"name", "renamed", "string"}, a \in BOOLEAN, g \in BOOLEAN, s \in BOOLEAN, i \in BOOLEAN}

MembersInit ==
    \/ \E f \in FrameLists : Start(PreferReadonlyId, SensibleFields(f))
    \/ Start(UnusedPrivateId, PrivateNames)
    \/ Start(UnboundMethodId, {n \in MethodReferences : n.place = "assigned pattern" => ~n.ambient})
MembersNext ==
    \/ Dispatch(PreferReadonlyId, VisitPrivateField)
    \/ Dispatch(UnusedPrivateId, VisitPrivate)
    \/ Dispatch(UnboundMethodId, VisitUnbound)

-----------------------------------------------------------------------------
(* The operands of conversions, additions, comparisons and switches        *)
OperandType(kind, subs) == [kind |-> kind, subs |-> subs]
LeafType(kind) == OperandType(kind, <<>>)
LeafTypes == {LeafType(k) : k \in {"string", "number", "bigint", "boolean", "null", "any", "unknown", "T", "plain", "brand", "printing", "regexp", "error", "namesake"}}
Mergeable == {LeafType(k) : k \in {"string", "number", "bigint", "boolean", "null", "plain", "brand", "printing", "regexp", "error"}}
Unions2 == {OperandType("union", <<t, u>>) : t, u \in Mergeable}
Branded == {OperandType("intersection", <<t, LeafType("brand")>>) : t \in {LeafType("string"), LeafType("number"), LeafType("plain"), LeafType("printing")}}
Parameters2 == {OperandType("parameter", <<t>>) : t \in Mergeable \cup {OperandType("union", <<LeafType("string"), LeafType("plain")>>)}}
ElementTypes == LeafTypes \cup {OperandType("union", <<t, LeafType("null")>>) : t \in {LeafType("string"), LeafType("plain")}} \cup Branded
ArrayTypes ==
    {OperandType("array", <<t>>) : t \in ElementTypes \cup {LeafType("never")}}
    \cup {OperandType("tuple", <<t, u>>) : t, u \in {LeafType(k) : k \in {"string", "number", "plain", "printing", "any"}}}
    \cup {OperandType("array", <<OperandType("array", <<t>>)>>) : t \in {LeafType("plain"), LeafType("string"), LeafType("any")}}
ArraysMerged ==
    {OperandType("union", <<OperandType("array", <<t>>), u>>) : t, u \in {LeafType("plain"), LeafType("string"), LeafType("null")}}
    \cup {OperandType("intersection", <<OperandType("array", <<t>>), u>>) :
            t \in {LeafType("plain"), LeafType("string")}, u \in {LeafType("brand"), OperandType("array", <<LeafType("brand")>>), OperandType("array", <<LeafType("printing")>>)}}
    \cup {OperandType("parameter", <<OperandType("array", <<t>>)>>) : t \in {LeafType("plain"), LeafType("string")}}

Conversions(types) ==
    {[place |-> p, type |-> t, other |-> u, listed |-> l, checkUnknown |-> c] :
        p \in {"template", "tagged", "String", "own String", "String of spread", "toString", "toLocaleString", "with argument", "join",
               "(x.toString)()", "x['toString']()", "concat"}, t \in types, u \in {LeafType("string")}, l \in {{"error"}, {"error", "plain"}}, c \in BOOLEAN}
    \cup {[place |-> p, type |-> t, other |-> u, listed |-> {"error"}, checkUnknown |-> c] :
            p \in {"+", "+="}, t \in types, u \in {LeafType("string"), LeafType("number"), LeafType("plain")}, c \in BOOLEAN}
    \cup {[place |-> "+", type |-> LeafType("string"), other |-> t, listed |-> {"error"}, checkUnknown |-> c] : t \in types, c \in BOOLEAN}

Templates(types) ==
    {[type |-> t, tagged |-> FALSE, allow |-> a] : t \in types, a \in SUBSET {"number", "boolean", "any", "null", "regexp", "array", "error"}}
    \cup {[type |-> t, tagged |-> g, allow |-> a] : t \in {LeafType("plain"), LeafType("string"), LeafType("never")}, g \in BOOLEAN, a \in {{}, {"never"}}}
AdditionTypes(types) ==
    {[type |-> t, other |-> u, op |-> "+", skipCompound |-> FALSE, allow |-> a] :
        t \in types, u \in LeafTypes \cup Branded \cup {OperandType("union", <<LeafType(k), LeafType(l)>>) : k \in {"string", "bigint"}, l \in {"number", "null", "boolean", "regexp"}},
        a \in SUBSET {"any", "boolean", "null", "mixed", "regexp"}}
    \cup {[type |-> t, other |-> LeafType("string"), op |-> o, skipCompound |-> s, allow |-> {}] : t \in types, o \in {"+", "+="}, s \in BOOLEAN}

(* Unions that TypeScript keeps: number and string absorb their literals.  *)
EnumTypes ==
    {{m} : m \in EnumMembers \cup {"-1", "0", "number", "'a'", "string", "string&B", "bigint", "object", "undefined", "null", "any", "unknown", "T<E>", "E.A&B"}}
    \cup {{"E.A", "E.B"}, {"E.A", "E.B", "F.A"}, {"M.N", "M.S"}, {"E.A", "S.A"}, {"true", "false"}, {"number", "string"}, {"'a'", "-1"}, {"number", "bigint"}}
    \cup {{"E.A", "E.B"} \cup s : s \in {{"-1"}, {"string"}, {"undefined"}, {"object"}, {"F.A"}, {"-1", "'a'"}, {"true", "false"}}}
    \cup {{"S.A"} \cup s : s \in {{"number"}, {"string&B"}, {"'b'"}, {"undefined"}}}
    \cup {{m, "undefined"} : m \in {"0", "number", "'a'", "string", "object"}} \cup {{"-1", "0"}, {"'a'", "'b'"}, {"-1", "undefined"}}
EnumComparisons ==
    {[op |-> o, left |-> l, right |-> r] : o \in {"comparison", "switch", "arithmetic"}, l \in EnumTypes, r \in EnumTypes}

SwitchMembers == LiteralMembersCased \cup {"a*", "'a'&B", "string&B", "string", "number", "object", "T<'a'>"}
SwitchedTypes == {{}} \cup {{m} : m \in SwitchMembers} \cup {{m, k} : m, k \in SwitchMembers}
    \cup {{"'a'", "'b'", k} : k \in SwitchMembers} \cup {{"true", "false", "undefined"}, {"E.A", "E.B", "null"}}
CaseTypes == {{m} : m \in LiteralMembersCased \cup {"string", "number", "'a'&B", "T<'a'>"}} \cup {{"'a'", "'b'"}}
CaseLists(type) == {{}} \cup {{{m} : m \in type \ d} : d \in {{}} \cup {{m} : m \in type}} \cup {{c} : c \in CaseTypes}
    \cup {{{m} : m \in type} \cup {c} : c \in CaseTypes} \cup {{c, {"'b'"}} : c \in CaseTypes}
Switches(type) ==
    {[type |-> type, cases |-> c, default |-> d, comment |-> k, considerDefault |-> e, allowDefault |-> a, requireDefault |-> r] :
        c \in CaseLists(type), d \in BOOLEAN, k \in (IF type \cap {"'a'", "string"} # {} THEN {"none", "last", "nested", "string"} ELSE {"none"}), e \in BOOLEAN, a \in BOOLEAN, r \in BOOLEAN}

OperandTypes == {LeafTypes, Unions2, Branded \cup Parameters2, ArrayTypes, ArraysMerged}
OperandsInit ==
    \/ \E types \in OperandTypes :
        \/ Start(BaseToStringId, Conversions({t \in types : "namesake" \notin KindsOfType(t)}))
        \/ types # ArraysMerged /\ Start(RestrictTemplateId, Templates(types))
        \/ Start(RestrictPlusId, AdditionTypes(types))
    \/ Start(EnumComparisonId, EnumComparisons)
    \/ \E type \in SwitchedTypes : Start(ExhaustiveId, Switches(type))
OperandsNext ==
    \/ Dispatch(BaseToStringId, VisitToString)
    \/ Dispatch(RestrictTemplateId, VisitTemplate)
    \/ Dispatch(RestrictPlusId, VisitPlus)
    \/ Dispatch(EnumComparisonId, VisitEnumComparison)
    \/ Dispatch(ExhaustiveId, VisitSwitchStatement)

-----------------------------------------------------------------------------
Init ==
    \/ Start(UnnecessaryConditionId, Conditions \cup Comparisons \cup Callbacks \cup Asserts \cup Chains)
    \/ Start(StrictBooleanId, StrictBooleans \cup Assertions)
    \/ Start(PreferNullishId, Ors \cup Ternaries)
    \/ Start(FloatingId, Floating)
    \/ Start(AwaitThenableId, Awaits)
    \/ Start(MisusedId, Misused \cup PromiseTests)
    \/ AssertionsInit
    \/ AnyFlowInit
    \/ AsyncInit
    \/ VoidInit
    \/ SearchInit
    \/ TypeParametersInit
    \/ DeprecatedInit
    \/ MembersInit
    \/ OperandsInit
Next ==
    \/ Dispatch(UnnecessaryConditionId, VisitUnnecessary)
    \/ Dispatch(StrictBooleanId, VisitStrictBoolean)
    \/ Dispatch(PreferNullishId, VisitPreferNullish)
    \/ Dispatch(FloatingId, VisitFloating)
    \/ Dispatch(AwaitThenableId, VisitAwait)
    \/ Dispatch(MisusedId, VisitMisused)
    \/ AssertionsNext
    \/ AnyFlowNext
    \/ AsyncNext
    \/ VoidNext
    \/ SearchNext
    \/ TypeParametersNext
    \/ DeprecatedNext
    \/ MembersNext
    \/ OperandsNext
(* The rules' promises on what is tested, converted and compared.          *)
TestsAreAsTheirTypes ==
    /\ NothingUnnecessaryIsInvented /\ TestsAskOneThing
    /\ ConversionsPrintWell /\ TemplatesAreOfAllowedTypes /\ OperandsGoTogether
    /\ EnumsMeetTheirOwn /\ SwitchesCatchTheirValues
(* The rules' promises on what is declared: type parameters and the        *)
(* members of classes.                                                     *)
DeclarationsAreHonoured ==
    /\ TypeParametersRelate
    /\ ReadonlyIsPossible /\ UnusedPrivatesAreDead /\ MethodsKeepTheirThis
Spec == Init /\ [][Next]_vars
=============================================================================
