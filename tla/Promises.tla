------------------------------ MODULE Promises ------------------------------
(***************************************************************************)
(* The rules about promises that nobody waits for: no-floating-promises,   *)
(* await-thenable and no-misused-promises.  A type is the set of its       *)
(* members, as in TsTypes, with members of its own:                        *)
(*   promise, thenable, safe     a Promise, something with a `then`, a     *)
(*                               promise the options call safe;            *)
(*   [m]                         an array or tuple of the type Elements[m];*)
(*   f:..                        a function; Returns gives the return type *)
(*                               of each of its signatures.                *)
(***************************************************************************)
EXTENDS RuleVisit, TsTypes

FloatingId == "no-floating-promises"
AwaitThenableId == "await-thenable"
MisusedId == "no-misused-promises"

Elements == [m \in {"[promise]", "[safe]", "[number]", "[promise|number]", "[T]", "Set<number>"} |->
    CASE m = "[promise]" -> {"promise"}
      [] m = "[safe]" -> {"safe"}
      [] m \in {"[number]", "Set<number>"} -> {"number"}
      [] m = "[promise|number]" -> {"promise", "number"}
      [] m = "[T]" -> {"T"}]
Returns == [m \in {"f:void", "f:promise", "f:maybe", "f:number", "f:void,promise", "f:void,number"} |->
    CASE m = "f:void" -> {{"void"}}
      [] m = "f:promise" -> {{"promise"}}
      [] m = "f:maybe" -> {{"promise", "number"}}
      [] m = "f:number" -> {{"number"}}
      [] m = "f:void,promise" -> {{"void"}, {"promise"}}
      [] m = "f:void,number" -> {{"void"}, {"number"}}]
PromiseConstraint == [m \in {"T<promise>", "T<number>"} |-> IF m = "T<promise>" THEN {"promise"} ELSE {"number"}]
SignaturesOf(m) == IF m \in DOMAIN Returns THEN Returns[m] ELSE {}

-----------------------------------------------------------------------------
(* no-floating-promises.  An expression statement is a tree: calls and     *)
(* other sources of a value (their type in `type`, the kind of the callee  *)
(* in `callee`), p.catch(..), p.then(..) and p.finally(..) with the        *)
(* receiver as child, and operators.  opts: ignoreVoid, ignoreIIFE,        *)
(* checkThenables, safePromises, safeCalls.                                *)
IsAllowedSafePromise(type, opts) == "safePromises" \in opts /\ "safe" \in type
MatchesPromiseLike(m, opts) == m \in {"promise", "safe"} \/ (m = "thenable" /\ "checkThenables" \in opts)
TypeIsPromiseLike(type, opts) ==
    ~IsAllowedSafePromise(type, opts) /\ \E m \in type : MatchesPromiseLike(m, opts)
TypeIsPromiseArray(type, opts) ==
    /\ ~IsAllowedSafePromise(type, opts)
    /\ \E m \in type \cap (DOMAIN Elements \ {"Set<number>"}) :
        ~IsAllowedSafePromise(Elements[m], opts) /\ \E e \in Elements[m] : MatchesPromiseLike(e, opts)
IsFloatingType(type, opts) == TypeIsPromiseLike(type, opts) \/ TypeIsPromiseArray(type, opts)
ConstraintIsFloating(type, opts) ==
    \E m \in DOMAIN PromiseConstraint : type = {m} /\ IsFloatingType(PromiseConstraint[m], opts)

IsCallable(type) == type # {} /\ \A m \in type : SignaturesOf(m) # {}

RECURSIVE StaticType(_)
StaticType(e) ==
    CASE e.kind \in {"x", "call"} -> e.type
      [] e.kind = "!" -> Boolean
      [] e.kind = "paren" -> StaticType(e.subs[1])
      [] e.kind \in {"catch", "then", "finally"} -> {"promise"}
      [] e.kind = "await" -> {IF m \in DOMAIN Elements THEN m ELSE "number" : m \in StaticType(e.subs[1])}
      [] e.kind = "void" -> {"undefined"}
      [] e.kind \in {",", "="} -> StaticType(e.subs[2])
      [] e.kind \in {"&&", "||", "??"} -> StaticType(e.subs[1]) \cup StaticType(e.subs[2])
      [] e.kind = "cond" -> StaticType(e.subs[2]) \cup StaticType(e.subs[3])

RECURSIVE PeelParens(_), IsUnhandled(_, _)
PeelParens(e) == IF e.kind = "paren" THEN PeelParens(e.subs[1]) ELSE e

(* Mutant: `finally` takes its receiver for handled.                       *)
IsUnhandledChainFinally(e, opts) == e.kind # "finally" /\ (e.kind \in {"catch", "then"} => e.spread \/ ~IsCallable(e.onRejected))

IsUnhandledChain(e, opts) ==
    CASE e.kind = "catch" -> e.spread \/ ~IsCallable(e.onRejected)
      [] e.kind = "then" -> e.spread \/ ~IsCallable(e.onRejected)
      [] e.kind = "finally" -> e.spread \/ IsUnhandled(e.subs[1], opts)
      [] OTHER -> TRUE

IsUnhandled(expr, opts) ==
    LET e == PeelParens(expr)
        type == StaticType(e)
    IN  CASE e.kind = "," -> IsUnhandled(e.subs[1], opts) \/ IsUnhandled(e.subs[2], opts)
          [] e.kind = "=" -> FALSE
          [] IsAllowedSafePromise(type, opts) -> FALSE
          [] e.kind = "void" /\ "ignoreVoid" \notin opts -> IsUnhandled(e.subs[1], opts)
          [] e.kind = "await" -> TypeIsPromiseArray(StaticType(e.subs[1]), opts)
          [] ~IsFloatingType(type, opts) /\ ~ConstraintIsFloating(type, opts) -> FALSE
          [] e.kind = "cond" -> IsUnhandled(e.subs[2], opts) \/ IsUnhandled(e.subs[3], opts)
          [] e.kind \in {"&&", "||", "??"} -> \E i \in {1, 2} : IsUnhandled(e.subs[i], opts)
          [] OTHER -> IsUnhandledChain(e, opts)

VisitFloating(n) ==
    LET e == PeelParens(n.expr)
    IN  IF \/ "ignoreIIFE" \in n.opts /\ e.kind = "call" /\ e.callee = "function"
           \/ "safeCalls" \in n.opts /\ e.kind = "call" /\ e.callee = "safe"
           \/ ~IsUnhandled(e, n.opts)
        THEN {} ELSE {"statement"}

-----------------------------------------------------------------------------
(* await-thenable: await, for await, await using, and the elements of what *)
(* Promise.all and its like are given.                                     *)
IsThenable(m) == m \in {"promise", "safe", "thenable"}
OpaqueType(type) == type \in {{"any"}, {"unknown"}}

IsAcceptableForAwait(type) ==
    \/ OpaqueType(type)
    \/ type = {"T"}
    \/ \E m \in DOMAIN PromiseConstraint : type = {m} /\ \E c \in PromiseConstraint[m] : IsThenable(c)
    \/ \E m \in type : IsThenable(m)

RECURSIVE HasThenableArm(_), HasNonThenableMember(_)
HasThenableArm(type) ==
    \E m \in type : IsThenable(m) \/ (m \in DOMAIN PromiseConstraint /\ HasThenableArm(PromiseConstraint[m]))
HasNonThenableMember(type) ==
    ~OpaqueType(type) /\ \E m \in type :
        IF m \in DOMAIN PromiseConstraint THEN HasNonThenableMember(PromiseConstraint[m])
        ELSE ~IsThenable(m) /\ m # "T"
IterableHasNonThenable(type) ==
    ~OpaqueType(type) /\ \E m \in type \cap DOMAIN Elements : HasNonThenableMember(Elements[m])

(* The elements of a literal: [type, spread]; a hole has the type {}.      *)
LiteralReports(elements) ==
    {i \in DOMAIN elements :
        /\ elements[i].type # {} /\ ~OpaqueType(elements[i].type)
        /\ IF elements[i].spread THEN IterableHasNonThenable(elements[i].type)
           ELSE ~HasThenableArm(elements[i].type)}

VisitAwait(n) ==
    CASE n.handler = "await" -> IF IsAcceptableForAwait(n.type) THEN {} ELSE {"operand"}
      [] n.handler = "for await" ->
            IF OpaqueType(n.type) \/ "asyncIterable" \in n.type THEN {} ELSE {"operand"}
      [] n.handler = "await using" ->
            IF n.type \cap {"any", "unknown", "asyncDisposable"} # {} THEN {} ELSE {"operand"}
      [] n.handler = "aggregator" /\ n.literal -> LiteralReports(n.elements)
      [] n.handler = "aggregator" -> IF IterableHasNonThenable(n.type) THEN {"operand"} ELSE {}

-----------------------------------------------------------------------------
(* no-misused-promises: a function that returns a promise where one that   *)
(* returns nothing is expected.                                            *)
PromiseReturn(returned) == returned \in {{"promise"}, {"thenable"}}
AnyMemberReturnsPromise(type) == \E m \in type : \E r \in SignaturesOf(m) : PromiseReturn(r)
AllMemberSignaturesReturnVoid(type) ==
    /\ ~AnyMemberReturnsPromise(type)
    /\ \E m \in type : {"void"} \in SignaturesOf(m)
AllCallSignaturesExpectVoid(type) ==
    LET members == IF Cardinality(type) > 1 THEN type \ NullishMembers ELSE type
    IN  members # {} /\ \A m \in members : SignaturesOf(m) = {{"void"}}

(* What a member of a class or of an object returns: also in a union.      *)
ReturnTypeIsPromise(type) == \E m \in type : type = {m} /\ \E r \in SignaturesOf(m) : "promise" \in r

(* A signature: the types of its parameters, and, if the last is a rest    *)
(* parameter, whether it is an array (one type) or a tuple of them.        *)
ClassifiedTypes(sig, i) ==
    LET last == Len(sig.params)
    IN  CASE sig.rest = "no" \/ i < last -> IF i <= last THEN {sig.params[i]} ELSE {}
          [] sig.rest = "array" -> {sig.params[last][1]}
          [] OTHER -> {sig.params[last][j] : j \in {i - last + 1} \cap DOMAIN sig.params[last]}
ExpectedTypes(n, i) ==
    UNION {ClassifiedTypes(sig, i) : sig \in n.signatures} \cup {t \in {n.contextual[i]} : t # {}}

VisitCall(n) ==
    LET thenable == {i \in DOMAIN n.args : \E t \in ExpectedTypes(n, i) : AnyMemberReturnsPromise(t)}
        void == {i \in DOMAIN n.args : \E t \in ExpectedTypes(n, i) : AllMemberSignaturesReturnVoid(t)} \ thenable
        predicate == {i \in DOMAIN n.args : i = 1 /\ n.arrayPredicate /\ AnyMemberReturnsPromise(n.args[i])}
    IN  IF "voidReturn" \notin n.opts THEN {}
        ELSE {<<"predicate", i>> : i \in predicate}
             \cup IF "arguments" \notin n.opts \/ n.promiseFinally THEN {}
                  ELSE {<<"argument", i>> : i \in {j \in void : AnyMemberReturnsPromise(n.args[j])}}

(* A value where a type is expected: an annotated variable or assignment,  *)
(* a property, a shorthand, an attribute, a returned value.                *)
PlaceOption == [p \in {"variable", "assignment", "property", "shorthand", "attribute", "return"} |->
    CASE p \in {"variable", "assignment"} -> "variables"
      [] p \in {"property", "shorthand"} -> "properties"
      [] p = "attribute" -> "attributes"
      [] p = "return" -> "returns"]
VisitPlace(n) ==
    IF /\ {"voidReturn", PlaceOption[n.place]} \subseteq n.opts
       /\ IF n.place = "shorthand" THEN ReturnTypeIsPromise(n.type) ELSE AnyMemberReturnsPromise(n.type)
       /\ AllCallSignaturesExpectVoid(n.expected)
    THEN {"value"} ELSE {}

(* A method of an object literal against the members of the expected       *)
(* type, a method of a class against what each base declares.              *)
VisitMember(n) ==
    IF /\ {"voidReturn", IF n.inClass THEN "inheritedMethods" ELSE "properties"} \subseteq n.opts
       /\ ~n.static
       /\ ReturnTypeIsPromise(n.type)
    THEN {i \in DOMAIN n.declared : AllMemberSignaturesReturnVoid(n.declared[i])} ELSE {}

(* Promises as conditions.                                                 *)
IsTestPromise(type) == type # {} /\ type \subseteq {"promise", "safe"}
RECURSIVE PromiseInTest(_, _), PromiseAtNonTest(_, _)
PromiseInTest(e, path) ==
    CASE e.kind \in {"&&", "||", "??"} -> PromiseInTest(e.subs[1], path \o <<1>>) \cup PromiseInTest(e.subs[2], path \o <<2>>)
      [] OTHER -> {p \in {path} : IsTestPromise(StaticType(e))}
PromiseAtNonTest(e, path) ==
    CASE e.kind \in {"&&", "||", "paren"} -> PromiseAtNonTest(e.subs[1], path \o <<1>>)
      [] e.kind = "??" -> {}
      [] OTHER -> {p \in {path} : IsTestPromise(StaticType(e))}

VisitTestOf(tree, path) ==
    LET n == Down(tree, path)
    IN  CASE n.kind \in Tests \cup {"!"} -> PromiseInTest(n.subs[1], path \o <<1>>)
          [] n.kind \in {"&&", "||"} -> PromiseAtNonTest(n.subs[1], path \o <<1>>)
          [] OTHER -> {}
VisitPromiseTests(n) ==
    IF "conditionals" \notin n.opts THEN {}
    ELSE UNION {VisitTestOf(n.tree, p) : p \in Places(n.tree, <<>>)}

VisitSpread(n) == IF "spreads" \in n.opts /\ n.type \cap {"promise", "safe"} # {} THEN {"spread"} ELSE {}

VisitMisused(n) ==
    CASE n.handler = "call" -> VisitCall(n)
      [] n.handler = "place" -> VisitPlace(n)
      [] n.handler = "member" -> VisitMember(n)
      [] n.handler = "tests" -> VisitPromiseTests(n)
      [] n.handler = "spread" -> VisitSpread(n)

-----------------------------------------------------------------------------
(* What becomes of the promises: whether one that rejects goes unnoticed   *)
(* when the statement runs.  A value can be the promise its type says; an  *)
(* assignment keeps what it stores.                                        *)
CanBePromise(type, opts) ==
    \E m \in type : MatchesPromiseLike(m, opts \ {"safePromises"})
                    /\ ("safePromises" \in opts => m # "safe")
CanBePromises(type, opts) ==
    \/ CanBePromise(type, opts)
    \/ \E m \in type \cap (DOMAIN Elements \ {"Set<number>"}) : CanBePromise(Elements[m], opts)
    \/ \E m \in type \cap DOMAIN PromiseConstraint : CanBePromise(PromiseConstraint[m], opts)

RECURSIVE Loses(_, _)
Loses(e, opts) ==
    CASE e.kind \in {"x", "call"} -> CanBePromises(e.type, opts)
      [] e.kind \in {"catch", "then"} -> e.spread \/ ~IsCallable(e.onRejected)
      [] e.kind = "finally" -> e.spread \/ Loses(e.subs[1], opts)
      [] e.kind = "paren" -> Loses(e.subs[1], opts)
      [] e.kind = "await" ->
            \E m \in StaticType(e.subs[1]) \cap (DOMAIN Elements \ {"Set<number>"}) : CanBePromise(Elements[m], opts)
      [] e.kind = "void" -> "ignoreVoid" \notin opts /\ Loses(e.subs[1], opts)
      [] e.kind \in {",", "&&", "||", "??"} -> Loses(e.subs[1], opts) \/ Loses(e.subs[2], opts)
      [] e.kind = "=" -> FALSE
      [] e.kind = "cond" -> Loses(e.subs[2], opts) \/ Loses(e.subs[3], opts)

(* Two ways to escape the rule: a union with a safe promise, which it      *)
(* takes for safe as a whole, and a comma or `void` inside an operand.     *)
RECURSIVE Within(_)
Within(e) == {e} \cup UNION {Within(c) : c \in Range(e.subs)}
CallsEverythingSafe(e, opts) == \E c \in Within(e) : c.kind \in {"x", "call"} /\ IsAllowedSafePromise(c.type, opts)
HiddenInOperand(e) == \E c \in Within(e) : c.kind \in {"&&", "||", "??", "cond"} /\ \E d \in Within(c) : d.kind \in {",", "void"}

(* An expression statement is reported when, and only when, a promise made *)
(* in it can be rejected unnoticed: through every operator, chain and      *)
(* option.                                                                 *)
ReportedStatementsLosePromises ==
    Visited(FloatingId) =>
        /\ reports # {} => Loses(node.expr, node.opts)
        /\ reports = {} =>
              \/ ~Loses(node.expr, node.opts)
              \/ LET e == PeelParens(node.expr)
                 IN  e.kind = "call" /\ ("ignoreIIFE" \in node.opts \/ "safeCalls" \in node.opts)
              \/ CallsEverythingSafe(node.expr, node.opts) \/ HiddenInOperand(node.expr)

(* What is awaited without need can never be a thenable; what is not       *)
(* reported can be one (a union with a type parameter apart).              *)
MayBeThenable(type) ==
    \E m \in type :
        \/ IsThenable(m) \/ m \in {"any", "unknown", "T"}
        \/ m \in DOMAIN PromiseConstraint /\ \E c \in PromiseConstraint[m] : IsThenable(c)
Unconstrained(type) == Cardinality(type) > 1 /\ type \cap ({"any", "unknown", "T"} \cup DOMAIN PromiseConstraint) # {}
ReportedAwaitsAreVacuous ==
    Visited(AwaitThenableId) /\ node.handler \in {"await", "aggregator"} =>
        IF node.handler = "await"
        THEN ~Unconstrained(node.type) => (reports # {} <=> ~MayBeThenable(node.type))
        ELSE node.literal => \A i \in DOMAIN node.elements :
                LET e == node.elements[i]
                IN  ~e.spread /\ e.type # {} /\ ~Unconstrained(e.type) =>
                        (i \in reports <=> ~MayBeThenable(e.type) \/ e.type = {"T"})

(* A reported argument is a function whose promise the call would drop     *)
(* whichever overload is meant: no parameter there takes a function that   *)
(* returns a promise.                                                      *)
ReportedArgumentsAreDropped ==
    Visited(MisusedId) /\ node.handler = "call" =>
        \A r \in reports : r[1] = "argument" =>
            LET parameters == UNION {ClassifiedTypes(sig, r[2]) : sig \in node.signatures}
            IN  /\ \E m \in node.args[r[2]] :
                        {"promise"} \in SignaturesOf(m) \/ {"thenable"} \in SignaturesOf(m)
                /\ \A t \in parameters : \A m \in t : {"promise"} \notin SignaturesOf(m)

(* A promise reported in a condition is one for sure and is there for its  *)
(* truth.                                                                  *)
ReportedTestsArePromises ==
    Visited(MisusedId) /\ node.handler = "tests" =>
        \A p \in reports :
            /\ StaticType(Down(node.tree, p)) \subseteq {"promise", "safe"}
            /\ Tested(node.tree, p)

(* All of these: a promise is reported when and only when it is lost.      *)
PromisesAreLookedAfter ==
    /\ ReportedStatementsLosePromises
    /\ ReportedAwaitsAreVacuous
    /\ ReportedArgumentsAreDropped
    /\ ReportedTestsArePromises
=============================================================================
