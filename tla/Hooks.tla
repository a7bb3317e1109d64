-------------------------------- MODULE Hooks --------------------------------
(***************************************************************************)
(* The rules on React hooks: use-exhaustive-dependencies and               *)
(* use-hook-at-top-level.  React compares a dependency list with that of   *)
(* the last render and keeps an old callback while they agree, and it      *)
(* finds the state of a hook by counting the calls of a render.            *)
(***************************************************************************)
EXTENDS RuleVisit, SequencesExt, FiniteSetsExt

ExhaustiveId == "use-exhaustive-dependencies"
TopLevelId == "use-hook-at-top-level"

-----------------------------------------------------------------------------
(* use-exhaustive-dependencies.  A call: the name that is called and whose *)
(* it is, the kinds of the arguments (type arguments come first), the      *)
(* lines above the statement from the nearest on, what the callback        *)
(* declares and uses, the list's entries, and the bindings around it.      *)
ReactiveHooks == {"useEffect", "useMemo", "useImperativeHandle"}
IsReactiveHook(n) == n.hook \in ReactiveHooks

HookIsFromReact(n) ==
    n.of \in {"named import", "namespace", "global React", "React of another module", "parameter React"}

Arguments(n) == SelectSeq(n.args, LAMBDA a : a # "type reference")
IsCallback(arg) == arg \in {"function", "(function)"}
IsList(arg) == arg \in {"array", "(array)"}
HasCallback(n) == Len(Arguments(n)) >= 2 /\ IsCallback(Arguments(n)[1])

(* biome-ignore lines, as far up as there are comments.                    *)
SuppressedNames(n) ==
    LET read == {n.above[i] : i \in {j \in DOMAIN n.above : \A k \in 1..j : n.above[k].kind # "code"}}
    IN  [all |-> \E line \in read : line.kind = "ignore all",
         names |-> UNION {line.names : line \in read}]

StableHows == {"setter", "ref", "ref of another hook"}
(* Mutant: a setter stays stable when it is assigned to.                   *)
StableNamesReassigned(n) == {d.name : d \in {x \in n.decls : x.how \in StableHows}}
StableNames(n) == {d.name : d \in {x \in n.decls : x.how \in StableHows}} \ n.reassigned
IsStableInitializer(d) ==
    d.how = "module member" \/ (d.how \in {"literal", "regex"} /\ d.wrap = "none")
LiteralConstNames(n) == {d.name : d \in {x \in n.decls : ~x.inner /\ x.const /\ IsStableInitializer(x)}}
IsUnstableExpression(d) == d.how \in {"fresh", "regex"} /\ d.wrap # "as"
UnstableNames(n) == {d.name : d \in {x \in n.decls : ~x.inner /\ (x.how = "function" \/ IsUnstableExpression(x))}}

(* Names are collected at every depth, the callback's own binding too.     *)
LocalNames(n) ==
    {n.binding} \cup {d.name : d \in {x \in n.declares : x.at \in {"parameter", "statement", "nested"}}}

IsReferencing(place) == place = "read"
FreeIdentifiers(n) ==
    LET used == {u.name : u \in {x \in Range(n.uses) : IsReferencing(x.place)}}
        named == {d.name : d \in {x \in n.declares : x.at = "function expression"}}
    IN  (used \cup named) \ LocalNames(n)

DepEntries(n) == {i \in DOMAIN n.deps : n.deps[i].head # ""}
Heads(n) == {n.deps[i].head : i \in DepEntries(n)}

Accounted(n) ==
    n.module \cup StableNames(n) \cup LiteralConstNames(n) \cup Heads(n) \cup SuppressedNames(n).names
Missing(n) == FreeIdentifiers(n) \ (n.globals \cup Accounted(n))
UnusedEntries(n) ==
    {i \in DepEntries(n) : n.deps[i].head \notin (FreeIdentifiers(n) \cup n.globals \cup SuppressedNames(n).names)}
Unstable(n) == {i \in DepEntries(n) : n.deps[i].head \in UnstableNames(n) \ SuppressedNames(n).names}
(* The first entry of each path that occurs twice.                         *)
Repeated(n) ==
    {i \in DepEntries(n) :
        /\ \E j \in DepEntries(n) : j > i /\ n.deps[j].path = n.deps[i].path
        /\ ~\E j \in DepEntries(n) : j < i /\ n.deps[j].path = n.deps[i].path}

VisitHook(n) ==
    IF ~(IsReactiveHook(n) /\ HookIsFromReact(n) /\ HasCallback(n)) \/ SuppressedNames(n).all THEN {}
    ELSE IF ~IsList(Arguments(n)[2]) THEN {<<"not a list">>}
    ELSE {<<"missing", x>> : x \in Missing(n)} \cup {<<"unused", i>> : i \in UnusedEntries(n)}
            \cup {<<"unstable", i>> : i \in Unstable(n)} \cup {<<"repeated", i>> : i \in Repeated(n)}

-----------------------------------------------------------------------------
(* use-hook-at-top-level.  A call: how it is written, the function around  *)
(* it and the steps from the call up to that function.                     *)
IsHookName(name) == name \in {"useX", "use"}
IsComponentName(name) == name = "X"
IsHookCall(n) == IsHookName(n.name) /\ n.form \in {"name", "member"}

(* The calls and parentheses around a function, from the inside, and what  *)
(* they end in.                                                            *)
Wrappers == {"memo", "forwardRef"}
ImplicitName(h) ==
    IF \A i \in DOMAIN h.around : h.around[i] \in Wrappers \cup {"("} THEN h.name ELSE "none"
CallsAround(h) == {i \in DOMAIN h.around : h.around[i] # "("}
ThroughParens(h) ==
    IF CallsAround(h) = {} THEN "none"
    ELSE h.around[CHOOSE i \in CallsAround(h) : \A j \in CallsAround(h) : i <= j]
WrappedAsComponent(h) == ThroughParens(h) \in Wrappers
InsideTestCallback(h) == ThroughParens(h) \in {"it", "renderHook"}

IsComponentOrHook(h) ==
    CASE h.kind = "module" -> FALSE
      [] h.kind \in {"method", "accessor", "function"} -> IsComponentName(h.name) \/ IsHookName(h.name)
      [] OTHER ->
            LET name == IF ImplicitName(h) = "none" /\ h.kind = "function expression" THEN h.own ELSE ImplicitName(h)
            IN  \/ IsComponentName(name) \/ IsHookName(name)
                \/ WrappedAsComponent(h) \/ InsideTestCallback(h)
                \/ h.kind = "arrow" /\ h.concise

(* A step of a try statement counts unless it is the finally block.        *)
Branching ==
    {"if test", "then", "for init", "iterated", "loop test", "loop body", "?: test", "?: branch", "switched", "clause"}
OnDisqualifyingPath(path) ==
    \E i \in DOMAIN path : path[i] \in Branching \cup {"&& right", "try", "catch"}

VisitHookCall(n) ==
    IF ~IsHookCall(n) THEN {}
    ELSE IF ~IsComponentOrHook(n.host) THEN {"not React"}
    ELSE IF OnDisqualifyingPath(n.path) THEN {"conditional"} ELSE {}

-----------------------------------------------------------------------------
(* What React sees.  A use is bound in the callback, in the component or   *)
(* outside; only what the component binds can differ between renders, and  *)
(* a const only if its value does: an assignment to its name is to another *)
(* binding.                                                                *)
BoundInside(n, u) ==
    \/ u.name = n.binding
    \/ \E d \in n.declares : d.name = u.name /\ (d.at \in {"parameter", "statement"} \/ u.deep)
Captured(n) ==
    {u.name : u \in {x \in Range(n.uses) : x.place \in {"read", "initializer"} /\ ~BoundInside(n, x)}}
DeclaredBy(n, name) == {d \in n.decls : d.name = name /\ ~d.inner}
Varies(n, name) ==
    \/ name \in n.params
    \/ name \in n.reassigned /\ ~\E d \in DeclaredBy(n, name) : d.const
    \/ \E d \in DeclaredBy(n, name) : d.how \notin {"literal", "module member", "setter", "ref"}
Checked(n) == SuppressedNames(n) = [all |-> FALSE, names |-> {}] /\ HasCallback(n) /\ IsList(Arguments(n)[2])

(* Known: a name caught by a catch clause or that of a function expression *)
(* is taken for a capture, a constant only passes for one when it is a     *)
(* const of a bare literal (rule.go:967-1011), and an assignment counts    *)
(* for every binding of the name (reassignedNames).                        *)
TakenForCaptures(n) ==
    {d.name : d \in {x \in n.declares : x.at \in {"catch", "function expression"}}}
Overcautious(n, name) ==
    \/ DeclaredBy(n, name) = {} /\ name \notin n.params
    \/ \E d \in DeclaredBy(n, name) : d.how = "literal" /\ (~d.const \/ d.wrap # "none")
    \/ \E d \in DeclaredBy(n, name) : d.how = "module member" /\ ~d.const
    \/ name \in n.reassigned /\ \E d \in DeclaredBy(n, name) : d.const

(* A name reported as missing is captured, not listed, and one that may    *)
(* differ from render to render.                                           *)
ReportedDependenciesAreMissing ==
    Visited(ExhaustiveId) =>
        \A name \in {r[2] : r \in {x \in reports : x[1] = "missing"}} :
            /\ name \notin Heads(node)
            /\ \/ name \in Captured(node) /\ (Varies(node, name) \/ Overcautious(node, name))
               \/ name \in TakenForCaptures(node)

(* Known: names are compared without their scopes, so that a binding of    *)
(* the module, of a nested function or of the callback's other branches    *)
(* stands in for the component's; the name an initializer consists of is   *)
(* no use (isReferencingIdentifier); a hook counts by its name.            *)
Confused(n, name) ==
    \/ name \in n.module \cup n.globals
    \/ \E d \in n.declares : d.name = name /\ d.at = "nested"
    \/ \E d \in n.decls : d.name = name /\ (d.inner \/ d.how \in {"regex", "ref of another hook"})
OnlyInitializes(n, name) == \A u \in Range(n.uses) : u.name = name /\ ~BoundInside(n, u) => u.place # "read"

(* A checked callback that captures a name that may differ from render to  *)
(* render has it in its list, or is reported.                              *)
QuietCallbacksListWhatTheyUse ==
    Visited(ExhaustiveId) /\ IsReactiveHook(node) /\ HookIsFromReact(node) /\ Checked(node) =>
        \A name \in Captured(node) :
            \/ name \in Heads(node) \/ <<"missing", name>> \in reports
            \/ ~Varies(node, name) \/ Confused(node, name) \/ OnlyInitializes(node, name)

(* An entry reported as unused names nothing the callback captures, and of *)
(* the entries with one path exactly one is reported as repeated.          *)
ReportedEntriesAreSuperfluous ==
    Visited(ExhaustiveId) =>
        \A i \in DOMAIN node.deps :
            /\ <<"unused", i>> \in reports =>
                  \/ node.deps[i].head \notin Captured(node)
                  \/ Confused(node, node.deps[i].head) \/ OnlyInitializes(node, node.deps[i].head)
            /\ (reports # {} /\ <<"not a list">> \notin reports /\ node.deps[i].head # "") =>
                  LET same == {j \in DOMAIN node.deps : node.deps[j] = node.deps[i]}
                  IN  Cardinality({j \in same : <<"repeated", j>> \in reports}) = IF Cardinality(same) > 1 THEN 1 ELSE 0

(* Steps that a run of the function takes exactly once when it takes what  *)
(* is around them.                                                         *)
TakenOnce ==
    {"if test", "for init", "iterated", "?: test", "switched", "try", "finally", "&& left", "argument", "block"}
(* Known: the head of a branching statement counts as a branch of it, and  *)
(* these steps do not count though they may be left out or taken later.    *)
Heading == TakenOnce \intersect (Branching \cup {"try"})
Unnoticed == {"??= right", "optional argument", "default", "constructor", "field"}

Steps == TakenOnce \cup Unnoticed \cup Branching \cup {"&& right", "catch"}

HigherOrder == Wrappers \cup {"React.memo"}
IsComponent(h) ==
    \/ IsComponentName(h.name) \/ IsHookName(h.name) \/ IsComponentName(h.own) \/ IsHookName(h.own)
    \/ Range(h.around) \intersect HigherOrder # {}

(* A hook call passes exactly when each run of its component reaches it    *)
(* once; a function that is refused is no component.  Known: wrappers      *)
(* written as members, or around another call, are not seen, and a         *)
(* function expression goes by the name it is given.                       *)
HookCallsAreAtTheTop ==
    Visited(TopLevelId) /\ IsHookCall(node) =>
        /\ "conditional" \in reports => \E i \in DOMAIN node.path : node.path[i] \notin TakenOnce \/ node.path[i] \in Heading
        /\ reports = {} => Range(node.path) \subseteq (TakenOnce \ Heading) \cup Unnoticed
        /\ "not React" \in reports =>
              \/ ~IsComponent(node.host) \/ Range(node.host.around) \ (Wrappers \cup {"("}) # {}
              \/ node.host.kind = "function expression" /\ node.host.own # node.host.name
        /\ reports = {} =>
              IsComponent(node.host) \/ InsideTestCallback(node.host) \/ node.host.concise

(* The two rules on hooks report what React would get wrong.               *)
HooksRunAsReactExpects ==
    /\ ReportedDependenciesAreMissing /\ QuietCallbacksListWhatTheyUse /\ ReportedEntriesAreSuperfluous
    /\ HookCallsAreAtTheTop

-----------------------------------------------------------------------------
(* The calls that a program can contain: entries with the same path have   *)
(* the same head, and a component binds a name once.                       *)
IsDependencyCall(n) ==
    /\ n.deps \in Seq([head : STRING, path : STRING])
    /\ \A i, j \in DOMAIN n.deps : n.deps[i].path = n.deps[j].path => n.deps[i].head = n.deps[j].head
    /\ \A d, e \in n.decls : d.name = e.name /\ ~d.inner /\ ~e.inner => d = e
    /\ \A d \in n.decls : d.inner \/ d.name \notin n.params
    /\ \A d \in n.declares : d.at \in {"parameter", "statement", "nested", "catch", "function expression"}

(* Only expressions stand in a call, and only a function expression has a  *)
(* name of its own besides the one it is given.                            *)
IsFunctionLike(h) ==
    /\ h.around \in Seq(STRING)
    /\ \/ h.kind = "module" /\ h.name = "none" /\ h.own = "none" /\ h.around = <<>>
       \/ h.kind \in {"method", "accessor", "function"} /\ h.own = h.name /\ h.around = <<>>
       \/ h.kind = "arrow" /\ h.own = "none"
       \/ h.kind = "function expression"
IsPlacedCall(n) == IsFunctionLike(n.host) /\ n.path \in Seq(Steps)

(* The engine dispatches the two rules on any number of such calls.        *)
HooksNext == Dispatch(ExhaustiveId, VisitHook) \/ Dispatch(TopLevelId, VisitHookCall)
HooksSpec(dependencyCalls, placedCalls) ==
    /\ Start(ExhaustiveId, dependencyCalls) \/ Start(TopLevelId, placedCalls)
    /\ [][HooksNext]_vars
=============================================================================
