------------------------------- MODULE AnyFlow -------------------------------
(***************************************************************************)
(* Four rules that follow a value of type any: no-unsafe-assignment,       *)
(* no-unsafe-return, no-unsafe-argument and no-unsafe-member-access.       *)
(***************************************************************************)
EXTENDS RuleVisit, SequencesExt, FiniteSetsExt

UnsafeAssignmentId == "no-unsafe-assignment"
UnsafeReturnId == "no-unsafe-return"
UnsafeArgumentId == "no-unsafe-argument"
UnsafeMemberId == "no-unsafe-member-access"

-----------------------------------------------------------------------------
(* A type: a symbol and what it is applied to.  A union's arguments are    *)
(* its members, those of an object the types of its properties.            *)
Ty(sym, args) == [sym |-> sym, args |-> args]
AnyType == Ty("any", <<>>)
NoType == Ty("none", <<>>)
Absorbing(t) == t.sym \in {"any", "unknown"}
Generics == {"Array", "Promise", "MyPromise", "Set"}

(* A tuple has type arguments and no symbol.                               *)
TypeArguments(t) == IF t.sym \in Generics \cup {"tuple"} THEN t.args ELSE <<>>

RECURSIVE IsUnsafe(_, _)
IsUnsafe(actual, declared) ==
    CASE actual = AnyType -> ~Absorbing(declared)
      [] actual.sym = "union" -> \E i \in DOMAIN actual.args : IsUnsafe(actual.args[i], declared)
      [] OTHER ->
            /\ actual.sym \in Generics /\ actual.sym = declared.sym
            /\ \E i \in DOMAIN actual.args : IsUnsafe(actual.args[i], declared.args[i])

IsAnyArray(t) == t = Ty("Array", <<AnyType>>)

-----------------------------------------------------------------------------
(* no-unsafe-assignment.  A pattern is a name, or a list of elements; an   *)
(* element binds what is at its place or key (0 when it is computed), may  *)
(* have a default and may be a hole or the rest.  A report names the path  *)
(* of the part of the pattern it is about.                                 *)
AtKey(type, kind, key) ==
    IF (kind = "array" /\ type.sym # "tuple") \/ (kind = "object" /\ type.sym # "object") \/ key \notin DOMAIN type.args
      THEN NoType ELSE type.args[key]

RECURSIVE Walk(_, _, _, _)
(* Mutant: what has a default is not looked into.                          *)
WalkElementWithoutDefault(elem, type, path, target) ==
    IF elem.form \in {"hole", "rest", "default"} \/ type = NoType THEN {}
    ELSE IF type = AnyType THEN {path} ELSE Walk(elem.pattern, type, path, target)
WalkElement(elem, type, path, target) ==
    IF elem.form \in {"hole", "rest"} \/ type = NoType THEN {}
    ELSE IF type = AnyType THEN {path}
    ELSE IF target /\ elem.form = "default" THEN {}
    ELSE Walk(elem.pattern, type, path, target)
Walk(pattern, type, path, target) ==
    CASE pattern.kind = "name" -> {}
      [] pattern.kind = "array" /\ IsAnyArray(type) -> {path}
      [] OTHER -> UNION {WalkElement(pattern.elems[i], AtKey(type, pattern.kind, pattern.elems[i].key), Append(path, i), target) :
                            i \in DOMAIN pattern.elems}
WalkDestructure(n) == Walk(n.pattern, n.source, <<>>, n.target)

Checked(n) ==
    /\ n.declared.sym # "unknown"
    /\ IF n.source = AnyType THEN n.declared # AnyType
       ELSE n.declared \notin {NoType, AnyType} /\ IsUnsafe(n.source, n.declared) /\ n.keyword

(* A property of a literal that is the target of an assignment is no       *)
(* source; where it is the target of a for loop that is not noticed.       *)
IsInAssignmentPattern(n) == n.in = "assignment pattern"

SpreadsAny(n) == n.source = AnyType \/ IsAnyArray(n.source)

VisitUnsafeAssignment(n) ==
    CASE IsInAssignmentPattern(n) -> {}
      [] n.in = "array spread" -> IF SpreadsAny(n) THEN {<<0>>} ELSE {}
      [] Checked(n) -> {<<0>>}
      [] OTHER -> WalkDestructure(n)

-----------------------------------------------------------------------------
(* no-unsafe-return: the functions around the statement, from the inside.  *)
Unnamed == [kind |-> "none", declared |-> NoType, async |-> FALSE]
EnclosingFunction(stack) ==
    LET seen == SelectSeq(stack, LAMBDA f : f.kind \in {"function", "arrow", "method"})
    IN  IF seen = <<>> THEN Unnamed ELSE seen[1]

RECURSIVE UnwrapPromise(_), AwaitedContainsAny(_), ContainsAnyDeep(_)
UnwrapPromise(t) == IF t.sym \in {"Promise", "MyPromise"} THEN UnwrapPromise(t.args[1]) ELSE t
AwaitedContainsAny(t) ==
    LET awaited == UnwrapPromise(t)
    IN  awaited = AnyType \/ (awaited.sym = "union" /\ \E i \in DOMAIN awaited.args : AwaitedContainsAny(awaited.args[i]))
ContainsAnyDeep(t) ==
    \/ t = AnyType
    \/ t.sym = "union" /\ \E i \in DOMAIN t.args : ContainsAnyDeep(t.args[i])
    \/ \E i \in DOMAIN TypeArguments(t) : ContainsAnyDeep(t.args[i])

VisitUnsafeReturn(n) ==
    LET fn == EnclosingFunction(n.stack)
        type == IF fn.async THEN UnwrapPromise(n.source) ELSE n.source
        declared == IF fn.async THEN UnwrapPromise(fn.declared) ELSE fn.declared
        unsafe == IF declared # NoType THEN IsUnsafe(type, declared) /\ (type = AnyType \/ n.keyword)
                  ELSE IF fn.async THEN AwaitedContainsAny(type)
                  ELSE type.sym \notin {"Promise", "MyPromise"} /\ ContainsAnyDeep(type)
    IN  IF unsafe THEN {<<0>>} ELSE {}

-----------------------------------------------------------------------------
(* no-unsafe-argument: the arguments and the parameters, the last of which *)
(* stands for all that follow when the list is open.                       *)
ParamAt(n, i) == IF i <= Len(n.params) THEN n.params[i] ELSE IF n.open THEN Last(n.params) ELSE NoType
ParamIsSpecific(n, i) == ParamAt(n, i) # NoType /\ ~Absorbing(ParamAt(n, i))

SpreadIsUnsafe(n, i) ==
    LET type == n.args[i].type
    IN  \/ (type = AnyType \/ IsAnyArray(type)) /\ ParamIsSpecific(n, i)
        \/ /\ type.sym = "tuple"
           /\ \E k \in DOMAIN type.args : ParamIsSpecific(n, i + k - 1) /\ IsUnsafe(type.args[k], ParamAt(n, i + k - 1))
ArgumentIsUnsafe(n, i) ==
    LET arg == n.args[i]
    IN  IF arg.form = "spread" THEN SpreadIsUnsafe(n, i)
        ELSE ParamIsSpecific(n, i) /\ (arg.type = AnyType \/ (arg.keyword /\ IsUnsafe(arg.type, ParamAt(n, i))))
VisitUnsafeArguments(n) == {<<i>> : i \in {j \in DOMAIN n.args : ArgumentIsUnsafe(n, j)}}

-----------------------------------------------------------------------------
(* no-unsafe-member-access, on each access of a chain: the type of its     *)
(* receiver, whether it is written with ?., whether a call or parentheses  *)
(* are between it and the access before, and whether its index is any.     *)
IsMember(n, i) == i >= 1 /\ ~n.links[i + 1].apart
RECURSIVE StateOf(_, _)
StateOf(n, i) ==
    CASE n.allowOptional /\ n.links[i].optional -> "chained"
      [] i > 1 /\ IsMember(n, i - 1) /\ StateOf(n, i - 1) = "unsafe" -> "unsafe"
      [] n.links[i].receiver = AnyType -> "unsafe"
      [] OTHER -> "safe"
AccessIsUnsafe(n, i) ==
    /\ ~(n.allowOptional /\ n.links[i].optional)
    /\ ~(i > 1 /\ IsMember(n, i - 1) /\ StateOf(n, i - 1) = "unsafe")
    /\ n.links[i].receiver = AnyType \/ n.links[i].index = AnyType
VisitUnsafeMembers(n) == {<<i>> : i \in {j \in DOMAIN n.links : AccessIsUnsafe(n, j)}}

-----------------------------------------------------------------------------
(* Where any goes.  What a type holds can be read along paths, and any is  *)
(* lost when a path that leads to any in the source leads to a more        *)
(* specific type where the value is received.                              *)
RECURSIVE Reads(_)
Reads(t) ==
    IF t.sym = "union" THEN UNION {Reads(t.args[i]) : i \in DOMAIN t.args}
    ELSE {<<<<>>, t.sym>>} \cup UNION {{<<<<<<t.sym, i>>>> \o r[1], r[2]>> : r \in Reads(t.args[i])} : i \in DOMAIN t.args}
Launders(source, received) ==
    \E r \in Reads(source), s \in Reads(received) : r[2] = "any" /\ r[1] = s[1] /\ s[2] \notin {"any", "unknown"}

(* What each name of a pattern receives, by the path to the name.          *)
RECURSIVE Receives(_, _, _)
Receives(pattern, type, path) ==
    IF pattern.kind = "name" THEN {<<path, type>>}
    ELSE UNION {LET e == pattern.elems[i]
                    t == IF type = AnyType THEN AnyType
                         ELSE IF pattern.kind = "array" /\ type.sym = "Array" THEN type.args[1] ELSE AtKey(type, pattern.kind, e.key)
                IN  IF e.form \in {"hole", "rest"} THEN {} ELSE Receives(e.pattern, t, Append(path, i)) : i \in DOMAIN pattern.elems}

(* What the part of the pattern at a path is matched with.                 *)
RECURSIVE Matched(_, _, _)
Matched(pattern, type, path) ==
    IF path = <<>> THEN type
    ELSE Matched(pattern.elems[path[1]].pattern, AtKey(type, pattern.kind, pattern.elems[path[1]].key), Tail(path))

(* Known: an element of an array is not looked into, nor what has a        *)
(* default on the left of an assignment.                                   *)
RECURSIVE Opaque(_, _, _, _)
Opaque(pattern, type, path, target) ==
    /\ path # <<>>
    /\ LET e == pattern.elems[path[1]]
       IN  \/ type.sym = "Array"
           \/ target /\ e.form = "default" /\ Len(path) > 1
           \/ Opaque(e.pattern, AtKey(type, pattern.kind, e.key), Tail(path), target)

(* A name that receives any from a destructured value is covered by one    *)
(* report, about itself or a part around it that is any throughout.        *)
DestructuringIsCovered ==
    Visited(UnsafeAssignmentId) /\ node.in = "pattern" /\ reports # {<<0>>} =>
        /\ \A path \in reports : Matched(node.pattern, node.source, path) \in {AnyType, Ty("Array", <<AnyType>>)}
        /\ \A p, q \in reports : IsPrefix(p, q) => p = q
        /\ \A r \in Receives(node.pattern, node.source, <<>>) :
              r[2] = AnyType =>
                 \/ \E path \in reports : IsPrefix(path, r[1])
                 \/ node.declared.sym \in {"unknown", "any"} \/ Opaque(node.pattern, node.source, r[1], node.target)

(* Known: any inside a type is only followed when the expression spells it *)
(* (rule.go:101-117), through type arguments and not through tuples,       *)
(* properties or a union on the receiving side.                            *)
RECURSIVE Nominal(_)
Nominal(t) == t.sym \notin {"union", "tuple", "object"} /\ \A i \in DOMAIN t.args : Nominal(t.args[i])
Followed(source, received, keyword) == source = AnyType \/ (keyword /\ Nominal(source) /\ Nominal(received))
Agrees(reported, source, received, keyword) ==
    /\ reported => Launders(source, received)
    /\ Launders(source, received) /\ Followed(source, received, keyword) => reported

AssignmentsAreJudged ==
    Visited(UnsafeAssignmentId) /\ node.in \in {"declaration", "property"} /\ node.declared # NoType =>
        Agrees(reports # {}, node.source, node.declared, node.keyword)

(* A function that declares its result returns no any for it.  Known: a    *)
(* statement in an accessor or a constructor is taken for one of the       *)
(* function around that.                                                   *)
Accessors == {"get", "constructor"}
Awaited(fn, t) == IF fn.async THEN UnwrapPromise(t) ELSE t
ReturnsAreJudged ==
    Visited(UnsafeReturnId) /\ node.stack[1].kind \notin Accessors =>
        LET fn == node.stack[1]
        IN  /\ fn.declared # NoType =>
                  Agrees(reports # {}, Awaited(fn, node.source), Awaited(fn, fn.declared), node.keyword)
            /\ fn.declared = NoType /\ reports # {} => \E r \in Reads(node.source) : r[2] = "any"
            /\ fn.declared = NoType /\ Awaited(fn, node.source) = AnyType => reports # {}

(* Where the elements of an argument go.  Known: what follows a spread     *)
(* tuple is judged by the parameter at its own place in the list, and a    *)
(* spread array only by the first parameter it reaches.                    *)
Width(arg) == IF arg.form = "spread" /\ arg.type.sym = "tuple" THEN Len(arg.type.args) ELSE 1
PlaceOf(n, i) == 1 + FoldFunctionOnSet(+, 0, [j \in DOMAIN n.args |-> Width(n.args[j])], 1..(i - 1))
AfterSpread(n, i) == \E j \in 1..(i - 1) : n.args[j].form = "spread"
PassesAny(n, i) ==
    LET type == n.args[i].type
    IN  IF n.args[i].form = "plain" THEN ParamAt(n, PlaceOf(n, i)) # NoType /\ Launders(type, ParamAt(n, PlaceOf(n, i)))
        ELSE IF type.sym = "tuple"
          THEN \E k \in DOMAIN type.args : ParamAt(n, PlaceOf(n, i) + k - 1) # NoType /\ Launders(type.args[k], ParamAt(n, PlaceOf(n, i) + k - 1))
        ELSE ParamAt(n, PlaceOf(n, i)) # NoType /\ (type = AnyType \/ IsAnyArray(type)) /\ Launders(AnyType, ParamAt(n, PlaceOf(n, i)))
ArgumentsAreJudged ==
    Visited(UnsafeArgumentId) =>
        \A i \in DOMAIN node.args :
            AfterSpread(node, i) \/
                /\ <<i>> \in reports => PassesAny(node, i)
                /\ PassesAny(node, i) /\ (node.args[i].form = "spread" \/ node.args[i].type = AnyType) => <<i>> \in reports

(* A chain that reads from any is reported, at the first such access and   *)
(* once; with allowOptionalChaining each ?. starts it anew, and so do      *)
(* parentheses and calls.                                                  *)
Anew(n, i) == i = 1 \/ n.links[i].apart \/ (n.allowOptional /\ n.links[i - 1].optional)
ChainsAreReportedOnce ==
    Visited(UnsafeMemberId) =>
        \A i \in DOMAIN node.links :
            /\ <<i>> \in reports => AnyType \in {node.links[i].receiver, node.links[i].index}
            /\ node.links[i].receiver = AnyType =>
                  \/ \E j \in 1..i : <<j>> \in reports /\ node.links[j].receiver = AnyType
                  \/ node.allowOptional /\ \E j \in 1..i : node.links[j].optional
            /\ \A j \in 1..(i - 1) :
                  {<<i>>, <<j>>} \subseteq reports /\ node.links[j].receiver = AnyType => \E k \in (j + 1)..i : Anew(node, k)

AnyIsNotLost ==
    DestructuringIsCovered /\ AssignmentsAreJudged /\ ReturnsAreJudged /\ ArgumentsAreJudged /\ ChainsAreReportedOnce
=============================================================================
