--------------------------- MODULE AssignedValues ---------------------------
(***************************************************************************)
(* Rules on where a value goes: no-self-assign pairs the targets of an     *)
(* assignment with what they get, no-unsafe-optional-chaining follows the  *)
(* undefined of a chain, no-useless-default-assignment asks whether a slot *)
(* can be undefined.                                                       *)
(***************************************************************************)
EXTENDS RuleVisit, SequencesExt

SelfAssignId == "no-self-assign"
OptionalChainingId == "no-unsafe-optional-chaining"
UselessDefaultId == "no-useless-default-assignment"

-----------------------------------------------------------------------------
(* no-self-assign.  An expression has a kind, a name (of an identifier, a  *)
(* member, a literal or a property) and subexpressions; "element" is       *)
(* a[..], "=" a target with a default.                                     *)
RECURSIVE InnerExpr(_)
InnerExpr(e) == IF e.kind = "paren" THEN InnerExpr(e.subs[1]) ELSE e
IsMemberExpr(e) == e.kind \in {"member", "private", "element"}
HasStaticName(e) == e.kind = "member" \/ (e.kind = "element" /\ e.subs[2].kind = "literal")
StaticName(e) == IF e.kind = "member" THEN e.name ELSE e.subs[2].name

RECURSIVE IsSameRef(_, _), IsMemberSameRef(_, _)
IsSameRef(l, r) ==
    LET a == InnerExpr(l)
        b == InnerExpr(r)
    IN  \/ a.kind = b.kind /\ a.kind \in {"this", "super"}
        \/ a.kind = "id" /\ b.kind = "id" /\ a.name = b.name
        \/ IsMemberExpr(a) /\ IsMemberExpr(b) /\ IsMemberSameRef(a, b)
IsMemberSameRef(a, b) ==
    IF HasStaticName(a) /\ HasStaticName(b) /\ StaticName(a) = StaticName(b) THEN IsSameRef(a.subs[1], b.subs[1])
    ELSE /\ (a.kind = "element") = (b.kind = "element")
         /\ IsSameRef(a.subs[1], b.subs[1])
         /\ IF a.kind = "element" THEN IsSameRef(a.subs[2], b.subs[2])
            ELSE a.kind = "private" /\ b.kind = "private" /\ a.name = b.name

(* Properties: "prop" and "shorthand" by name, "computed" by an expression *)
PropertyNamed(p) == p.kind \in {"prop", "shorthand"} \/ (p.kind = "computed" /\ p.subs[1].kind = "literal")
NameOfProperty(p) == IF p.kind = "computed" THEN p.subs[1].name ELSE p.name
ValueOfProperty(p) == Last(p.subs)

RECURSIVE EachSelfAssignment(_, _, _)
MatchArray(l, r, props) ==
    LET before == {i \in DOMAIN r.subs : \A j \in 1..i : r.subs[j].kind # "spread"} \cap DOMAIN l.subs
    IN  UNION {EachSelfAssignment(l.subs[i], r.subs[i], props) :
                i \in {k \in before : l.subs[k].kind # "omitted" /\ r.subs[k].kind # "omitted"}}
EachPropertySelfAssign(lp, rp, props) ==
    IF ~PropertyNamed(lp) \/ ~PropertyNamed(rp) THEN {}
    ELSE IF NameOfProperty(lp) = NameOfProperty(rp) THEN EachSelfAssignment(ValueOfProperty(lp), ValueOfProperty(rp), props) ELSE {}
MatchObject(l, r, props) ==
    LET after == {j \in DOMAIN r.subs : \A k \in j..Len(r.subs) : r.subs[k].kind # "spread"}
    IN  UNION {EachPropertySelfAssign(l.subs[i], r.subs[j], props) : i \in DOMAIN l.subs, j \in after}
EachSelfAssignment(left, right, props) ==
    LET l == InnerExpr(left)
        r == InnerExpr(right)
    IN  CASE l.kind = "array" /\ r.kind = "array" -> MatchArray(l, r, props)
          [] l.kind = "object" /\ r.kind = "object" -> MatchObject(l, r, props)
          [] l.kind = "id" /\ r.kind = "id" -> IF l.name = r.name THEN {r} ELSE {}
          [] IsMemberExpr(l) /\ IsMemberExpr(r) -> IF props /\ IsMemberSameRef(l, r) THEN {r} ELSE {}
          [] OTHER -> {}
VisitAssigned(n) == IF n.op \in {"=", "&&=", "||=", "??="} THEN EachSelfAssignment(n.left, n.right, n.props) ELSE {}

-----------------------------------------------------------------------------
(* What the assignment does: its targets in their order, each with what it *)
(* gets, which is unknown where a pattern is not met by a literal.         *)
UnknownValue == [kind |-> "unknown", name |-> "", subs |-> <<>>]
ElementGiven(r, i) ==
    IF r.kind = "array" /\ i \in DOMAIN r.subs /\ (\A j \in 1..i : r.subs[j].kind # "spread") /\ r.subs[i].kind # "omitted"
    THEN r.subs[i] ELSE UnknownValue
(* The last property that may be of the name decides.                      *)
SameKey(p, q) ==
    \/ PropertyNamed(p) /\ PropertyNamed(q) /\ NameOfProperty(p) = NameOfProperty(q)
    \/ p.kind = "computed" /\ q.kind = "computed" /\ p.subs[1] = q.subs[1]
PropertyGiven(r, lp) ==
    LET may == {j \in DOMAIN r.subs : SameKey(lp, r.subs[j]) \/ r.subs[j].kind = "spread"
                                        \/ (r.subs[j].kind = "method" /\ PropertyNamed(lp) /\ r.subs[j].name = NameOfProperty(lp))
                                        \/ (r.subs[j].kind = "computed" /\ ~PropertyNamed(r.subs[j])) \/ (~PropertyNamed(lp))}
        last == CHOOSE j \in may : \A k \in may : k <= j
    IN  IF r.kind = "object" /\ may # {} /\ SameKey(lp, r.subs[last]) THEN ValueOfProperty(r.subs[last]) ELSE UnknownValue

RECURSIVE GivenTo(_, _)
GivenTo(left, right) ==
    LET l == InnerExpr(left)
        r == InnerExpr(right)
    IN  CASE l.kind = "array" -> FlattenSeq([i \in DOMAIN l.subs |-> GivenTo(l.subs[i], ElementGiven(r, i))])
          [] l.kind = "object" -> FlattenSeq([i \in DOMAIN l.subs |->
                IF l.subs[i].kind \in {"spread", "shorthand default"} THEN GivenTo(Head(l.subs[i].subs), UnknownValue)
                ELSE GivenTo(ValueOfProperty(l.subs[i]), PropertyGiven(r, l.subs[i]))])
          [] l.kind = "=" -> GivenTo(l.subs[1], UnknownValue)
          [] l.kind = "spread" -> GivenTo(l.subs[1], UnknownValue)
          [] l.kind = "omitted" -> <<>>
          [] OTHER -> <<[to |-> l, from |-> r]>>
(* The place an expression reads, however it is written.                   *)
RECURSIVE Place(_)
Place(e) ==
    CASE e.kind = "paren" -> Place(e.subs[1])
      [] e.kind = "element" /\ e.subs[2].kind = "literal" -> [kind |-> "member", name |-> e.subs[2].name, subs |-> <<Place(e.subs[1])>>]
      [] OTHER -> [e EXCEPT !.subs = [i \in DOMAIN e.subs |-> Place(e.subs[i])]]
RECURSIVE PlacesIn(_)
PlacesIn(place) == {place} \cup UNION {PlacesIn(place.subs[i]) : i \in DOMAIN place.subs}
SamePlace(p) == Place(p.to) = Place(p.from) /\ \A q \in PlacesIn(Place(p.to)) : q.kind # "call"
(* A target given something else changes what is read through it.          *)
Disturbs(p, q) == ~SamePlace(p) /\ Place(p.to) \in PlacesIn(Place(q.to))
SelfAssigned(given, props) ==
    {i \in DOMAIN given : SamePlace(given[i]) /\ (props \/ given[i].to.kind = "id") /\ \A j \in 1..(i - 1) : ~Disturbs(given[j], given[i])}

(* Known: of several properties of a name each is taken, computed ones and *)
(* methods do not override.                                                *)
OverridingProperties(n) ==
    LET r == InnerExpr(n.right)
    IN  r.kind = "object" /\ \E j, k \in DOMAIN r.subs : j < k /\ r.subs[k].kind # "spread" /\ ((~PropertyNamed(r.subs[k])) \/ SameKey(r.subs[j], r.subs[k]))
(* Known: keys that are computed the same way are not compared.            *)
ComputedKeysUnread(n) == \E i \in DOMAIN n.left.subs : n.left.subs[i].kind = "computed" /\ ~PropertyNamed(n.left.subs[i])
(* Known: what an earlier target of the pattern changes is not considered. *)
EarlierTarget(n) ==
    LET given == GivenTo(n.left, n.right)
    IN  \E i \in DOMAIN given, j \in DOMAIN given : j < i /\ Disturbs(given[j], given[i])
(* Known: an index that is an operation is not compared.                   *)
IndexUnread(n) == \E p \in PlacesIn(n.left) : p.kind = "element" /\ p.subs[2].kind = "operation"

(* An assignment is reported for each target that gets what it held, as    *)
(* the patterns and literals on both sides are taken apart.                *)
NothingIsAssignedToItself ==
    Visited(SelfAssignId) =>
        LET given == GivenTo(node.left, node.right)
            self == IF node.op = "op=" THEN {} ELSE {given[i].from : i \in SelfAssigned(given, node.props)}
        IN  reports = self \/ OverridingProperties(node) \/ ComputedKeysUnread(node) \/ EarlierTarget(node) \/ IndexUnread(node)

-----------------------------------------------------------------------------
(* no-unsafe-optional-chaining.  "path": what the chain is to its parent,  *)
(* that to its own, and so on.                                             *)
RECURSIVE ClassifyChain(_, _, _)
ClassifyChain(path, i, arithmetic) ==
    IF i > Len(path) THEN "none"
    ELSE CASE path[i] \in {"paren", "cast", "await", "&& left", "&& right", "|| right", "?? right", "branch"} -> ClassifyChain(path, i + 1, arithmetic)
           [] path[i] \in {"callee", "new callee", "receiver", "tag", "for-of value", "with", "array spread", "declared pattern", "extends",
                           "assigned pattern", "in right", "instanceof right"} -> "usage"
           [] path[i] \in {"unary +", "+ operand", "arithmetic op= right"} -> IF arithmetic THEN "arithmetic" ELSE "none"
           [] OTHER -> "none"
(* Only the whole of a chain is looked at.                                 *)
VisitChain(n) == IF n.inChain THEN {} ELSE {ClassifyChain(n.path, 1, n.arithmetic)} \ {"none"}

(* The undefined of a chain that is cut short, on its way out.             *)
RECURSIVE FateOfUndefined(_)
FateOfUndefined(path) ==
    CASE path = <<>> -> "none"
      [] Head(path) \in {"paren", "cast", "await", "&& left", "&& right", "|| right", "?? right", "branch", "comma right", "assigned"} ->
           FateOfUndefined(Tail(path))
      [] Head(path) \in {"callee", "new callee", "receiver", "tag", "for-of value", "with", "array spread", "call spread", "yield*", "declared pattern",
                         "assigned pattern", "pattern default", "extends", "in right", "instanceof right"} -> "usage"
      [] Head(path) \in {"unary +", "+ operand", "* operand", "arithmetic op= right"} -> "arithmetic"
      [] OTHER -> "none"

(* Known: the arguments of a call and yield* spread undefined unnoticed.   *)
SpreadUnnoticed(n) == {"call spread", "yield*"} \cap Range(n.path) # {}
(* Known: assignments and the comma hand on what is not followed.          *)
HandedOnUnnoticed(n) == {"assigned", "comma right"} \cap Range(n.path) # {}
(* Known: the default of a pattern inside a pattern or of a parameter.     *)
PatternDefaultUnnoticed(n) == "pattern default" \in Range(n.path)
(* Known: of the binary operators only + and - are arithmetic.             *)
OtherArithmetic(n) == "* operand" \in Range(n.path) /\ n.arithmetic

(* A chain is reported when its undefined gets where that is an error, or, *)
(* if the option asks for it, where it makes NaN.                          *)
UndefinedStaysSafe ==
    Visited(OptionalChainingId) =>
        LET fate == FateOfUndefined(node.path)
        IN  \/ reports = (IF node.inChain \/ fate = "none" \/ (fate = "arithmetic" /\ ~node.arithmetic) THEN {} ELSE {fate})
            \/ SpreadUnnoticed(node) \/ HandedOnUnnoticed(node) \/ PatternDefaultUnnoticed(node) \/ OtherArithmetic(node)

-----------------------------------------------------------------------------
(* no-useless-default-assignment, under strictNullChecks.  The source of a *)
(* pattern is a union of shapes; in each the slot has a type, a set of     *)
(* members, and is there, optional or missing.                             *)
TypeIncludesUndefined(type) == {"any", "unknown", "undefined"} \cap type # {}
TypeOfSlot(shapes) == UNION {IF s.slot = "optional" THEN s.type \cup {"undefined"} ELSE s.type : s \in shapes}
(* The slot's name: a key that is neither a name nor a string is passed    *)
(* over for the variable's.                                                *)
BindingElementKey(n) == IF n.key \in {"name", "string", "none"} THEN "slot" ELSE "variable"
DestructuringSlotIsKnown(n) ==
    /\ n.source \in {"initialised variable", "annotated parameter", "outer slot"}
    /\ CASE n.place = "object" -> BindingElementKey(n) = "slot" /\ \A s \in n.shapes : s.slot # "missing"
         [] n.place = "array" -> \A s \in n.shapes : s.slot \notin {"missing", "array"} /\ n.shapes = {s}
VisitBindingElement(n) ==
    IF n.source = "assignment" THEN {}
    ELSE IF n.place = "object" /\ BindingElementKey(n) = "variable"
         THEN IF n.source \in {"initialised variable", "annotated parameter", "outer slot"} /\ n.namesake # {} /\ ~TypeIncludesUndefined(n.namesake) THEN {"default"} ELSE {}
    ELSE IF DestructuringSlotIsKnown(n) /\ ~TypeIncludesUndefined(TypeOfSlot(n.shapes)) THEN {"default"} ELSE {}
(* The parameter's type in the first signature the context has for it.     *)
VisitParameterDefault(n) ==
    LET first == n.signatures[1]
    IN  IF /\ n.source = "callback" /\ n.signatures # <<>> /\ first.slot \notin {"missing", "rest"}
           /\ first.type # {"T"} /\ ~TypeIncludesUndefined(TypeOfSlot({first}))
        THEN {"default"} ELSE {}
VisitDefault(n) ==
    IF n.init = "undefined" /\ n.source # "assignment" THEN {"default"}
    ELSE IF n.place = "parameter" THEN VisitParameterDefault(n) ELSE VisitBindingElement(n)

(* The default is used when the slot can be undefined or missing.          *)
MayBeUndefined(s) == s.slot \in {"optional", "missing", "rest", "array"} \/ {"any", "unknown", "undefined", "T"} \cap s.type # {}
DefaultIsUseful(n) ==
    /\ n.init # "undefined" /\ n.init # "void 0"
    /\ IF n.place = "parameter" THEN n.source # "callback" \/ n.signatures = <<>> \/ \E s \in Range(n.signatures) : MayBeUndefined(s)
       ELSE \E s \in n.shapes : MayBeUndefined(s)

(* Known: void 0 is another undefined.                                     *)
VoidIsUndefined(n) == n.init = "void 0"
(* Known: a key that is a number or computed is mistaken for the variable. *)
KeyMistaken(n) == n.place = "object" /\ BindingElementKey(n) = "variable"
(* Known: a type parameter in a pattern's slot, the rest of a tuple.       *)
SlotMayBeUndefined(n) == n.place # "parameter" /\ \E s \in n.shapes : s.slot = "rest" \/ "T" \in s.type
(* Known: unions of tuples, loops, inferred parameters and assignments.    *)
SourceUnread(n) == n.place # "parameter" /\ (n.source \in {"loop", "inferred parameter", "assignment"} \/ (n.place = "array" /\ \A s \in n.shapes : n.shapes # {s}))
(* Known: of several signatures the first is taken.                        *)
LaterSignatures(n) == n.place = "parameter" /\ Len(n.signatures) > 1

(* A default is reported when the slot cannot be undefined.                *)
DefaultsAreNeeded ==
    Visited(UselessDefaultId) =>
        \/ (reports # {}) = ~DefaultIsUseful(node)
        \/ VoidIsUndefined(node) \/ KeyMistaken(node) \/ SlotMayBeUndefined(node) \/ SourceUnread(node) \/ LaterSignatures(node)
=============================================================================
