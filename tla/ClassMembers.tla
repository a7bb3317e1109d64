---------------------------- MODULE ClassMembers ----------------------------
(***************************************************************************)
(* Rules on the members of classes: prefer-readonly follows the writes of  *)
(* a private field, no-unused-private-class-members what becomes of the    *)
(* values of a private name, unbound-method what becomes of a method.      *)
(***************************************************************************)
EXTENDS RuleVisit, SequencesExt

PreferReadonlyId == "prefer-readonly"
UnusedPrivateId == "no-unused-private-class-members"
UnboundMethodId == "unbound-method"

-----------------------------------------------------------------------------
(* prefer-readonly.  One write of a field of the name stands below         *)
(* "frames", the outermost first; an alias of this is declared in one of   *)
(* them.                                                                   *)
FunctionFrames == {"arrow", "function", "object method"}

(* Where a scope of aliases is opened: around members, and around methods  *)
(* that have some.                                                         *)
AliasesAt(n, i) ==
    IF n.alias.at # i THEN {}
    ELSE IF n.alias.declared \in {"= this", "as this"} THEN {"alias"} ELSE {}
RECURSIVE KnownAliases(_, _)
KnownAliases(n, i) ==
    IF i = 0 THEN {}
    ELSE CASE n.frames[i] = "constructor" -> AliasesAt(n, i)
           [] n.frames[i] \in {"method", "static method", "object method"} ->
                IF AliasesAt(n, i) # {} THEN AliasesAt(n, i) ELSE KnownAliases(n, i - 1)
           [] OTHER -> KnownAliases(n, i - 1)
(* For a static field every member has its own scope, also without any.    *)
StaticAliases(n) ==
    LET scopes == {i \in DOMAIN n.frames : n.frames[i] \in {"constructor", "method", "static method", "object method"}}
    IN  IF scopes = {} THEN {} ELSE AliasesAt(n, Max(scopes))
InConstructor(n) == n.frames # <<>> /\ Last(n.frames) = "constructor"

IsThis(n) == n.receiver = "this"
IsAlias(n) ==
    n.receiver = "alias" /\ (IF n.static THEN StaticAliases(n) ELSE KnownAliases(n, Len(n.frames))) # {}
IsAssignment(n) == n.op \in {"=", "op="} /\ n.target \in {"property", "element"}
IsIncrement(n) == n.op \in {"++", "delete"} /\ n.target = "property"
(* A pattern's names are looked for anywhere in it, parentheses are one.   *)
IsDestructuringWriteTo(n) ==
    \/ n.op \in {"pattern", "pattern default"} /\ n.target = "property"
    \/ n.op = "=" /\ n.target = "(property)"

ClassWritesToProperty(n) ==
    /\ n.op # "none" /\ (IsThis(n) \/ IsAlias(n)) /\ "class" \notin Range(n.frames)
    /\ IsIncrement(n) \/ (~InConstructor(n) /\ (IsAssignment(n) \/ IsDestructuringWriteTo(n)))
(* In every function and nested class; the field's class by its name.      *)
ClassWritesToStatic(n) ==
    /\ n.receiver = "Class" \/ IsAlias(n)
    /\ n.target = "property" /\ n.op \in {"=", "op=", "++", "delete"}

PropertyNameKnown(n) == ~n.decorated /\ n.key # "computed string"
VisitPrivateField(n) ==
    LET field == n.field
    IN  IF \/ field = "public" \/ n.readonly \/ n.accessor \/ (n.onlyInlineLambdas /\ n.initializer # "arrow")
           \/ ~PropertyNameKnown(n)
           \/ n.static /\ n.classNamed /\ ClassWritesToStatic(n)
           \/ ~n.static /\ ClassWritesToProperty(n)
        THEN {} ELSE {"field"}

(* What this is below the frames: the object or the class the field is of. *)
RECURSIVE ThisAt(_, _)
ThisAt(frames, i) ==
    IF i = 0 THEN "object"
    ELSE CASE frames[i] = "arrow" -> ThisAt(frames, i - 1)
           [] frames[i] \in {"constructor", "method"} -> IF "class" \in Range(SubSeq(frames, 1, i)) THEN "other" ELSE "object"
           [] frames[i] = "static method" -> "class"
           [] OTHER -> "other"
OwnerOfThis(n) ==
    CASE n.receiver = "this" -> ThisAt(n.frames, Len(n.frames))
      [] n.receiver = "alias" -> ThisAt(n.frames, n.alias.at)
      [] n.receiver = "instance" -> "object"
      [] n.receiver = "Class" -> "class"
IsWritten(n) == n.op \notin {"none", "pattern default"} /\ OwnerOfThis(n) = (IF n.static THEN "class" ELSE "object")
(* A constructor may give readonly fields of this their values.            *)
CouldBeReadonly(n) ==
    /\ n.field # "public" /\ ~n.readonly /\ ~n.accessor
    /\ n.onlyInlineLambdas => n.initializer = "arrow"
    /\ IsWritten(n) => InConstructor(n) /\ n.receiver = "this" /\ n.op # "delete"

(* Known: a decorator and a computed string keep the name from being known *)
NameUnread(n) == ~PropertyNameKnown(n)
(* Known: ++ in the constructor counts as a later write.                   *)
CountedInConstructor(n) == InConstructor(n) /\ n.op = "++"
(* Known: through an alias the constructor's writes are its own, too.      *)
AliasInConstructor(n) == InConstructor(n) /\ n.receiver = "alias" /\ IsWritten(n)
(* Known: the this of a function, and of a static method, is taken for the *)
(* object's.                                                               *)
ThisOfFunctions(n) == n.receiver \in {"this", "alias"} /\ ~n.static /\ OwnerOfThis(n) # "object"
(* Known: through an alias a nested class's writes go unseen.              *)
AliasInNestedClass(n) == n.receiver = "alias" /\ "class" \in Range(n.frames) /\ IsWritten(n)
(* Known: an alias is found where a member declares it, and by its name.   *)
AliasMisplaced(n) ==
    n.receiver = "alias" /\ (KnownAliases(n, Len(n.frames)) = {} \/ n.static # (OwnerOfThis(n) = "class"))
(* Known: for a static field an alias is forgotten in a method inside the  *)
(* one that declares it, and the field reported although it is written.    *)
AliasForgotten(n) == n.static /\ n.receiver = "alias" /\ KnownAliases(n, Len(n.frames)) # {} /\ ~IsAlias(n) /\ IsWritten(n)
(* Known: another object of the class is not noticed.                      *)
OtherObjects(n) == n.receiver = "instance" /\ IsWritten(n)
(* Known: writes in the heads of loops, through parentheses and other      *)
(* wrappers, and by ++, delete and patterns of an element.                 *)
WritesUnread(n) ==
    IsWritten(n) /\ (n.op \in {"loop head", "loop pattern"} \/ (n.target = "(property)" /\ n.op # "=")
                     \/ (n.target = "element" /\ n.op \notin {"=", "op="}))
(* Known: what a pattern reads is a write.                                 *)
PatternReads(n) == n.op = "pattern default"
(* Known: a static field is written as a property of the class by name     *)
(* only.                                                                   *)
StaticByName(n) == n.static /\ IsWritten(n) /\ (n.receiver = "this" \/ n.target # "property" \/ n.op = "pattern" \/ ~n.classNamed)

(* A private field is to be readonly when nothing but the constructor      *)
(* writes it, whatever name and function the write goes through.           *)
ReadonlyIsPossible ==
    Visited(PreferReadonlyId) =>
        \/ (reports # {}) = CouldBeReadonly(node)
        \/ NameUnread(node) \/ CountedInConstructor(node) \/ AliasInConstructor(node) \/ ThisOfFunctions(node) \/ AliasMisplaced(node)
        \/ AliasForgotten(node)
        \/ AliasInNestedClass(node)
        \/ OtherObjects(node) \/ WritesUnread(node) \/ PatternReads(node) \/ StaticByName(node)

-----------------------------------------------------------------------------
(* no-unused-private-class-members.  "path": what the access is to its     *)
(* parent, that to its own, and so on; "wrap" is a parenthesis or a cast.  *)
SkipTransparent(path, i) ==
    IF \E j \in i..Len(path) : path[j] # "wrap" THEN CHOOSE j \in i..Len(path) : path[j] # "wrap" /\ \A k \in i..(j - 1) : path[k] = "wrap"
    ELSE Len(path) + 1
(* A position is found by comparing extents, wrappers being part of them.  *)
PositionMoved(path, i) == i > 1 /\ path[i - 1] = "wrap"

RECURSIVE IsDestructuringWriteTarget(_, _, _)
IsDestructuringWriteTarget(path, from, crossed) ==
    LET i == SkipTransparent(path, from)
    IN  IF i > Len(path) THEN FALSE
        ELSE CASE path[i] = "= left" -> ~PositionMoved(path, i) /\ ~crossed
               [] path[i] \in {"array", "object value", "spread"} -> IsDestructuringWriteTarget(path, i + 1, crossed)
               [] path[i] = "computed key" -> IsDestructuringWriteTarget(path, i + 1, TRUE)
               [] OTHER -> FALSE

RECURSIVE IsValueConsumed(_, _)
IsValueConsumed(path, from) ==
    LET i == SkipTransparent(path, from)
    IN  IF i > Len(path) THEN FALSE
        ELSE CASE path[i] \in {"= right", "arrow body", "parameter default", "binding default", "for-of value"} -> ~PositionMoved(path, i)
               [] path[i] \in {"op= right", "logical left", "ternary test"} -> ~PositionMoved(path, i) \/ IsValueConsumed(path, i + 1)
               [] path[i] \in {"op= left", "logical right", "ternary branch", "unary"} -> IsValueConsumed(path, i + 1)
               [] path[i] \in {"= left", "for-of head", "statement", "for test", "jsx", "function body"} -> FALSE
               [] OTHER -> TRUE

IsReadReference(n) ==
    n.reference = "in" \/ (~IsDestructuringWriteTarget(n.path, 1, FALSE) /\ IsValueConsumed(n.path, 1))
(* Nested classes are skipped; a pair's second name refers to the first.   *)
RefSeen(n) == n.member = "pair" \/ (n.reference # "none" /\ ~n.nested)
ReadSeen(n) == n.member = "pair" \/ (n.reference # "none" /\ ~n.nested /\ IsReadReference(n))
VisitPrivate(n) ==
    IF n.member = "property" THEN IF ReadSeen(n) THEN {} ELSE {n.member}
    ELSE IF RefSeen(n) THEN {} ELSE {n.member}

(* Whether the value gets anywhere: out of operators that hand it on, into *)
(* anything but an assignment to the field itself.                         *)
Unwrapped(path) == SelectSeq(path, LAMBDA s : s # "wrap")
RECURSIVE ValueArrives(_)
ValueArrives(path) ==
    CASE path = <<>> -> FALSE
      [] Head(path) \in {"op= left", "logical right", "ternary branch", "unary"} -> ValueArrives(Tail(path))
      [] Head(path) \in {"= left", "for-of head", "statement"} -> FALSE
      [] OTHER -> TRUE
IsPatternOf(path) ==
    \E i \in DOMAIN path : path[i] \in {"= left", "for-of head"} /\ \A j \in 1..(i - 1) : path[j] \in {"array", "object value", "spread"}
GetsRead(n) == n.reference = "in" \/ (n.reference = "access" /\ ~IsPatternOf(Unwrapped(n.path)) /\ ValueArrives(Unwrapped(n.path)))

(* Known: a getter and a setter of one name refer to each other.           *)
PairRefersToItself(n) == n.member = "pair"
(* Known: a nested class sees the names of the classes around it.          *)
NestedClassSees(n) == n.nested
(* Known: with parentheses or a cast the position is not found.            *)
WrapperHides(n) == n.member = "property" /\ "wrap" \in Range(n.path)
(* Known: the test of a for, an element's children, the body of a function *)
(* that is neither.                                                        *)
PlacesUnread(n) == n.member = "property" /\ Range(n.path) \cap {"for test", "jsx"} # {}
(* Known: a pattern in the head of a loop reads its targets.               *)
PatternInHead(n) == n.member = "property" /\ "for-of head" \in Range(n.path)

(* A private name is reported when its value never arrives anywhere, a     *)
(* method's when nothing refers to it.                                     *)
UnusedPrivatesAreDead ==
    Visited(UnusedPrivateId) =>
        \/ (reports # {}) = (IF node.member = "property" THEN ~GetsRead(node) ELSE node.reference = "none")
        \/ PairRefersToItself(node) \/ NestedClassSees(node) \/ WrapperHides(node) \/ PlacesUnread(node) \/ PatternInHead(node)

-----------------------------------------------------------------------------
(* unbound-method.                                                         *)
RECURSIVE IsSafeUse(_, _)
IsSafeUse(n, i) ==
    /\ i <= Len(n.path)
    /\ CASE n.path[i] \in {"test", "receiver", "index", "postfix", "callee", "tag", "ternary test", "unary", "equality", "= left", "&& left"} -> TRUE
         [] n.path[i] = "= right of this" -> i = 1 /\ n.receiver = "super"
         [] n.path[i] \in {"ternary branch", "&& right", "||", "wrap"} -> IsSafeUse(n, i + 1)
         [] OTHER -> FALSE

(* The receiver's type, down to its constituents and bases; symbols of the *)
(* globals' types are "static library", Array's is "array".                *)
RECURSIVE TypeMatchesNativelyBoundGlobal(_)
TypeMatchesNativelyBoundGlobal(t) ==
    CASE t.kind \in {"intersection", "parameter"} -> \E i \in DOMAIN t.subs : TypeMatchesNativelyBoundGlobal(t.subs[i])
      [] t.kind = "union" -> \A i \in DOMAIN t.subs : TypeMatchesNativelyBoundGlobal(t.subs[i])
      [] OTHER -> t.kind \in {"static library", "array"} \/ \E i \in DOMAIN t.subs : TypeMatchesNativelyBoundGlobal(t.subs[i])
IsNativelyBound(n) == TypeMatchesNativelyBoundGlobal(n.type) /\ n.inLibrary

(* What a member is declared as, and the this it says it wants.            *)
CheckIfMethod(member) ==
    CASE member.declared \in {"method", "signature", "object function"} -> member.this # "void"
      [] member.declared = "field function" -> TRUE
      [] OTHER -> FALSE
VisitAccess(n) ==
    IF IsSafeUse(n, 1) \/ IsNativelyBound(n) \/ (n.ignoreStatic /\ n.static) \/ ~CheckIfMethod(n.member) THEN {} ELSE {"access"}

(* The first identifier of an element names what is looked up, in the      *)
(* value and then in the type of the pattern.                              *)
LooksUpKey(n) == n.key \in {"name", "renamed"}
VisitPattern(n) ==
    IF n.ambient \/ (n.place = "declared pattern" /\ n.nativeSource) THEN {}
    ELSE IF LooksUpKey(n) /\ CheckIfMethod(n.member) THEN {"name"} ELSE {}
VisitAssignmentPattern(n) ==
    IF ~n.nativeSource /\ n.key = "name" /\ CheckIfMethod(n.member) THEN {"name"} ELSE {}
VisitUnbound(n) ==
    CASE n.place = "access" -> VisitAccess(n)
      [] n.place = "assigned pattern" -> VisitAssignmentPattern(n)
      [] OTHER -> VisitPattern(n)

-----------------------------------------------------------------------------
(* Whether the function can be called later, without its object.           *)
RECURSIVE Escapes(_, _)
Escapes(path, kept) ==
    CASE path = <<>> -> FALSE
      [] Head(path) \in {"callee", "tag"} -> ~kept
      [] Head(path) = "wrap" -> Escapes(Tail(path), kept)
      [] Head(path) \in {"ternary branch", "&& right", "||", "??", "comma right"} -> Escapes(Tail(path), FALSE)
      [] Head(path) \in {"= right", "= right of this", "argument", "element"} -> TRUE
      [] OTHER -> FALSE
NeedsThis(member) == member.declared \in {"method", "signature", "object function", "field function"} /\ member.this # "void"
RECURSIVE NeedsNoThis(_)
NeedsNoThis(t) ==
    CASE t.kind = "static library" -> TRUE
      [] t.kind = "union" -> \A i \in DOMAIN t.subs : NeedsNoThis(t.subs[i])
      [] OTHER -> \E i \in DOMAIN t.subs : NeedsNoThis(t.subs[i])
LosesThis(n) ==
    /\ NeedsThis(n.member)
    /\ IF n.place = "access"
       THEN Escapes(n.path, TRUE) /\ ~(NeedsNoThis(n.type) /\ n.inLibrary) /\ ~(n.ignoreStatic /\ n.static)
       ELSE ~n.ambient /\ ~n.nativeSource /\ n.key # "rest" /\ ~(n.ignoreStatic /\ n.static)

(* Known: (o.m || f)() and (c ? o.m : f)() are taken for calls of o.m.     *)
CalledThroughOperator(n) == Range(n.path) \cap {"||", "ternary branch", "&& right"} # {} /\ Range(n.path) \cap {"callee", "tag"} # {}
(* Known: o.m; o.m < p, case o.m: and a few more do no harm.               *)
HarmlessPlace(n) == Range(n.path) \cap {"statement", "operand", "case", "op= left", "comma left", "for-of head"} # {}
(* Known: ?? and the comma hand the value on, and are reported themselves. *)
HandedOnAnyway(n) == Range(n.path) \cap {"??", "comma right"} # {}
(* Known: super.m is not given to this for good.                           *)
SuperGivenToThis(n) == n.receiver = "super" /\ "= right of this" \in Range(n.path)
(* Known: an array's methods are taken for bound ones.                     *)
MethodsOfArrays(n) == n.place = "access" /\ IsNativelyBound(n) /\ ~NeedsNoThis(n.type)
(* Known: void is not looked for on a function a field holds.              *)
FieldFunctionsThis(n) == n.member.declared = "field function" /\ n.member.this = "void"
(* Known: statics in patterns, and keys that are strings or assigned.      *)
StaticInPattern(n) == n.place # "access" /\ n.ignoreStatic /\ n.static
KeyUnread(n) == n.place # "access" /\ n.key # "name" /\ (n.key = "string" \/ n.place = "assigned pattern")

(* A method is reported where it is taken from its object and may be       *)
(* called without it.                                                      *)
MethodsKeepTheirThis ==
    Visited(UnboundMethodId) =>
        \/ (reports # {}) = LosesThis(node)
        \/ CalledThroughOperator(node) \/ HarmlessPlace(node) \/ HandedOnAnyway(node) \/ SuperGivenToThis(node) \/ MethodsOfArrays(node)
        \/ FieldFunctionsThis(node) \/ StaticInPattern(node) \/ KeyUnread(node)
=============================================================================
