---------------------------- MODULE VueComponents ----------------------------
(***************************************************************************)
(* Rules on the names a Vue component declares: no-vue-duplicate-keys,     *)
(* no-vue-reserved-keys and no-vue-reserved-props.  Each has a copy of the *)
(* matcher for components and of the reader of their sections.             *)
(***************************************************************************)
EXTENDS RuleVisit, SequencesExt

DuplicateKeysId == "no-vue-duplicate-keys"
ReservedKeysId == "no-vue-reserved-keys"
ReservedPropsId == "no-vue-reserved-props"

-----------------------------------------------------------------------------
(* A node of the file has a kind, a name (of an identifier, a string or a  *)
(* member) and its children in the order ForEachChild gives them.  A       *)
(* property's first child is its key; "signature" is one in a type.        *)
NoNode == [kind |-> "missing", name |-> "", subs |-> <<>>]
FirstOrMissing(s) == IF s = <<>> THEN NoNode ELSE Head(s)
OfKind(subs, kinds) == SelectSeq(subs, LAMBDA c : c.kind \in kinds)
RECURSIVE UnwrapParens(_)
UnwrapParens(e) == IF e.kind = "paren" THEN UnwrapParens(e.subs[1]) ELSE e

(* The key is the first name or string below the property: of a property   *)
(* with a computed key that is its value, of a spread what is spread.      *)
PropertyKeyNode(p) == FirstOrMissing(OfKind(p.subs, {"id", "string"}))
PropertyValueOf(p) ==
    LET keys == {i \in DOMAIN p.subs : p.subs[i].kind \in {"id", "string"}}
        key == CHOOSE i \in keys : \A j \in keys : i <= j
    IN  IF p.kind # "prop" \/ keys = {} \/ key + 1 \notin DOMAIN p.subs THEN NoNode ELSE p.subs[key + 1]
(* The first return of the body itself that has an object.                 *)
ReturnedObjectFromBlock(f) ==
    LET returns == OfKind(FirstOrMissing(OfKind(f.subs, {"block"})).subs, {"return"})
        objects == [i \in DOMAIN returns |-> UnwrapParens(FirstOrMissing(returns[i].subs))]
    IN  FirstOrMissing(OfKind(objects, {"object"}))
DataReturnedObject(p) ==
    LET v == UnwrapParens(PropertyValueOf(p))
    IN  CASE p.kind = "method" -> ReturnedObjectFromBlock(p)
          [] v.kind = "object" -> v
          [] v.kind = "function" -> ReturnedObjectFromBlock(v)
          [] v.kind = "arrow" -> LET body == UnwrapParens(Last(v.subs))
                                 IN  CASE body.kind = "object" -> body
                                       [] body.kind = "block" -> ReturnedObjectFromBlock(v)
                                       [] OTHER -> NoNode
          [] OTHER -> NoNode

(* The first declaration of the name anywhere in the file, depth first.    *)
RECURSIVE TypeDeclarations(_)
TypeDeclarations(n) ==
    FlattenSeq([i \in DOMAIN n.subs |->
        (IF n.subs[i].kind \in {"interface", "type alias"} THEN <<n.subs[i]>> ELSE <<>>) \o TypeDeclarations(n.subs[i])])
ScanForTypeDecl(file, name) == FirstOrMissing(SelectSeq(TypeDeclarations(file), LAMBDA d : FirstOrMissing(OfKind(d.subs, {"id"})).name = name))
FirstTypeArg(call) == FirstOrMissing(OfKind(call.subs, {"type literal", "type reference"}))
FirstArg(call) == FirstOrMissing(Tail(call.subs))
InScriptSetup(file) == file.kind = "script setup"

-----------------------------------------------------------------------------
(* no-vue-duplicate-keys                                                   *)
CalleeName(p) == IF p.subs[1].kind \in {"id", "member"} THEN p.subs[1].name ELSE ""
IsComponentOfKeys(p) ==
    CASE p.kind = "export" -> TRUE
      [] p.kind = "call" -> CalleeName(p) \in {"createApp", "defineComponent"}
      [] p.kind = "new" -> p.subs[1].kind = "id" /\ p.subs[1].name = "Vue"
      [] OTHER -> FALSE
KeysOf(properties) ==
    SelectSeq([i \in DOMAIN properties |-> PropertyKeyNode(properties[i])], LAMBDA k : k # NoNode)
CollectObjectKeys(o) ==
    IF o.kind # "object" THEN <<>> ELSE KeysOf(OfKind(o.subs, {"prop", "shorthand", "method", "get", "set"}))
CollectPropsKeys(value) ==
    LET v == UnwrapParens(value)
    IN  IF v.kind = "array" THEN OfKind(v.subs, {"string"}) ELSE CollectObjectKeys(v)
KeysOfSection(p) ==
    LET section == PropertyKeyNode(p).name
    IN  CASE section = "props" -> CollectPropsKeys(PropertyValueOf(p))
          [] section \in {"computed", "methods"} -> CollectObjectKeys(UnwrapParens(PropertyValueOf(p)))
          [] section \in {"data", "asyncData", "setup"} -> CollectObjectKeys(DataReturnedObject(p))
          [] OTHER -> <<>>
ReportDuplicates(keys) == {keys[i].name : i \in {j \in DOMAIN keys : \E k \in 1..(j - 1) : keys[k].name = keys[j].name}}
ObjectAt(n) == UnwrapParens(n.parent.subs[n.at])
VisitComponentForDuplicates(n) ==
    LET o == ObjectAt(n)
    IN  IF IsComponentOfKeys(n.parent) THEN ReportDuplicates(FlattenSeq([i \in DOMAIN o.subs |-> KeysOfSection(o.subs[i])])) ELSE {}

RECURSIVE WalkBinding(_)
WalkBinding(b) ==
    CASE b.kind = "id" -> <<b>>
      [] b.kind \in {"pattern", "element"} -> FlattenSeq([i \in DOMAIN b.subs |-> WalkBinding(b.subs[i])])
      [] OTHER -> <<>>
(* The first child that is a name or a pattern and binds something.        *)
BindingIdentifiers(d) ==
    LET slots == OfKind(d.subs, {"id", "pattern"})
        bound == SelectSeq([i \in DOMAIN slots |-> WalkBinding(slots[i])], LAMBDA names : names # <<>>)
    IN  IF bound = <<>> THEN <<>> ELSE Head(bound)
TypeArgKeys(type, file) ==
    CASE type.kind = "type literal" -> KeysOf(OfKind(type.subs, {"signature"}))
      [] type.kind = "type reference" /\ FirstOrMissing(type.subs).kind = "id" ->
           LET parts == ScanForTypeDecl(file, FirstOrMissing(type.subs).name).subs
           IN  FlattenSeq([i \in DOMAIN parts |->
                   KeysOf(IF parts[i].kind = "type literal" THEN OfKind(parts[i].subs, {"signature"}) ELSE OfKind(<<parts[i]>>, {"signature"}))])
      [] OTHER -> <<>>
IsDefineProps(call) == call.kind = "call" /\ call.subs[1].kind = "id" /\ call.subs[1].name = "defineProps"
CollectBareDefinePropsKeys(call, file) ==
    IF ~IsDefineProps(call) THEN <<>>
    ELSE IF UnwrapParens(FirstArg(call)).kind \in {"array", "object"} THEN CollectPropsKeys(FirstArg(call))
    ELSE TypeArgKeys(FirstTypeArg(call), file)
KeysOfStatement(s, file) ==
    CASE s.kind = "variables" -> FlattenSeq([i \in DOMAIN s.subs |-> BindingIdentifiers(s.subs[i])])
      [] s.kind = "expression" -> CollectBareDefinePropsKeys(s.subs[1], file)
      [] s.kind = "function declaration" -> OfKind(s.subs, {"id"})
      [] OTHER -> <<>>
VisitFileForDuplicates(n) ==
    IF ~InScriptSetup(n.file) THEN {}
    ELSE ReportDuplicates(FlattenSeq([i \in DOMAIN n.file.subs |-> KeysOfStatement(n.file.subs[i], n.file)]))
VisitDuplicates(n) == IF n.what = "object" THEN VisitComponentForDuplicates(n) ELSE VisitFileForDuplicates(n)

-----------------------------------------------------------------------------
(* no-vue-reserved-keys.  Of a name its prefix matters: the names with the *)
(* one, and with either.                                                   *)
DollarOnly == {"$a", "$b"}
DollarOrUnderscore == DollarOnly \cup {"_a", "_b"}
AllKeys == {"a", "b", "ref", "key"} \cup DollarOrUnderscore
CheckObjectKeys(o, reserved) == IF o.kind = "object" THEN {PropertyKeyNode(p).name : p \in Range(o.subs)} \cap reserved ELSE {}
CheckPropsValue(value) ==
    LET v == UnwrapParens(value)
    IN  IF v.kind = "array" THEN {c.name : c \in {d \in Range(v.subs) : d.kind = "string"}} \cap DollarOnly
        ELSE CheckObjectKeys(v, DollarOnly)
CheckTypeArg(type, file) == {k.name : k \in Range(TypeArgKeys(type, file))} \cap DollarOnly
CheckSection(p) ==
    LET section == PropertyKeyNode(p).name
    IN  CASE section = "props" -> CheckPropsValue(PropertyValueOf(p))
          [] section \in {"data", "asyncData"} -> CheckObjectKeys(DataReturnedObject(p), DollarOrUnderscore)
          [] section \in {"computed", "methods"} -> CheckObjectKeys(UnwrapParens(PropertyValueOf(p)), DollarOnly)
          [] section = "setup" -> CheckObjectKeys(DataReturnedObject(p), DollarOnly)
          [] OTHER -> {}
VisitReservedKeys(n) ==
    CASE n.what = "object" -> IF IsComponentOfKeys(n.parent) THEN UNION {CheckSection(p) : p \in Range(ObjectAt(n).subs)} ELSE {}
      [] n.what = "call" -> IF IsDefineProps(n.call) /\ InScriptSetup(n.file)
                            THEN CheckPropsValue(FirstArg(n.call)) \cup CheckTypeArg(FirstTypeArg(n.call), n.file) ELSE {}

-----------------------------------------------------------------------------
(* no-vue-reserved-props.  Here the component is a first argument, which a *)
(* type argument is not told from.                                         *)
ReservedNames == {"ref", "key"}
NodeIsFirstArg(n) == n.at = 2
NodeIsAnyArg(n) == n.at > 1
IsComponentOfProps(n) ==
    LET name == CalleeName(n.parent)
    IN  CASE n.parent.kind = "export" -> TRUE
          [] n.parent.kind = "call" -> IF name = "defineComponent" THEN NodeIsAnyArg(n) ELSE name = "createApp" /\ NodeIsFirstArg(n)
          [] n.parent.kind = "new" -> NodeIsFirstArg(n) /\ n.parent.subs[1].kind = "id" /\ name = "Vue"
          [] OTHER -> FALSE
FindProperty(o, name) == FirstOrMissing(SelectSeq(o.subs, LAMBDA p : PropertyKeyNode(p).name = name))
ReservedInPropsValue(value) ==
    LET v == UnwrapParens(value)
        names == CASE v.kind = "array" -> {c.name : c \in Range(OfKind(v.subs, {"string"}))}
                   [] v.kind = "object" -> {PropertyKeyNode(p).name : p \in Range(v.subs)}
                   [] OTHER -> {}
    IN  names \cap ReservedNames
ReservedInTypeNode(type, file) == {k.name : k \in Range(TypeArgKeys(type, file))} \cap ReservedNames
VisitReservedProps(n) ==
    CASE n.what = "object" -> IF IsComponentOfProps(n) THEN ReservedInPropsValue(PropertyValueOf(FindProperty(ObjectAt(n), "props"))) ELSE {}
      [] n.what = "call" -> IF IsDefineProps(n.call) THEN ReservedInPropsValue(FirstArg(n.call)) \cup ReservedInTypeNode(FirstTypeArg(n.call), n.file) ELSE {}

-----------------------------------------------------------------------------
RECURSIVE NodesBelow(_)
NodesBelow(e) == {e} \cup UNION {NodesBelow(c) : c \in Range(e.subs)}
KindsBelow(e) == {c.kind : c \in NodesBelow(e)}

(* What a component declares.  A function gives what the return it gets to *)
(* gives, which need not be the first; a cast does not change a value.     *)
RECURSIVE WithoutCasts(_), ReturnedBy(_)
WithoutCasts(e) == IF e.kind \in {"paren", "as"} THEN WithoutCasts(e.subs[1]) ELSE e
ReturnedBy(statements) ==
    IF statements = <<>> THEN {}
    ELSE LET s == Head(statements)
         IN  CASE s.kind = "return" -> {WithoutCasts(FirstOrMissing(s.subs))}
               [] s.kind = "if" -> ReturnedBy(s.subs) \cup ReturnedBy(Tail(statements))
               [] OTHER -> ReturnedBy(Tail(statements))
(* The name a property gives; a string in brackets gives one too.          *)
NameGiven(p) ==
    LET key == IF p.kind = "spread" THEN NoNode ELSE Head(p.subs)
    IN  IF key.kind = "computed" THEN (IF key.subs[1].kind = "string" THEN key.subs[1].name ELSE "") ELSE key.name
FunctionSections == {"data", "asyncData", "setup"}
Sections == {"props", "computed", "methods"} \cup FunctionSections
SectionValues(p) ==
    LET v == IF p.kind = "method" THEN p ELSE WithoutCasts(Last(p.subs))
        body == WithoutCasts(Last(v.subs))
    IN  CASE p.kind \notin {"prop", "method"} -> {}
          [] NameGiven(p) \in FunctionSections /\ v.kind \in {"method", "function", "arrow"} ->
               IF body.kind = "block" THEN ReturnedBy(body.subs) ELSE {body}
          [] OTHER -> {v}
StringKey(name) == [kind |-> "string", name |-> name, subs |-> <<>>]
(* Where a name is written in a value; a getter and its setter are one     *)
(* member.                                                                 *)
WrittenAt(v, name) ==
    LET at == {i \in DOMAIN v.subs : IF v.kind = "object" THEN NameGiven(v.subs[i]) = name ELSE v.subs[i] = StringKey(name)}
    IN  IF v.kind \notin {"array", "object"} THEN {}
        ELSE {i \in at : v.subs[i].kind = "set" => ~\E j \in at : v.subs[j].kind = "get"}
(* Of two sections of a name the later counts.                             *)
SectionsOf(o) ==
    {i \in DOMAIN o.subs : NameGiven(o.subs[i]) \in Sections /\ \A j \in DOMAIN o.subs : j > i => NameGiven(o.subs[j]) # NameGiven(o.subs[i])}
SectionDeclares(o, i, name) == \E v \in SectionValues(o.subs[i]) : WrittenAt(v, name) # {}
Twice(v, name) == \E i, j \in WrittenAt(v, name) : i # j
Collides(o, name) ==
    \E i \in SectionsOf(o) :
        \/ \E v \in SectionValues(o.subs[i]) : Twice(v, name)
        \/ \E j \in SectionsOf(o) : i # j /\ SectionDeclares(o, i, name) /\ SectionDeclares(o, j, name)
ReservedIn(section) ==
    IF section \in {"data", "asyncData"} THEN {"$a", "$b", "_a", "_b"} ELSE {"$a", "$b"}

(* Vue is given its components as first arguments, defineComponent also    *)
(* after the function that sets them up.                                   *)
IsFirstValue(n) == n.at > 1 /\ \A i \in 2..(n.at - 1) : n.parent.subs[i].kind \in {"type literal", "type reference"}
IsVueComponent(n) ==
    CASE n.parent.kind \in {"export", "as"} -> TRUE
      [] n.parent.kind = "call" -> CalleeName(n.parent) = "defineComponent" \/ (CalleeName(n.parent) \in {"createApp", "extend"} /\ IsFirstValue(n))
      [] n.parent.kind = "new" -> n.parent.subs[1].kind = "id" /\ n.parent.subs[1].name = "Vue" /\ IsFirstValue(n)
      [] OTHER -> FALSE

(* The members of a type: of all its declarations at the top of the file,  *)
(* what they extend and the parts of an intersection, methods too.         *)
RECURSIVE MembersOf(_, _)
MembersOf(type, file) ==
    LET Parts(t) == UNION {IF p.kind \in {"signature", "method signature"} THEN {NameGiven(p)} ELSE MembersOf(p, file) : p \in Range(t.subs)}
    IN  CASE type.kind \in {"type literal", "intersection", "extends"} -> Parts(type)
          [] type.kind = "type reference" ->
               UNION {Parts([d EXCEPT !.subs = Tail(d.subs)]) :
                        d \in {e \in Range(file.subs) : e.kind \in {"interface", "type alias"} /\ Head(e.subs) = Head(type.subs)}}
          [] OTHER -> {}
(* A property's place in what defineProps is given; a type has one each.   *)
PropValue(call) == WithoutCasts(FirstOrMissing(OfKind(Tail(call.subs), {"array", "object", "paren", "as"})))
PropsDeclared(call, file) ==
    {name \in AllKeys : WrittenAt(PropValue(call), name) # {}} \cup MembersOf(FirstTypeArg(call), file)

(* The calls of the macro in a statement, and the names it binds.          *)
RECURSIVE MacroCalls(_)
MacroCalls(e) ==
    CASE IsDefineProps(e) -> {e}
      [] e.kind = "call" /\ e.subs[1].name = "withDefaults" -> MacroCalls(e.subs[2])
      [] OTHER -> {}
MacrosOf(s) == IF s.kind \in {"variables", "expression"} THEN UNION {MacroCalls(IF e.kind = "declaration" THEN Last(e.subs) ELSE e) : e \in Range(s.subs)} ELSE {}
NamesBound(s) ==
    CASE s.kind = "variables" -> {b.name : b \in {c \in UNION {NodesBelow(Head(d.subs)) : d \in Range(s.subs)} : c.kind = "id"}}
      [] s.kind \in {"function declaration", "class declaration", "import"} -> {c.name : c \in Range(s.subs)}
      [] OTHER -> {}
CollidesInSetup(file, name) ==
    \E i \in DOMAIN file.subs : \E c \in MacrosOf(file.subs[i]) :
        \/ Twice(PropValue(c), name)
        \/ name \in PropsDeclared(c, file) /\ \E j \in DOMAIN file.subs : i # j /\ name \in NamesBound(file.subs[j])

(* Known: members are compared without asking for a getter and its setter. *)
KindsOf(n) == CASE n.what = "object" -> KindsBelow(n.parent) [] n.what = "call" -> KindsBelow(n.call) [] OTHER -> KindsBelow(n.file)
AccessorPair(n) == {"get", "set"} \subseteq KindsOf(n)
(* Known: the value of a property with a computed key is taken for its key *)
(* and what is spread for a property.                                      *)
KeyMisread(n) == "computed" \in KindsOf(n)
SpreadMisread(n) == "spread" \in KindsOf(n)
(* Known: of several returns the first of the body itself is read, of a    *)
(* value with a cast nothing.                                              *)
ReturnMisread(n) ==
    n.what = "object" /\ \E b \in {c \in NodesBelow(n.parent) : c.kind = "block"} :
        \/ "if" \in KindsBelow(b)
        \/ LET returns == OfKind(b.subs, {"return"}) IN Len(returns) > 1 /\ \A v \in ReturnedBy(b.subs) : v.kind # "object"
CastUnread(n) == "as" \in KindsOf(n)
(* Known: every argument of createApp is taken for a component, Vue.extend *)
(* is not known, a type argument is counted as an argument.                *)
UnknownComponent(n) == n.what = "object" /\ (n.parent.kind = "as" \/ (n.parent.kind = "call" /\ CalleeName(n.parent) = "extend"))
LaterArgument(n) == n.what = "object" /\ n.at > 1 /\ ~IsFirstValue(n) /\ CalleeName(n.parent) # "defineComponent"
TypeArgumentCounted(n) == n.what = "object" /\ n.at > 2 /\ IsFirstValue(n)
(* Known: two sections of a name are both read, or the first.              *)
SectionTwice(n) ==
    n.what = "object" /\ \E i, j \in DOMAIN ObjectAt(n).subs : i # j /\ NameGiven(ObjectAt(n).subs[i]) = NameGiven(ObjectAt(n).subs[j])
(* Known: the props of a call whose result is kept or that withDefaults    *)
(* wraps, classes and imports are not compared.                            *)
PropsKept(n) == n.what = "file" /\ \E s \in Range(n.file.subs) : MacrosOf(s) # {} /\ (s.kind = "variables" \/ MacrosOf(s) # Range(s.subs))
BindingUnread(n) == {"class declaration", "import"} \cap KindsOf(n) # {}
(* Known: each overload of a function is another declaration.              *)
Overloaded(n) == n.what = "file" /\ \E i, j \in DOMAIN n.file.subs : i # j /\ NamesBound(n.file.subs[i]) \cap NamesBound(n.file.subs[j]) # {}
(* Known: a pattern that binds nothing is passed over for the initializer. *)
EmptyPattern(n) == n.what = "file" /\ \E s \in Range(n.file.subs) : s.kind = "variables" /\ NamesBound(s) = {}
(* Known: of types, heritage, intersections, methods, later declarations   *)
(* and aliases of aliases are not read, but those of inner functions are.  *)
TypeMisread(n) ==
    /\ n.what # "object"
    /\ \/ {"extends", "intersection", "method signature"} \cap (KindsBelow(n.file) \cup KindsOf(n)) # {}
       \/ LET declared == TypeDeclarations(n.file)
          IN  Len(declared) > 1 \/ Range(declared) \ Range(n.file.subs) # {}
(* Known: outside a script setup the macro is a function of one's own.     *)
NoMacro(n) == n.what = "call" /\ ~InScriptSetup(n.file)

(* A name is reported when a component declares it twice: in two sections, *)
(* twice in one, or as a prop and in the script that sets it up.           *)
ComponentKeysAreUnique ==
    Visited(DuplicateKeysId) =>
        LET twice == IF node.what = "object" THEN {name \in AllKeys : IsVueComponent(node) /\ Collides(ObjectAt(node), name)}
                     ELSE {name \in AllKeys : InScriptSetup(node.file) /\ CollidesInSetup(node.file, name)}
        IN  \/ reports = twice
            \/ AccessorPair(node) \/ KeyMisread(node) \/ ReturnMisread(node) \/ CastUnread(node) \/ UnknownComponent(node) \/ LaterArgument(node) \/ SectionTwice(node)
            \/ PropsKept(node) \/ BindingUnread(node) \/ Overloaded(node) \/ EmptyPattern(node) \/ TypeMisread(node)

(* The names Vue keeps for itself are reported where they are declared: a  *)
(* prefix in any section, another in data, two names as props.             *)
ReservedKeysAreKept ==
    Visited(ReservedKeysId) =>
        LET o == ObjectAt(node)
            kept == IF node.what = "object" THEN {name \in AllKeys : IsVueComponent(node) /\ \E i \in SectionsOf(o) : name \in ReservedIn(NameGiven(o.subs[i])) /\ SectionDeclares(o, i, name)}
                    ELSE IF InScriptSetup(node.file) /\ IsDefineProps(node.call) THEN DollarOnly \cap PropsDeclared(node.call, node.file) ELSE {}
        IN  \/ reports = kept
            \/ KeyMisread(node) \/ SpreadMisread(node) \/ ReturnMisread(node) \/ CastUnread(node) \/ UnknownComponent(node) \/ LaterArgument(node) \/ SectionTwice(node) \/ TypeMisread(node)
ReservedPropsAreKept ==
    Visited(ReservedPropsId) =>
        LET o == ObjectAt(node)
            kept == IF node.what = "object" THEN {name \in ReservedNames : IsVueComponent(node) /\ \E i \in SectionsOf(o) : NameGiven(o.subs[i]) = "props" /\ SectionDeclares(o, i, name)}
                    ELSE IF InScriptSetup(node.file) /\ IsDefineProps(node.call) THEN ReservedNames \cap PropsDeclared(node.call, node.file) ELSE {}
        IN  \/ reports = kept
            \/ KeyMisread(node) \/ SpreadMisread(node) \/ CastUnread(node) \/ UnknownComponent(node) \/ TypeArgumentCounted(node) \/ SectionTwice(node) \/ TypeMisread(node) \/ NoMacro(node)
VueNamesAreFree == ComponentKeysAreUnique /\ ReservedKeysAreKept /\ ReservedPropsAreKept
=============================================================================
