------------------------------ MODULE Operands ------------------------------
(***************************************************************************)
(* Rules on the types of what is converted, added, compared and switched   *)
(* upon: no-base-to-string, restrict-template-expressions,                 *)
(* restrict-plus-operands, no-unsafe-enum-comparison and                   *)
(* switch-exhaustiveness-check.                                            *)
(***************************************************************************)
EXTENDS RuleVisit, SequencesExt, FiniteSetsExt

BaseToStringId == "no-base-to-string"
RestrictTemplateId == "restrict-template-expressions"
RestrictPlusId == "restrict-plus-operands"
EnumComparisonId == "no-unsafe-enum-comparison"
ExhaustiveId == "switch-exhaustiveness-check"

-----------------------------------------------------------------------------
(* A type is of a kind and has subtypes; "plain" and "brand" are object    *)
(* types without a toString, "printing" has one, "T" a type parameter that *)
(* may be anything.  A value is of a kind, has properties and elements.    *)
OperandValue(is, has, elems) == [is |-> is, has |-> has, elems |-> elems]
ArrayValues(values) ==
    {OperandValue("array", h, e) : h \in SUBSET {"brand", "plain"}, e \in {<<>>} \cup {<<v>> : v \in values}}
SimpleValues ==
    {OperandValue(k, h, <<>>) : k \in {"string", "number", "bigint", "boolean", "null"}, h \in {{}, {"brand"}}}
    \cup {OperandValue("object", h, <<>>) : h \in SUBSET {"brand", "plain", "toString"}}
    \cup {OperandValue(k, {}, <<>>) : k \in {"regexp", "error"}}
AnyOperand == SimpleValues \cup ArrayValues(SimpleValues)

RECURSIVE ValuesOfType(_, _)
(* The values of a type, one for all of a type that is trusted.            *)
ValuesOfType(t, trusted) ==
    LET sub(i) == ValuesOfType(t.subs[i], trusted)
    IN  CASE t.kind = "never" -> {}
          [] t.kind \in trusted -> {OperandValue("trusted", {}, <<>>)}
          [] t.kind \in {"any", "unknown", "T"} -> AnyOperand
          [] t.kind \in {"plain", "brand"} -> {v \in AnyOperand : t.kind \in v.has}
          [] t.kind = "printing" -> {v \in SimpleValues : "toString" \in v.has}
          [] t.kind = "namesake" -> {OperandValue("object", {}, <<>>)}
          [] t.kind = "union" -> UNION {sub(i) : i \in DOMAIN t.subs}
          [] t.kind = "intersection" -> sub(1) \cap sub(2)
          [] t.kind = "parameter" -> sub(1)
          [] t.kind = "array" -> ArrayValues(sub(1))
          [] t.kind = "tuple" -> {OperandValue("array", {}, <<v, w>>) : v \in sub(1), w \in sub(2)}
          [] OTHER -> {v \in SimpleValues : v.is = t.kind}

RECURSIVE KindsOfType(_)
KindsOfType(t) == {t.kind} \cup UNION {KindsOfType(t.subs[i]) : i \in DOMAIN t.subs}

-----------------------------------------------------------------------------
(* no-base-to-string.                                                      *)
RECURSIVE HasMeaningful(_, _)
HasMeaningful(t, n) ==
    CASE t.kind \in n.listed -> TRUE
      [] t.kind \in {"any", "unknown", "T"} -> ~n.checkUnknown
      [] t.kind = "intersection" -> \E i \in DOMAIN t.subs : HasMeaningful(t.subs[i], n)
      [] t.kind \in {"union", "tuple", "array", "parameter"} -> \A i \in DOMAIN t.subs : HasMeaningful(t.subs[i], n)
      [] OTHER -> t.kind \notin {"plain", "brand", "error"}
RECURSIVE ArrayElementsHaveMeaningful(_, _)
ArrayElementsHaveMeaningful(t, n) ==
    CASE t.kind = "union" -> \A i \in DOMAIN t.subs : ArrayElementsHaveMeaningful(t.subs[i], n)
      [] t.kind = "intersection" -> \E i \in DOMAIN t.subs : ArrayElementsHaveMeaningful(t.subs[i], n)
      [] t.kind \in {"tuple", "array"} -> \A i \in DOMAIN t.subs : HasMeaningful(t.subs[i], n)
      [] OTHER -> TRUE

IsConversion(n) == n.place \in {"template", "String", "toString", "toLocaleString"}
VisitBinaryToString(n) ==
    LET leftStr == n.type.kind = "string"
        rightStr == n.other.kind = "string"
    IN  \/ leftStr /\ ~rightStr /\ ~HasMeaningful(n.other, n)
        \/ rightStr /\ ~leftStr /\ ~HasMeaningful(n.type, n)
VisitToString(n) ==
    IF \/ IsConversion(n) /\ ~HasMeaningful(n.type, n)
       \/ n.place = "join" /\ ~ArrayElementsHaveMeaningful(n.type, n)
       \/ n.place \in {"+", "+="} /\ VisitBinaryToString(n)
    THEN {"type"} ELSE {}

RECURSIVE PrintsWell(_)
PrintsWell(v) ==
    CASE v.is = "object" -> "toString" \in v.has
      [] v.is = "array" -> \A i \in DOMAIN v.elems : PrintsWell(v.elems[i])
      [] OTHER -> TRUE
PrintsBadly(n) ==
    LET trusted == n.listed \cup (IF n.checkUnknown THEN {} ELSE {"any", "unknown", "T"})
        values(t) == ValuesOfType(t, trusted)
    IN  CASE n.place = "join" -> \E v \in values(n.type) : v.is = "array" /\ ~PrintsWell(v)
          [] n.place \in {"+", "+="} -> \E v \in values(n.type) \cup values(n.other) : ~PrintsWell(v)
          [] n.place \in {"tagged", "own String", "String of spread", "with argument"} -> FALSE
          [] OTHER -> \E v \in values(n.type) : ~PrintsWell(v)

(* Known: + makes strings of objects when neither side is a string's type. *)
PlusWithoutString(n) == n.place \in {"+", "+="} /\ "string" \notin {n.type.kind, n.other.kind}
(* Known: an object's own join, and any other part of an intersection, is  *)
(* let be, and type parameters are not resolved for join.                  *)
JoinUnresolved(n) ==
    /\ n.place = "join"
    /\ \E t \in {n.type} \cup Range(n.type.subs) : t.kind \in {"intersection", "parameter", "T", "any", "unknown", "plain", "brand"}
    /\ n.type.kind \notin {"array", "tuple"}
(* Known: calls in parentheses, by element, and of concat.                 *)
CallUnnoticed(n) == n.place \in {"(x.toString)()", "x['toString']()", "concat"}

(* A conversion is reported when some value of the type is printed without *)
(* a toString of its own, in however deep a part of it.                    *)
ConversionsPrintWell ==
    Visited(BaseToStringId) =>
        (reports # {}) = PrintsBadly(node) \/ PlusWithoutString(node) \/ JoinUnresolved(node) \/ CallUnnoticed(node)

-----------------------------------------------------------------------------
(* restrict-template-expressions; "namesake" bears the name of a listed    *)
(* type.                                                                   *)
RECURSIVE Acceptable(_, _)
Acceptable(t, n) ==
    CASE t.kind = "string" -> TRUE
      [] t.kind \in {"any", "unknown"} -> "any" \in n.allow
      [] t.kind = "bigint" -> "number" \in n.allow
      [] t.kind = "namesake" -> "error" \in n.allow
      [] t.kind \in {"null", "never", "number", "boolean", "regexp", "error"} -> t.kind \in n.allow
      [] t.kind \in {"array", "tuple"} -> "array" \in n.allow /\ \A i \in DOMAIN t.subs : Acceptable(t.subs[i], n)
      [] t.kind \in {"union", "parameter"} -> \A i \in DOMAIN t.subs : Acceptable(t.subs[i], n)
      [] t.kind = "intersection" -> \E i \in DOMAIN t.subs : Acceptable(t.subs[i], n)
      [] OTHER -> FALSE
VisitTemplate(n) == IF n.tagged \/ Acceptable(n.type, n) THEN {} ELSE {"type"}

RECURSIVE Permitted(_, _)
Permitted(v, allow) ==
    CASE v.is \in {"string", "trusted"} -> TRUE
      [] v.is = "bigint" -> "number" \in allow
      [] v.is = "array" -> "array" \in allow /\ \A i \in DOMAIN v.elems : Permitted(v.elems[i], allow)
      [] OTHER -> v.is \in allow
TemplateIsPermitted(n) ==
    IF n.type.kind = "never" THEN "never" \in n.allow
    ELSE \A v \in ValuesOfType(n.type, IF "any" \in n.allow THEN {"any", "unknown"} ELSE {}) : Permitted(v, n.allow)

(* Known: a type is allowed by its name, wherever it is from.              *)
AllowedByName(n) == "namesake" \in KindsOfType(n.type) /\ "error" \in n.allow

(* Known: an empty array's elements are never.                             *)
ElementsNever(n) == n.type.kind = "array" /\ "never" \in KindsOfType(n.type)

(* An interpolation is reported when the type has a value of a kind that   *)
(* the options do not allow.                                               *)
TemplatesAreOfAllowedTypes ==
    Visited(RestrictTemplateId) =>
        (reports # {}) = (~node.tagged /\ ~TemplateIsPermitted(node)) \/ AllowedByName(node) \/ ElementsNever(node)

-----------------------------------------------------------------------------
(* restrict-plus-operands.                                                 *)
Stringable == {"string", "number", "bigint", "stringable"}
RECURSIVE ClassifyMember(_, _)
ClassifyMember(t, n) ==
    LET kinds == {ClassifyMember(t.subs[i], n) : i \in DOMAIN t.subs}
    IN  CASE t.kind \in {"string", "number", "bigint"} -> t.kind
          [] t.kind = "regexp" /\ "regexp" \in n.allow -> "string"
          [] t.kind = "null" /\ "null" \in n.allow -> "nullish"
          [] t.kind = "union" /\ "" \notin kinds ->
               LET known == kinds \ {"nullish"}
               IN  IF known = {} THEN "nullish"
                   ELSE IF Cardinality(known) = 1 THEN CHOOSE k \in known : TRUE
                   ELSE IF "mixed" \in n.allow /\ known \subseteq Stringable THEN "stringable" ELSE ""
          [] t.kind = "intersection" /\ kinds # {""} -> CHOOSE k \in kinds : k # ""
          [] t.kind = "parameter" -> ClassifyMember(t.subs[1], n)
          [] OTHER -> ""
ClassifyOperand(t, n) ==
    IF t.kind \in {"any", "boolean"} THEN IF t.kind \in n.allow THEN t.kind ELSE ""
    ELSE ClassifyMember(t, n)
VisitPlus(n) ==
    LET lk == ClassifyOperand(n.type, n)
        rk == ClassifyOperand(n.other, n)
    IN  IF n.op = "+=" /\ n.skipCompound THEN {}
        ELSE (IF lk = "" THEN {"left"} ELSE {}) \cup (IF rk = "" THEN {"right"} ELSE {})
             \cup (IF lk # "" /\ rk # "" /\ lk # rk /\ {lk, rk} \cap {"any", "nullish"} = {}
                      /\ ~("mixed" \in n.allow /\ {lk, rk} \subseteq Stringable) THEN {"operands"} ELSE {})

(* What may be added, and what to what.                                    *)
MayBeAdded(v, allow) == v.is \in {"string", "number", "bigint", "trusted"} \cup (allow \cap {"boolean", "null", "regexp"})
AddedAs(v) == IF v.is = "regexp" THEN "string" ELSE v.is
FitsTo(v, w, allow) ==
    LET kinds == {AddedAs(v), AddedAs(w)}
    IN  Cardinality(kinds) = 1 \/ kinds \cap {"null", "boolean", "trusted"} # {} \/ ("mixed" \in allow /\ "string" \in kinds)
PlusIsSafe(n) ==
    LET left == ValuesOfType(n.type, n.allow \cap {"any"})
        right == ValuesOfType(n.other, n.allow \cap {"any"})
    IN  /\ \A v \in left \cup right : MayBeAdded(v, n.allow)
        /\ \A v \in left \cup right, w \in left \cup right : FitsTo(v, w, n.allow)

(* Known: allowBoolean allows booleans to be added to each other only.     *)
BooleanBesides(n) == "boolean" \in n.allow /\ "boolean" \in KindsOfType(n.type) \cup KindsOfType(n.other)
(* Known: with numbers and strings allowed, bigints go with numbers.       *)
BigintToNumber(n) == "mixed" \in n.allow /\ {"bigint", "number"} \subseteq KindsOfType(n.type) \cup KindsOfType(n.other)

(* An addition is reported when some value of the one type does not go     *)
(* with some value of the other, for all the kinds the options add.        *)
OperandsGoTogether ==
    Visited(RestrictPlusId) =>
        (reports # {}) = (~PlusIsSafe(node) /\ ~(node.op = "+=" /\ node.skipCompound)) \/ BooleanBesides(node) \/ BigintToNumber(node)

-----------------------------------------------------------------------------
(* The types below are sets of members; E.A = 0 and E.B = 1 are of the     *)
(* enumeration E, there are more enumerations, and E' is another file's E. *)
EnumMembers == {"E.A", "E.B", "E'.A", "F.A", "S.A", "M.N", "M.S"}
EnumOf(m) == CASE m \in {"E.A", "E.B"} -> "E" [] m = "E'.A" -> "E'" [] m = "F.A" -> "F" [] m = "S.A" -> "S" [] OTHER -> "M"
EnumName(m) == IF EnumOf(m) = "E'" THEN "E" ELSE EnumOf(m)
PrimitiveKind(m) ==
    CASE m \in {"E.A", "E.B", "E'.A", "F.A", "M.N", "-1", "0", "number", "E.A&B"} -> "number"
      [] m \in {"S.A", "M.S", "'a'", "'b'", "string", "string&B"} -> "string"
      [] m \in {"true", "false"} -> "boolean"
      [] m = "bigint" -> "bigint"
      [] OTHER -> ""
LiteralsBelow(m) ==
    CASE m = "number" -> {"number", "-1", "0"} [] m = "string" -> {"string", "'a'", "'b'", "string&B"} [] OTHER -> {m}

(* no-unsafe-enum-comparison.                                              *)
EnumsIn(type) == type \cap EnumMembers
IsAlwaysAcceptable(type) == type \in {{"any"}, {"unknown"}, {"null"}, {"undefined"}}
OneKind(kinds) == IF Cardinality(kinds) = 1 THEN CHOOSE k \in kinds : TRUE ELSE ""
ClassifyPrimitive(type) == OneKind({PrimitiveKind(m) : m \in type} \ {""})
ClassifyEnumValueKind(type) == OneKind({PrimitiveKind(m) : m \in EnumsIn(type)})
SameEnumIdentity(a, b) == \E m \in EnumsIn(a), k \in EnumsIn(b) : EnumName(m) = EnumName(k)
OtherCompatibleWithEnumUnion(other, enumSide) == \E m \in enumSide \ EnumMembers : other \subseteq LiteralsBelow(m)

ComparesToEnum(other, enumSide) ==
    LET otherKind == ClassifyPrimitive(other)
        enumKind == ClassifyEnumValueKind(enumSide)
    IN  ~OtherCompatibleWithEnumUnion(other, enumSide) /\ otherKind # "" /\ (enumKind # "" => otherKind = enumKind)
VisitEnumComparison(n) ==
    LET left == EnumsIn(n.left)
        right == EnumsIn(n.right)
        enumSide == IF right # {} THEN n.right ELSE n.left
        other == IF right # {} THEN n.left ELSE n.right
    IN  IF /\ n.op \in {"comparison", "switch"} /\ left \cup right # {}
           /\ ~IsAlwaysAcceptable(n.left) /\ ~IsAlwaysAcceptable(n.right)
           /\ IF left # {} /\ right # {} THEN ~SameEnumIdentity(n.left, n.right)
              ELSE ComparesToEnum(other, enumSide) /\ (n.op = "comparison" => ClassifyPrimitive(other) \notin {"boolean", "bigint"})
        THEN {"comparison"} ELSE {}

(* An enumeration's member against a value that could be equal to it, but  *)
(* is neither of the enumeration nor allowed beside it.                    *)
MembersMeant(type) ==
    UNION {CASE m = "T<E>" -> {"E.A", "E.B"} [] m = "E.A&B" -> {"E.A"} [] OTHER -> {m} : m \in type}
UnsafeAgainst(enumSide, other) ==
    \E m \in MembersMeant(enumSide) \cap EnumMembers, o \in MembersMeant(other) :
        IF o \in EnumMembers THEN EnumOf(o) # EnumOf(m)
        ELSE PrimitiveKind(o) = PrimitiveKind(m) /\ \A b \in enumSide \ EnumMembers : o \notin LiteralsBelow(b)
ComparesUnsafely(n) == n.op # "arithmetic" /\ (UnsafeAgainst(n.left, n.right) \/ UnsafeAgainst(n.right, n.left))

(* Known: one enumeration both sides have is enough, and enumerations are  *)
(* told apart by their names.                                              *)
SharedEnum(n) == SameEnumIdentity(n.left, n.right)
(* Known: a union of several kinds of primitives is never reported.        *)
SeveralKinds(n) == \E t \in {n.left, n.right} : EnumsIn(t) = {} /\ Cardinality({PrimitiveKind(m) : m \in t} \ {""}) > 1
(* Known: beside an enumeration of numbers and strings a case of any       *)
(* primitive type is reported.                                             *)
MixedEnumCases(n) == n.op = "switch" /\ \E t \in {n.left, n.right} : Cardinality({PrimitiveKind(m) : m \in EnumsIn(t)}) = 2
(* Known: a union is allowed beside an enumeration by one type only, which *)
(* undefined keeps it from being.                                          *)
AllowedAsAWhole(n) ==
    \E t \in {n.left, n.right} : EnumsIn(t) = {} /\ "undefined" \in t
        /\ \E m \in (IF t = n.left THEN n.right ELSE n.left) \ EnumMembers : \A o \in t \ {"undefined"} : o \in LiteralsBelow(m)
(* Known: type parameters and brands of enumerations are none.             *)
EnumHidden(n) == {"T<E>", "E.A&B"} \cap (n.left \cup n.right) # {}

(* A comparison or a case is reported when an enumeration meets a value of *)
(* the same primitive kind that is not its own.                            *)
EnumsMeetTheirOwn ==
    Visited(EnumComparisonId) =>
        \/ (reports # {}) = ComparesUnsafely(node)
        \/ SharedEnum(node) \/ SeveralKinds(node) \/ MixedEnumCases(node) \/ EnumHidden(node) \/ AllowedAsAWhole(node)

-----------------------------------------------------------------------------
(* switch-exhaustiveness-check; a* is a type of strings that begin with  *)
(* a, and x' is a unique symbol with the name of x.                       *)
LiteralMembersCased == {"'a'", "'b'", "0", "1n", "E.A", "E.B", "true", "false", "null", "undefined", "x", "x'"}
Constituents(m) == IF m = "'a'&B" THEN {"'a'", "B"} ELSE IF m = "string&B" THEN {"string", "B"} ELSE {m}
IsLiteralLikeType(m) == m \in LiteralMembersCased \cup {"a*"}
TypeCoverKey(type) == IF type = {"x'"} THEN {"x"} ELSE type
MissingLiteralBranches(n) ==
    LET covered == {TypeCoverKey(c) : c \in n.cases}
    IN  {m \in UNION {Constituents(u) : u \in n.type} : IsLiteralLikeType(m) /\ TypeCoverKey({m}) \notin covered}
ContainsNonLiteralType(type) == type = {} \/ \E u \in type : \A m \in Constituents(u) : ~IsLiteralLikeType(m)
HasDefault(n) == n.default \/ n.comment # "none"

CheckExhaustive(n) == MissingLiteralBranches(n) # {} /\ ~(n.considerDefault /\ HasDefault(n))
CheckUnnecessaryDefault(n) ==
    ~n.allowDefault /\ HasDefault(n) /\ MissingLiteralBranches(n) = {} /\ ~ContainsNonLiteralType(n.type)
CheckNoUnionDefault(n) == n.requireDefault /\ ContainsNonLiteralType(n.type) /\ ~HasDefault(n)
VisitSwitchStatement(n) ==
    (IF CheckExhaustive(n) THEN {"missing"} ELSE {}) \cup (IF CheckUnnecessaryDefault(n) THEN {"default"} ELSE {})
    \cup (IF CheckNoUnionDefault(n) THEN {"no default"} ELSE {})

(* The values a member stands for, "..." being more than can be listed.    *)
ValuesSwitched(m) ==
    CASE m \in LiteralMembersCased -> {IF m = "E.A" THEN "0" ELSE m}
      [] m = "'a'&B" -> {"'a'"}
      [] m = "T<'a'>" -> {"'a'"}
      [] OTHER -> {"..."}
CaughtBy(n) == UNION {ValuesSwitched(m) : m \in UNION {c \in n.cases : Cardinality(c) = 1}}
Uncaught(n) == UNION {ValuesSwitched(m) : m \in n.type} \ (CaughtBy(n) \ {"..."})
DefaultMeant(n) == n.default \/ n.comment = "last"
ReportsMeant(n) ==
    (IF Uncaught(n) \ {"..."} # {} /\ ~(n.considerDefault /\ DefaultMeant(n)) THEN {"missing"} ELSE {})
    \cup (IF ~n.allowDefault /\ DefaultMeant(n) /\ Uncaught(n) = {} THEN {"default"} ELSE {})
    \cup (IF n.requireDefault /\ "..." \in Uncaught(n) /\ ~DefaultMeant(n) THEN {"no default"} ELSE {})

(* Known: a comment counts in a string and in a switch inside this one.    *)
CommentElsewhere(n) == n.comment \in {"nested", "string"}
(* Known: a case is found by its type as printed, not by its value.        *)
CasePrintedOtherwise(n) == {"E.A", "0", "'a'&B", "T<'a'>"} \cap UNION n.cases # {}
(* Known: unique symbols are told apart by their names.                    *)
SymbolsOfOneName(n) == {"x'", "x"} \subseteq n.type \cup UNION n.cases
(* Known: the strings of a pattern are taken for a literal.                *)
PatternTaken(n) == "a*" \in n.type
(* Known: type parameters are not resolved, and never counts as open.      *)
TypeOpen(n) == "T<'a'>" \in n.type \/ n.type = {}

(* A switch is reported when a literal value of the type reaches no case,  *)
(* a default when no value reaches it, its lack when open types need one.  *)
SwitchesCatchTheirValues ==
    Visited(ExhaustiveId) =>
        \/ reports = ReportsMeant(node)
        \/ CommentElsewhere(node) \/ CasePrintedOtherwise(node) \/ SymbolsOfOneName(node) \/ PatternTaken(node) \/ TypeOpen(node)
=============================================================================
