--------------------------- MODULE TypeParameters ---------------------------
(***************************************************************************)
(* The rule no-unnecessary-type-parameters: a type parameter T that a      *)
(* signature or a class mentions once relates nothing to anything.         *)
(***************************************************************************)
EXTENDS RuleVisit, SequencesExt

TypeParametersId == "no-unnecessary-type-parameters"

-----------------------------------------------------------------------------
(* Types: T itself, other atoms, and types made of others.  "{TypeT}" is a *)
(* type with a property named T, "generic function" one that declares a T  *)
(* of its own, "typeof" the type of the parameter it names.                *)
TypeNode(kind, subs) == [kind |-> kind, subs |-> subs, of |-> ""]
TypeofParameter(parameter) == [kind |-> "typeof", subs |-> <<>>, of |-> parameter]
TypeT == TypeNode("T", <<>>)
Absent == TypeNode("none", <<>>)
Total(Count(_), s) == FoldLeft(LAMBDA n, x : n + Count(x), 0, s)

RECURSIVE Mentions(_, _)
Mentions(t, kinds) == t.kind \in kinds \/ \E i \in DOMAIN t.subs : Mentions(t.subs[i], kinds)
(* Whether T is named outside of functions that have their own.            *)
RECURSIVE ContainsName(_)
ContainsName(t) ==
    \/ t.kind \in {"T", "{TypeT}"}
    \/ t.kind # "generic function" /\ \E i \in DOMAIN t.subs : ContainsName(t.subs[i])

(* Names of T, twice as much in type arguments, and of parameters whose    *)
(* types name it.                                                          *)
RECURSIVE UsesInType(_, _, _)
UsesInType(t, inArgs, carriers) ==
    CASE t.kind \in {"T", "{TypeT}"} -> (IF inArgs THEN 2 ELSE 1) + Total(LAMBDA s : UsesInType(s, inArgs, carriers), t.subs)
      [] t.kind = "typeof" -> IF t.of \in carriers THEN 1 ELSE 0
      [] t.kind = "generic function" -> 0
      [] OTHER -> Total(LAMBDA s : UsesInType(s, inArgs \/ t.kind = "ref", carriers), t.subs)

(* T in a type argument or an array of what is returned; an array is       *)
(* excused below a readonly.                                               *)
RECURSIVE MentionedAsArgument(_, _)
MentionedAsArgument(t, readonly) ==
    /\ t.kind # "generic function"
    /\ \/ t.kind = "ref" /\ \E i \in DOMAIN t.subs : ContainsName(t.subs[i])
       \/ t.kind = "array" /\ ~readonly /\ ContainsName(t)
       \/ \E i \in DOMAIN t.subs : MentionedAsArgument(t.subs[i], readonly \/ t.kind = "readonly")

-----------------------------------------------------------------------------
(* Expressions that are returned.  An arrow has the function type it is    *)
(* written with, whose last part is the return type if there is one.       *)
RECURSIVE ReturnEscapes(_, _)
ReturnEscapes(e, carriers) ==
    CASE e.kind \in {"param", "shorthand"} -> e.of \in carriers
      [] e.kind \in {"paren", "as", "object", "spread", "array", "element"} ->
            \E i \in DOMAIN e.subs : ReturnEscapes(e.subs[i], carriers)
      [] OTHER -> FALSE

RECURSIVE ExplicitInTypePosition(_)
ExplicitInTypePosition(e) == Mentions(e.type, {"T"}) \/ \E i \in DOMAIN e.subs : ExplicitInTypePosition(e.subs[i])

(* Names of T in the signatures of functions inside what is returned.      *)
RECURSIVE AnyNames(_)
AnyNames(t) == (IF t.kind \in {"T", "{TypeT}", "generic function"} THEN 1 ELSE 0) + Total(AnyNames, t.subs)
RECURSIVE FunctionTypesIn(_)
FunctionTypesIn(t) ==
    CASE t.kind = "function" -> Total(AnyNames, t.subs)
      [] t.kind = "generic function" -> 0
      [] OTHER -> Total(FunctionTypesIn, t.subs)
RECURSIVE NestedSignatureUses(_)
NestedSignatureUses(e) ==
    IF e.kind = "arrow" THEN FunctionTypesIn(e.type)
    ELSE FunctionTypesIn(e.type) + Total(NestedSignatureUses, e.subs)

-----------------------------------------------------------------------------
(* A function: the types of its parameters p and q, of the constraints of  *)
(* its other type parameters (T's own is not looked at), of what it        *)
(* returns, and its body.                                                  *)
ParameterNames == <<"p", "q">>
Annotated(n) ==
    LET step(acc, i) ==
            LET u == UsesInType(n.params[i], FALSE, acc.carriers)
            IN  [count |-> acc.count + u, carriers |-> acc.carriers \cup (IF u > 0 THEN {ParameterNames[i]} ELSE {})]
    IN  FoldLeft(step, [count |-> 0, carriers |-> {}], [i \in DOMAIN n.params |-> i])

(* The first return statement that shows T decides; an arrow without a     *)
(* block has no return statement.                                          *)
ReturnedUses(n, carriers) ==
    LET shows == {i \in DOMAIN n.returns : ReturnEscapes(n.returns[i], carriers) \/ ExplicitInTypePosition(n.returns[i])}
    IN  IF n.body # "block" \/ shows = {} THEN 0
        ELSE LET first == CHOOSE i \in shows : \A j \in shows : i <= j
             IN  IF ReturnEscapes(n.returns[first], carriers) THEN 1 ELSE 2

UsesInSignature(n) ==
    LET annotated == Annotated(n)
        other == Total(LAMBDA c : UsesInType(c, FALSE, annotated.carriers), n.others)
        return == UsesInType(n.return, FALSE, annotated.carriers)
    IN  annotated.count + other +
        IF n.return # Absent THEN return + (IF return > 0 /\ MentionedAsArgument(n.return, FALSE) THEN 2 ELSE 0)
        ELSE ReturnedUses(n, annotated.carriers)

(* The checker's type of what the body returns.                            *)
TypeOfParameter(n, p) == n.params[CHOOSE i \in DOMAIN n.params : ParameterNames[i] = p]
RECURSIVE InferredType(_, _)
InferredType(n, e) ==
    CASE e.kind = "param" -> TypeOfParameter(n, e.of)
      [] e.kind = "shorthand" -> TypeNode("literal", <<TypeOfParameter(n, e.of)>>)
      [] e.kind = "paren" -> InferredType(n, e.subs[1])
      [] e.kind \in {"as", "call"} -> e.type
      [] e.kind = "object" -> TypeNode("literal", [i \in DOMAIN e.subs |-> InferredType(n, e.subs[i])])
      [] e.kind = "object T" -> TypeNode("{TypeT}", [i \in DOMAIN e.subs |-> InferredType(n, e.subs[i])])
      [] e.kind = "spread" -> TypeNode("literal", <<InferredType(n, e.subs[1])>>)
      [] e.kind = "array" -> TypeNode("array", [i \in DOMAIN e.subs |-> InferredType(n, e.subs[i])])
      [] e.kind = "element" ->
            LET r == InferredType(n, e.subs[1])
                i == InferredType(n, e.subs[2])
            IN  IF r.kind = "array" THEN r.subs[1] ELSE IF TypeT \in {r, i} THEN TypeNode("indexed", <<r, i>>) ELSE TypeNode("string", <<>>)
      [] e.kind = "cond" -> TypeNode("union", SetToSeq({InferredType(n, e.subs[1]), InferredType(n, e.subs[2])}))
      [] e.kind = "arrow" ->
            IF Last(e.type.subs) # Absent THEN e.type
            ELSE [e.type EXCEPT !.subs = Append(Front(@), InferredType(n, e.subs[1]))]
      [] OTHER -> TypeNode("string", <<>>)
ReturnType(n) ==
    IF n.return # Absent THEN n.return ELSE TypeNode("union", SetToSeq({InferredType(n, n.returns[i]) : i \in DOMAIN n.returns}))
(* By the text of the type, whatever the name stands for there.            *)
TypeMentionsName(t) == Mentions(t, {"T", "{TypeT}", "generic function"})

UsesInBodySignatures(n) == Total(NestedSignatureUses, n.returns)

(* Mutant: what the checker infers is not asked.                           *)
VisitFunctionAnnotated(n) ==
    IF UsesInSignature(n) <= 1 /\ UsesInSignature(n) + UsesInBodySignatures(n) <= 1 THEN {"T"} ELSE {}
VisitFunction(n) ==
    LET written == UsesInSignature(n)
        uses == IF written <= 1 /\ n.return = Absent /\ TypeMentionsName(ReturnType(n)) THEN written + 1 ELSE written
    IN  IF uses <= 1 /\ uses + UsesInBodySignatures(n) <= 1 THEN {"T"} ELSE {}

-----------------------------------------------------------------------------
(* A class or an interface: members with the types they are written with.  *)
RECURSIVE ClassTypeUses(_, _)
ClassTypeUses(t, nested) ==
    (CASE t.kind = "T" -> IF nested THEN 2 ELSE 1
       [] t.kind \in {"{TypeT}", "generic function"} -> 2
       [] OTHER -> 0)
    + Total(LAMBDA s : ClassTypeUses(s, TRUE), t.subs)
MemberUses(m) ==
    (IF m.kind = "generic method" THEN 1 ELSE 0)
    + Total(LAMBDA t : ClassTypeUses(t, m.kind = "property"), m.types)
VisitClass(n) == IF Total(MemberUses, n.members) <= 1 THEN {"T"} ELSE {}

VisitTypeParameters(n) == IF n.kind = "class" THEN VisitClass(n) ELSE VisitFunction(n)

-----------------------------------------------------------------------------
(* The places where T itself stands, the types of parameters included      *)
(* where a type refers to them.                                            *)
RECURSIVE Occurrences(_, _)
Occurrences(t, n) ==
    CASE t.kind = "T" -> 1
      [] t.kind = "typeof" -> IF ContainsName(TypeOfParameter(n, t.of)) THEN 1 ELSE 0
      [] t.kind = "generic function" -> 0
      [] OTHER -> Total(LAMBDA s : Occurrences(s, n), t.subs)
SignatureTypes(n) == n.params \o n.others \o <<ReturnType(n)>>
OccurrencesIn(n) == Total(LAMBDA t : Occurrences(t, n), SignatureTypes(n))

RECURSIVE InArgument(_)
InArgument(t) == (t.kind = "ref" /\ \E i \in DOMAIN t.subs : ContainsName(t.subs[i])) \/ \E i \in DOMAIN t.subs : InArgument(t.subs[i])
RECURSIVE HasCast(_)
HasCast(e) == e.kind = "as" \/ \E i \in DOMAIN e.subs : HasCast(e.subs[i])
ShowsT(n) == \E i \in DOMAIN n.returns : ExplicitInTypePosition(n.returns[i])

(* A type parameter that is reported stands in the signature once, or not  *)
(* at all.  Known: `typeof` of a later parameter is not seen, and where    *)
(* nothing is declared, all that is inferred counts as one place.          *)
ReportedParametersRelateNothing ==
    Visited(TypeParametersId) /\ node.kind = "function" /\ reports # {} =>
        \/ OccurrencesIn(node) <= 1
        \/ node.params # <<>> /\ node.params[1] = TypeofParameter("q")
        \/ node.return = Absent /\ Total(LAMBDA t : Occurrences(t, node), node.params \o node.others) = 0

(* One that stands there once or not at all is reported.  Known: a type    *)
(* argument and an array that is returned count as more than one place, a  *)
(* property called T as one, and T in a type written in what is returned   *)
(* counts whether it is in the returned type or not, as does what is cast.  *)
LoneParametersAreReported ==
    Visited(TypeParametersId) /\ node.kind = "function" /\ reports = {} =>
        \/ OccurrencesIn(node) > 1
        \/ \E i \in DOMAIN SignatureTypes(node) :
              LET t == SignatureTypes(node)[i] IN InArgument(t) \/ Mentions(t, {"{TypeT}"})
        \/ MentionedAsArgument(node.return, FALSE)
        \/ ShowsT(node) \/ \E i \in DOMAIN node.returns : HasCast(node.returns[i])

(* A class' members stand for two places each where they are fields.       *)
(* Known: a field that the constructor declares counts once.               *)
MemberOccurrences(m) ==
    IF m.kind = "generic method" THEN 0
    ELSE (IF m.kind \in {"property", "parameter property"} THEN 2 ELSE 1) * Total(LAMBDA t : Occurrences(t, node), m.types)
ReportedClassParametersRelateNothing ==
    Visited(TypeParametersId) /\ node.kind = "class" /\ reports # {} =>
        \/ Total(MemberOccurrences, node.members) <= 1
        \/ \E i \in DOMAIN node.members : node.members[i].kind = "parameter property"
(* Known: inside another type T counts as more than one place, and a       *)
(* method's own T or a property called T as this one.                      *)
LoneClassParametersAreReported ==
    Visited(TypeParametersId) /\ node.kind = "class" /\ reports = {} =>
        \/ Total(MemberOccurrences, node.members) > 1
        \/ \E i \in DOMAIN node.members :
              LET m == node.members[i]
              IN  m.kind = "generic method" \/ \E j \in DOMAIN m.types : m.types[j] # TypeT /\ Mentions(m.types[j], {"T", "{TypeT}"})

(* All of these: a reported type parameter relates nothing.                *)
TypeParametersRelate ==
    /\ ReportedParametersRelateNothing /\ LoneParametersAreReported
    /\ ReportedClassParametersRelateNothing /\ LoneClassParametersAreReported
=============================================================================
