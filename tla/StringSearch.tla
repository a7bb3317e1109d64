---------------------------- MODULE StringSearch ----------------------------
(***************************************************************************)
(* The rules prefer-string-starts-ends-with and prefer-includes: a         *)
(* comparison or a regular expression that asks where one string is in     *)
(* another.  A string is a sequence of letters.                            *)
(***************************************************************************)
EXTENDS RuleVisit, Integers, SequencesExt

StartsEndsId == "prefer-string-starts-ends-with"
IncludesId == "prefer-includes"

-----------------------------------------------------------------------------
(* Expressions, by the names of their kinds in the parser.                 *)
Number(v) == [kind |-> "number", value |-> v]
Text(t) == [kind |-> "text", text |-> t]
StringName(name, type) == [kind |-> "name", name |-> name, type |-> type]
Signed(sign, e) == [kind |-> "signed", sign |-> sign, operand |-> e]
Difference(l, r) == [kind |-> "minus", left |-> l, right |-> r]
LengthOf(e) == [kind |-> "length", of |-> e]
At(e, i) == [kind |-> "at", receiver |-> e, index |-> i]
Call(e, method, args) == [kind |-> "call", receiver |-> e, method |-> method, args |-> args]
Regex(source, flags, written) == [kind |-> "regex", source |-> source, flags |-> flags, written |-> written]
NullLiteral == [kind |-> "null"]

(* A type: members of a union; an intersection or a type parameter is a    *)
(* member of its own.                                                      *)
StringMembers == {"string", "'a'", "string&B", "T<string>"}
IsStringLikeType(type) == type # {} /\ type \subseteq StringMembers
IsStringLike(e) ==
    CASE e.kind = "text" -> TRUE
      [] e.kind = "name" -> IsStringLikeType(e.type)
      [] e.kind = "call" -> e.method \in {"charAt", "slice", "substring", "substr"}
      [] OTHER -> FALSE
Calls(e, methods, arities) ==
    e.kind = "call" /\ e.method \in methods /\ Len(e.args) \in arities /\ IsStringLike(e.receiver)

-----------------------------------------------------------------------------
(* prefer-string-starts-ends-with: the shapes, by the side that holds the  *)
(* access and the other one.                                               *)
SameIdentifier(a, b) == a.kind = "name" /\ b.kind = "name" /\ a.name = b.name
IsLengthOf(e, of) == e.kind = "length" /\ SameIdentifier(e.of, of)
(* As many as the other string has, by its literal or by its length.       *)
IsSizeOf(e, other) == (other.kind = "text" /\ e = Number(Len(other.text))) \/ IsLengthOf(e, other)
IsLengthMinusOne(e, of) == e.kind = "minus" /\ IsLengthOf(e.left, of) /\ e.right = Number(1)
(* Mutant: the length of any string is subtracted from.                    *)
IsLengthMinusOfAny(e, of, other) == e.kind = "minus" /\ e.left.kind = "length" /\ IsSizeOf(e.right, other)
IsLengthMinus(e, of, other) == e.kind = "minus" /\ IsLengthOf(e.left, of) /\ IsSizeOf(e.right, other)
IsLengthMinusNeedle(e, of, needle) ==
    \/ IsLengthMinus(e, of, needle)
    \/ /\ e.kind = "minus" /\ IsLengthOf(e.left, of)
       /\ e.right.kind = "length" /\ e.right.of.kind = "text" /\ e.right.of = needle

MatchStartsWith(a, other) ==
    /\ a.kind = "at" /\ a.index = Number(0) /\ IsStringLike(a.receiver)
    /\ IF other.kind = "text" THEN Len(other.text) = 1 ELSE IsStringLike(other)
MatchCharAt(a, other) == Calls(a, {"charAt"}, {1}) /\ a.args[1] = Number(0) /\ IsStringLike(other)
MatchIndexOfZero(a, other) == Calls(a, {"indexOf"}, {1}) /\ other = Number(0)
MatchEndsWith(a, other) ==
    /\ a.kind = "at" /\ IsStringLike(a.receiver) /\ other.kind = "text" /\ Len(other.text) = 1
    /\ IsLengthMinusOne(a.index, a.receiver)
MatchEndsWithCharAt(a, other) ==
    Calls(a, {"charAt"}, {1}) /\ IsLengthMinusOne(a.args[1], a.receiver) /\ IsStringLike(other)
MatchEndsWithLastIndexOf(a, other) ==
    Calls(a, {"lastIndexOf"}, {1}) /\ IsLengthMinusNeedle(other, a.receiver, a.args[1])
Slicing == {"slice", "substring", "substr"}
MatchSliceStartsWith(a, other) == Calls(a, Slicing, {2}) /\ a.args[1] = Number(0) /\ IsSizeOf(a.args[2], other)
IsNegated(e, other) ==
    e.kind = "signed" /\ (IsLengthOf(e.operand, other) \/ (other.kind = "text" /\ e.operand = Number(Len(other.text))))
MatchSliceEndsWith(a, other) ==
    \/ Calls(a, Slicing, {1}) /\ (IsNegated(a.args[1], other) \/ IsLengthMinus(a.args[1], a.receiver, other))
    \/ Calls(a, Slicing, {2}) /\ IsLengthOf(a.args[2], a.receiver) /\ IsLengthMinus(a.args[1], a.receiver, other)

(* A pattern: letters, escapes, anchors and other operators, reached       *)
(* through variables with an initializer.  The rule does not read flags.   *)
LiteralBody == {"a", "A", "nl", "\\$", "\\/"}
SourceOf(e) == IF e.kind = "regex" /\ e.written \in {"literal", "new"} THEN e.source ELSE <<>>
IsAnchored(e) ==
    LET src == SourceOf(e)
        starts == src # <<>> /\ src[1] = "^"
        ends == src # <<>> /\ Last(src) = "$"
        body == IF starts THEN Tail(src) ELSE Front(src)
    IN  starts # ends /\ \A i \in DOMAIN body : body[i] \in LiteralBody
MatchMatchAnchored(a, other) == Calls(a, {"match"}, {1}) /\ other = NullLiteral /\ IsAnchored(a.args[1])

Equalities == {"===", "!==", "==", "!="}
VisitSearchComparison(n) ==
    LET Either(Shape(_, _)) == Shape(n.left, n.right) \/ Shape(n.right, n.left)
    IN  IF n.op \notin Equalities THEN {}
        ELSE CASE ~n.allowSingle /\ Either(MatchStartsWith) -> {"startsWith"}
               [] Either(MatchCharAt) \/ Either(MatchIndexOfZero) -> {"startsWith"}
               [] ~n.allowSingle /\ Either(MatchEndsWith) -> {"endsWith"}
               [] Either(MatchEndsWithCharAt) \/ Either(MatchEndsWithLastIndexOf) -> {"endsWith"}
               [] Either(MatchSliceStartsWith) -> {"startsWith"}
               [] Either(MatchSliceEndsWith) -> {"endsWith"}
               [] Either(MatchMatchAnchored) -> {"anchored"}
               [] OTHER -> {}
VisitRegexTest(n) == IF Len(n.args) = 1 /\ IsAnchored(n.regex) THEN {"anchored"} ELSE {}
VisitStartsEnds(n) == IF n.handler = "test" THEN VisitRegexTest(n) ELSE VisitSearchComparison(n)

-----------------------------------------------------------------------------
(* prefer-includes.                                                        *)
Reversed(op) == CASE op = "<" -> ">" [] op = ">" -> "<" [] op = "<=" -> ">=" [] op = ">=" -> "<=" [] OTHER -> op
IsFindIndexCall(e) == e.kind = "call" /\ e.method = "indexOf"
IsComparisonShape(op, call, other) ==
    /\ IsFindIndexCall(call)
    /\ other \in (IF op \in Equalities \cup {">", "<="} THEN {Signed("-", Number(1))}
                  ELSE IF op \in {">=", "<"} THEN {Number(0)} ELSE {})
(* What a member declares: how many parameters includes and indexOf take   *)
(* and how many of them they ask for.                                      *)
Declares == [m \in {"string", "array", "own", "eager", "wider", "searchable", "null"} |->
    CASE m \in {"string", "array", "own"} -> [includes |-> <<2, 1>>, indexOf |-> <<2, 1>>]
      [] m = "eager" -> [includes |-> <<2, 2>>, indexOf |-> <<2, 1>>]
      [] m = "wider" -> [includes |-> <<3, 1>>, indexOf |-> <<2, 1>>]
      [] m = "searchable" -> [includes |-> <<>>, indexOf |-> <<2, 1>>]
      [] OTHER -> [includes |-> <<>>, indexOf |-> <<>>]]
HasCompatibleIncludes(type) ==
    /\ type \ {"null"} # {}
    /\ \A m \in type \ {"null"} :
          LET d == Declares[m]
          IN  d.includes # <<>> /\ d.includes[1] = d.indexOf[1] /\ d.includes[2] <= d.indexOf[2]
VisitIndexOf(n) ==
    LET call == IF IsComparisonShape(n.op, n.left, n.right) THEN n.left
                ELSE IF IsComparisonShape(Reversed(n.op), n.right, n.left) THEN n.right ELSE NullLiteral
    IN  IF call # NullLiteral /\ HasCompatibleIncludes(call.receiver.type) THEN {"includes"} ELSE {}

(* A plain expression: a literal without flags, or a constructed one whose *)
(* pattern has no backslash, behind a chain of at most three variables.    *)
PlainDepth == 4
PlainItems(written) == {"a", "A"} \cup (IF written \in {"new", "called"} THEN {} ELSE {"\\n", "\\/"})
IsPlain(e, variables) ==
    /\ variables < PlainDepth
    /\ e.source # <<>> /\ e.flags = {}
    /\ ToSet(e.source) \subseteq PlainItems(e.written)
VisitRegexpTest(n) ==
    IF /\ Len(n.args) = 1 /\ (n.args[1].kind = "text" \/ n.args[1].type \in {{"string"}, {"'a'"}})
       /\ n.variables > 0 => n.declarations = 1
       /\ IsPlain(n.regex, n.variables)
      THEN {"includes"} ELSE {}
VisitIncludes(n) == IF n.handler = "test" THEN VisitRegexpTest(n) ELSE VisitIndexOf(n)

-----------------------------------------------------------------------------
(* What the expressions evaluate to, with a string for every name.         *)
StringValues(letters, n) == UNION {[1..k -> letters] : k \in 0..n}
Least(i, j) == IF i < j THEN i ELSE j
Most(i, j) == IF i > j THEN i ELSE j
Between(s, from, to) == SubSeq(s, from + 1, to)
FromEnd(s, i) == IF i < 0 THEN Most(Len(s) + i, 0) ELSE Least(i, Len(s))
WithinText(s, i) == Most(0, Least(i, Len(s)))
Sliced(method, s, i, j) ==
    CASE method = "slice" -> Between(s, FromEnd(s, i), FromEnd(s, j))
      [] method = "substring" -> Between(s, Least(WithinText(s, i), WithinText(s, j)), Most(WithinText(s, i), WithinText(s, j)))
      [] method = "substr" -> Between(s, FromEnd(s, i), Least(FromEnd(s, i) + Most(j, 0), Len(s)))
Found(s, t) == {i \in 0..(Len(s) - Len(t)) : Between(s, i, i + Len(t)) = t}
Starts(s, t) == Len(t) <= Len(s) /\ Between(s, 0, Len(t)) = t
Ends(s, t) == Len(t) <= Len(s) /\ Between(s, Len(s) - Len(t), Len(s)) = t

(* Whether a pattern without alternatives matches from a place on.         *)
Letter == [item \in {"a", "A", "nl", "\\n", "\\$", "\\/"} |->
    CASE item = "\\n" -> "nl" [] item = "\\$" -> "$" [] item = "\\/" -> "/" [] OTHER -> item]
Same(x, y, flags) == x = y \/ ("i" \in flags /\ {x, y} = {"a", "A"})
RECURSIVE MatchesFrom(_, _, _, _)
MatchesFrom(s, src, at, flags) ==
    IF src = <<>> THEN TRUE
    ELSE CASE src[1] = "^" -> (at = 0 \/ ("m" \in flags /\ s[at] = "nl")) /\ MatchesFrom(s, Tail(src), at, flags)
           [] src[1] = "$" -> (at = Len(s) \/ ("m" \in flags /\ s[at + 1] = "nl")) /\ MatchesFrom(s, Tail(src), at, flags)
           [] src[1] = "." -> at < Len(s) /\ s[at + 1] # "nl" /\ MatchesFrom(s, Tail(src), at + 1, flags)
           [] OTHER -> at < Len(s) /\ Same(s[at + 1], Letter[src[1]], flags) /\ MatchesFrom(s, Tail(src), at + 1, flags)
Matches(s, e) == \E at \in IF "y" \in e.flags THEN {0} ELSE 0..Len(s) : MatchesFrom(s, e.source, at, e.flags)

RECURSIVE StringValue(_, _)
StringValue(e, env) ==
    CASE e.kind = "number" -> <<"number", e.value>>
      [] e.kind = "text" -> <<"string", e.text>>
      [] e.kind = "name" -> <<"string", env[e.name]>>
      [] e.kind = "null" -> <<"null">>
      [] e.kind = "signed" -> LET v == StringValue(e.operand, env)[2] IN <<"number", IF e.sign = "-" THEN -v ELSE v>>
      [] e.kind = "minus" -> <<"number", StringValue(e.left, env)[2] - StringValue(e.right, env)[2]>>
      [] e.kind = "length" -> <<"number", Len(StringValue(e.of, env)[2])>>
      [] e.kind = "at" ->
            LET s == StringValue(e.receiver, env)[2]
                i == StringValue(e.index, env)[2]
            IN  IF i \in 0..(Len(s) - 1) THEN <<"string", <<s[i + 1]>>>> ELSE <<"undefined">>
      [] OTHER ->
            LET s == StringValue(e.receiver, env)[2]
                arg == [i \in DOMAIN e.args |-> IF e.method = "match" THEN <<>> ELSE StringValue(e.args[i], env)[2]]
            IN  CASE e.method = "charAt" -> <<"string", IF arg[1] \in 0..(Len(s) - 1) THEN <<s[arg[1] + 1]>> ELSE <<>>>>
                  [] e.method = "indexOf" -> <<"number", IF Found(s, arg[1]) = {} THEN -1 ELSE Min(Found(s, arg[1]))>>
                  [] e.method = "lastIndexOf" -> <<"number", IF Found(s, arg[1]) = {} THEN -1 ELSE Max(Found(s, arg[1]))>>
                  [] e.method = "match" -> IF Matches(s, e.args[1]) THEN <<"match">> ELSE <<"null">>
                  [] OTHER -> <<"string", Sliced(e.method, s, arg[1], IF Len(arg) = 2 THEN arg[2] ELSE Len(s))>>

(* The string asked about and the one it is asked for: a side of the       *)
(* comparison with the other side, or with what the side is called with.   *)
IsString(e) == e.kind \in {"text", "name"} \/ (e.kind = "call" /\ IsStringLike(e))
Asked(a, other) ==
    IF a.kind \notin {"at", "call"} THEN {}
    ELSE {a.receiver} \X {t \in {other} \cup (IF a.kind = "call" THEN ToSet(a.args) ELSE {}) : IsString(t)}
Readings(n) == Asked(n.left, n.right) \cup Asked(n.right, n.left)
Environments == [{"s", "t", "u"} -> StringValues({"a", "A"}, 2) \cup {<<"a", "A", "a">>, <<"a", "a", "A">>, <<"A", "a", "A">>, <<"a", "A", "a", "A">>}]
AsksFor(n, Asks(_, _), envs) ==
    \E q \in Readings(n) : \A env \in envs :
        (StringValue(n.left, env) = StringValue(n.right, env)) <=> Asks(StringValue(q[1], env)[2], StringValue(q[2], env)[2])
Uses(n, methods) == \E e \in {n.left, n.right} : e.kind = "call" /\ e.method \in methods
Side(n, kind) == \E e \in {n.left, n.right} : e.kind = kind

(* What is called startsWith or endsWith is that, for all strings.  Known: *)
(* a first or last letter is compared with a string of any length;         *)
(* substring takes a negative start for zero, and a sign may be a plus;    *)
(* lastIndexOf of a string that is one letter longer is -1, the difference *)
(* of the lengths; and the last zero letters are sliced from zero.         *)
OneLetter(n) == \A e \in {n.left, n.right} : (e.kind = "text" /\ Len(e.text) = 1) \/ e.kind = "at" \/ (e.kind = "call" /\ e.method = "charAt")
Signs(n) == {e.args[1].sign : e \in {x \in {n.left, n.right} : x.kind = "call" /\ x.method \in Slicing /\ x.args[1].kind = "signed"}}
Known(n) ==
    \/ (Side(n, "at") \/ Uses(n, {"charAt"})) /\ ~OneLetter(n)
    \/ Uses(n, {"substring"}) /\ Signs(n) # {}
    \/ "+" \in Signs(n)
Fair(n, env) ==
    \A q \in Readings(n) : LET s == StringValue(q[1], env)[2] t == StringValue(q[2], env)[2]
                           IN  /\ Uses(n, {"lastIndexOf"}) => Len(t) # Len(s) + 1
                               /\ Signs(n) # {} => t # <<>>
ComparisonsAsk ==
    Visited(StartsEndsId) /\ node.handler = "comparison" /\ ~Known(node) =>
        LET envs == {env \in Environments : Fair(node, env)}
        IN  /\ "startsWith" \in reports => AsksFor(node, Starts, envs)
            /\ "endsWith" \in reports => AsksFor(node, Ends, envs)

(* And what asks one of these questions of a string is called that.        *)
(* Known: the string has to be a variable where its length is asked for,   *)
(* the empty string, the length of a literal, zeros that are written       *)
(* otherwise and negative starts with an end are not recognised, and a     *)
(* one-letter comparison may be allowed.                                   *)
RECURSIVE Subexpressions(_)
Subexpressions(e) ==
    {e} \cup CASE e.kind = "signed" -> Subexpressions(e.operand)
               [] e.kind = "minus" -> Subexpressions(e.left) \cup Subexpressions(e.right)
               [] e.kind = "length" -> Subexpressions(e.of)
               [] e.kind = "at" -> Subexpressions(e.receiver) \cup Subexpressions(e.index)
               [] e.kind = "call" /\ e.method # "match" -> Subexpressions(e.receiver) \cup UNION {Subexpressions(x) : x \in ToSet(e.args)}
               [] OTHER -> {}
IsUnusual(e) ==
    \/ e = Text(<<>>)
    \/ e.kind = "length" /\ e.of.kind = "text"
    \/ e.kind = "signed" /\ e.operand = Number(0)
    \/ e.kind = "minus" /\ e.left = e.right
    \/ e.kind = "call" /\ Len(e.args) = 2 /\ e.args[1].kind = "signed"
QuestionsAreFound ==
    /\ Visited(StartsEndsId) /\ node.handler = "comparison" /\ node.op \in Equalities /\ reports = {}
    /\ AsksFor(node, Starts, Environments) \/ AsksFor(node, Ends, Environments)
    => \/ node.allowSingle /\ Side(node, "at")
       \/ \E q \in Readings(node) : ~IsStringLike(q[1]) \/ q[1].kind # "name"
       \/ \E e \in Subexpressions(node.left) \cup Subexpressions(node.right) : IsUnusual(e)

(* An anchored pattern asks for its letters at that end.  Known: its flags *)
(* are ignored.                                                            *)
Body(src) == SelectSeq(src, LAMBDA x : x \in LiteralBody)
BodyLetters(src) == [i \in DOMAIN Body(src) |-> Letter[Body(src)[i]]]
Searched == StringValues({"a", "A", "nl", "$", "/"}, 2)
PatternsAsk ==
    /\ Visited(StartsEndsId) /\ "anchored" \in reports =>
        LET e == IF node.handler = "test" THEN node.regex
                 ELSE IF node.left.kind = "call" THEN node.left.args[1] ELSE node.right.args[1]
        IN  e.flags = {} => \A s \in Searched : Matches(s, e) <=>
                IF e.source[1] = "^" THEN Starts(s, BodyLetters(e.source)) ELSE Ends(s, BodyLetters(e.source))

(* includes: the comparison tells -1 from every other index, and each      *)
(* member's includes takes the arguments that are given.  Known: includes  *)
(* with more parameters and a comparison with -0 are not reported.         *)
Constant(e) == IF e.kind = "number" THEN e.value ELSE IF e.sign = "-" THEN -e.operand.value ELSE e.operand.value
Compares(op, v, w) ==
    CASE op \in {"===", "=="} -> v = w [] op \in {"!==", "!="} -> v # w
      [] op = "<" -> v < w [] op = ">" -> v > w [] op = "<=" -> v <= w [] OTHER -> v >= w
Takes(m, count) == Declares[m].includes # <<>> /\ count \in Declares[m].includes[2]..Declares[m].includes[1]
IndexesAsk ==
    Visited(IncludesId) /\ node.handler = "comparison" /\ (IsFindIndexCall(node.left) \/ IsFindIndexCall(node.right)) =>
        LET onLeft == IsFindIndexCall(node.left)
            call == IF onLeft THEN node.left ELSE node.right
            other == IF onLeft THEN node.right ELSE node.left
            Holds(v) == IF onLeft THEN Compares(node.op, v, Constant(other)) ELSE Compares(node.op, Constant(other), v)
            asks == Holds(-1) # Holds(0) /\ \A v \in 0..3 : Holds(v) = Holds(0)
            takes == \A m \in call.receiver.type \ {"null"} : Takes(m, Len(call.args))
            alike == \A m \in call.receiver.type \ {"null"} : Declares[m].includes = Declares[m].indexOf
        IN  /\ reports # {} => asks /\ takes
            /\ asks /\ alike /\ call.receiver.type # {"null"} => reports # {} \/ (other.kind = "signed" /\ Constant(other) = 0)

(* A plain pattern asks for its letters anywhere.  Known: escapes other    *)
(* than those of white space, quotes and slashes are not seen as letters.  *)
PlainPatternsAsk ==
    Visited(IncludesId) /\ node.handler = "test" =>
        LET letters == \A i \in DOMAIN node.regex.source : node.regex.source[i] \in DOMAIN Letter
            asks == letters /\ \A s \in Searched : Matches(s, node.regex) <=>
                        Found(s, [i \in DOMAIN node.regex.source |-> Letter[node.regex.source[i]]]) # {}
        IN  /\ reports # {} => asks
            /\ /\ asks /\ node.regex.flags = {} /\ node.regex.source # <<>> /\ Len(node.args) = 1
               /\ node.args[1].kind = "text" \/ node.args[1].type = {"string"}
               /\ node.variables < PlainDepth /\ node.declarations = 1
               /\ ToSet(node.regex.source) \subseteq {"a", "A"} \/ (node.regex.written = "literal" /\ "\\$" \notin ToSet(node.regex.source))
               => reports # {}

(* No search is mistaken for another one.                                  *)
SearchesMeanWhatTheySay == ComparisonsAsk /\ QuestionsAreFound /\ PatternsAsk /\ IndexesAsk /\ PlainPatternsAsk
=============================================================================
