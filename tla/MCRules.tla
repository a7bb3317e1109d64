------------------------------- MODULE MCRules -------------------------------
EXTENDS FlowRules, ConstantExpressions, ScopeRules, Hooks,
    NumberLiterals, Loops, NamingConvention, AssignedValues, VueComponents

-----------------------------------------------------------------------------
(* The rules on the flow through a body: every statement form around every  *)
(* simple one, switches with one compound statement in them, followed by a  *)
(* simple one.                                                              *)
SomeValue == Leaf("leaf")
Super == Node("super", <<>>)
This == Leaf("this")
Expr(e) == Node("expr", <<e>>)
Block(ss) == Node("block", ss)
Return(e) == Node("return", <<e>>)

Quiet == {Expr(SomeValue), Expr(Super), Node("return", <<>>), Return(SomeValue), Node("throw", <<SomeValue>>)}
Simple == Quiet \cup {Node("break", <<>>)}

Ifs(S) == {Node("if", <<SomeValue, s>>) : s \in S} \cup {Node("if", <<SomeValue, s, t>>) : s, t \in S}
LoopsOf(S) ==
    {Node("while", <<SomeValue, s>>) : s \in S} \cup {Node("do", <<s, SomeValue>>) : s \in S}
Endless(S) == {Node("while", <<Leaf("true"), s>>) : s \in S} \cup {Node("do", <<s, Leaf("true")>>) : s \in S}
Catch(b) == Node("catch", <<b>>)
Tries(B) ==
    {Node("try", <<b, Catch(c)>>) : b, c \in B}
    \cup {Node("try", <<b, f>>) : b, f \in B}
    \cup {Node("try", <<b, Catch(c), f>>) : b, c, f \in B}
Case(ss) == Node("case", <<SomeValue>> \o ss)
Default(ss) == Node("default", ss)
Switches(L, M) ==
    {Node("switch", <<Case(l), Case(m)>>) : l \in L, m \in M}
    \cup {Node("switch", <<Case(l), Default(m)>>) : l \in L, m \in M}
    \cup {Node("switch", <<Default(l), Case(m)>>) : l \in L, m \in M}

Blocks(S, n) == {Block(ss) : ss \in SeqOf(S, n)}

(* Expressions with super in them.                                         *)
Calls ==
    {Node("call", <<a, b>>) : a, b \in {SomeValue, Super}}
    \cup {Node("super", <<a>>) : a \in {SomeValue, Super, Node("function", <<Super>>)}}
    \cup {Node("cond", <<a, b, c>>) : a, b, c \in {SomeValue, Super}}
    \cup {Node("logic", <<a, b>>) : a, b \in {SomeValue, Super}}

InnerStatements == Simple \cup Blocks(Simple, 1) \cup Ifs(Simple) \cup {Node("labeled", <<s>>) : s \in Simple}
Exit == {Return(SomeValue), Node("break", <<>>)}
Compound ==
    Ifs(Quiet \cup Blocks(Quiet, 2))
    \cup LoopsOf(Simple \cup {Node("continue", <<>>)} \cup Blocks(Simple, 2))
    \cup Endless(Simple)
    \cup Tries(Blocks(Quiet, 1))
    \cup Switches(SeqOf(Simple, 2), SeqOf(Simple, 2))
    \cup Switches(SeqOf(InnerStatements, 1) \cup {<<i, s>> : i \in InnerStatements, s \in Exit}, SeqOf(Simple, 1))
    \cup {Expr(e) : e \in Calls}
Bodies(S, endings) == {b \in {Block(<<s>> \o e) : s \in S, e \in endings} : WellFormed(b)}
Function(b) == Node("function", <<b>>)

Getters == {[method |-> "get", args |-> <<Function(b)>>, allowImplicit |-> FALSE] :
    b \in Bodies(Compound, {<<>>, <<Return(SomeValue)>>})}
Constructors == {[parent |-> <<SomeValue>>, ctor |-> Node("ctor", <<b>>)] :
    b \in Bodies(Compound, {<<>>, <<Expr(Super)>>})}

(* The other calls around a few bodies.                                    *)
FewBodies == {Block(<<>>), Block(<<Return(SomeValue)>>), Block(<<Return(Leaf("undefined"))>>), Block(<<Node("return", <<>>)>>),
    Block(<<Node("if", <<SomeValue, Return(SomeValue)>>)>>), Block(<<Node("if", <<SomeValue, Return(SomeValue), Node("return", <<>>)>>)>>)}
FewFunctions == {Function(b) : b \in FewBodies \cup {SomeValue, Leaf("undefined")}}
Object(props) == Node("object", props)
Described == {Object(<<Node(k, <<f>>), Node("prop", <<SomeValue>>)>>) : k \in {"getter", "get prop", "get method", "prop", "other method"}, f \in FewFunctions \cup {Node("paren", <<f>>) : f \in FewFunctions} \cup {SomeValue}}
Descriptors == Described \cup {Node("paren", <<d>>) : d \in Described} \cup {SomeValue}
DescriptorCalls ==
    {[method |-> m, args |-> a, allowImplicit |-> i] : m \in {"defineProperty", "create"}, i \in BOOLEAN,
        a \in {<<SomeValue, SomeValue, d>> : d \in Descriptors} \cup {<<SomeValue, Object(<<Node("prop", <<d>>), Node("other method", <<d>>)>>)>> : d \in Descriptors} \cup {<<SomeValue>>}}

CallbackTrees == FewFunctions \cup {Node(k, <<f, g>>) : k \in {"logic"}, f, g \in FewFunctions \cup {SomeValue}}
    \cup {Node("cond", <<SomeValue, f, g>>) : f, g \in FewFunctions} \cup {Node("paren", <<f>>) : f \in FewFunctions}
    \cup {Node("call", <<Function(b)>>) : b \in FewFunctions \cup {Block(<<Return(f)>>) : f \in FewFunctions} \cup {Block(<<Node("if", <<SomeValue, Return(f)>>), Return(g)>>) : f, g \in FewFunctions}}
CallbackCalls ==
    {[method |-> m, isStatic |-> FALSE, args |-> <<c>>, opts |-> o, async |-> a, generator |-> g] :
        m \in {"map", "forEach", "push"}, c \in CallbackTrees, o \in {{}, {"checkForEach"}, {"allowImplicit"}, {"checkForEach", "allowVoid"}}, a, g \in BOOLEAN}
    \cup {[method |-> m, isStatic |-> TRUE, args |-> <<SomeValue, c>>, opts |-> {}, async |-> a, generator |-> FALSE] : m \in {"from", "of"}, c \in CallbackTrees, a \in BOOLEAN}

Parents == {Leaf(k) : k \in {"leaf", "literal", "null"}}
ParentTrees == Parents \cup {Node(k, <<a, b>>) : k \in {"&&", "||", "??", "=", "&&=", "||=", "??=", ",", "+"}, a, b \in Parents}
    \cup {Node("cond", <<SomeValue, a, b>>) : a, b \in Parents} \cup {Node("paren", <<a>>) : a \in Parents}
    \cup {Node("cond", <<SomeValue, Node("=", <<SomeValue, a>>), b>>) : a, b \in Parents}
Derived == {[parent |-> p, ctor |-> c] : p \in {<<>>} \cup {<<t>> : t \in ParentTrees},
        c \in {Node("ctor", <<>>)} \cup {Node("ctor", <<b>>) : b \in FewBodies \cup {Block(<<Expr(Super)>>), Block(<<Expr(Function(Block(<<Return(Super)>>)))>>)}}}

Trivia == {<<"newline">>, <<"newline", "newline">>, <<"falls through", "newline">>, <<"pattern", "newline">>, <<"newline", "other", "newline">>,
    <<"newline", "falls through", "newline", "other", "newline">>, <<"newline", "disables the rule", "newline">>}
ClauseLists == {<<>>} \cup {<<s>> : s \in InnerStatements \cup LoopsOf(Simple) \cup Tries({Block(<<Return(SomeValue)>>), Block(<<>>), Block(<<Node("break", <<>>)>>)})} \cup {<<Expr(SomeValue), s>> : s \in Simple}
FallthroughOptions == {{}, {"commentPattern"}, {"allowEmptyCase"}, {"reportUnusedFallthroughComment"}}
Fallthroughs ==
    {[switch |-> Node("switch", <<Case(l), d>>), leading |-> <<<<"newline">>, t>>, inner |-> <<u, <<"newline">>>>, opts |-> o] :
        l \in ClauseLists, d \in {Case(<<>>), Default(<<>>)}, t \in Trivia, u \in {<<"newline">>, <<"falls through", "newline">>}, o \in FallthroughOptions}

Declarations == {Node("function", <<SomeValue>>), Node("var", <<>>), Node("var", <<SomeValue>>), Node("let", <<>>), Expr(SomeValue)}
DeadBodies == {Block(<<s, d, e>>) : s \in InnerStatements \cup LoopsOf(InnerStatements \cup {Node("continue", <<>>)}) \cup Endless(InnerStatements \cup {Node("continue", <<>>)}) \cup Tries(Blocks(Simple, 1)) \cup Declarations, d, e \in Declarations}
    \cup {Default(<<s, d>>) : s \in InnerStatements, d \in Declarations}

ThisUses == {Expr(e) : e \in {This, Super, Node("super", <<This>>), Node("call", <<Super, This>>), Node("call", <<This, Super>>),
            Node("logic", <<Super, This>>), Node("logic", <<SomeValue, Super>>), Node("cond", <<SomeValue, Super, Super>>), Function(This)}}
    \cup {Node("return", <<This>>), Node("return", <<>>)}
UseBlocks == {Block(<<u>>) : u \in ThisUses}
UseStatements == ThisUses \cup UseBlocks \cup Ifs(UseBlocks) \cup LoopsOf(UseBlocks) \cup Endless(UseBlocks) \cup Tries(UseBlocks \cup {Block(<<>>)})
    \cup {Node("switch", <<Case(<<u>>), Default(<<v>>)>>) : u, v \in ThisUses} \cup {Node("labeled", <<u>>) : u \in UseBlocks}
UseBodies == {Block(<<s, u>>) : s \in UseStatements, u \in ThisUses}

Returning == {Block(<<s, t>>) : s \in Ifs({Return(SomeValue), Return(Leaf("undefined")), Node("return", <<>>)}) \cup LoopsOf({Block(<<Return(SomeValue)>>)}), t \in Simple \ {Node("break", <<>>)}}
Consistent == {[fn |-> Function(b), async |-> a, annotation |-> t, treatUndefinedAsUnspecified |-> u] :
    b \in FewBodies \cup Returning \cup {SomeValue}, a, u \in BOOLEAN, t \in {{}, {"void"}, {"undefined", "void"}, {"Promise<void>"}, {"number"}}}

FlowInit ==
    \/ Start(GetterReturnId, Getters \cup DescriptorCalls)
    \/ Start(CallbackReturnId, CallbackCalls)
    \/ Start(ConstructorSuperId, Constructors \cup Derived)
    \/ Start(FallthroughId, Fallthroughs)
    \/ Start(UnreachableId, DeadBodies)
    \/ Start(ThisBeforeSuperId, UseBodies)
    \/ Start(ConsistentReturnId, Consistent)
FlowNext ==
    \/ Dispatch(GetterReturnId, VisitGetter)
    \/ Dispatch(CallbackReturnId, VisitCallback)
    \/ Dispatch(ConstructorSuperId, VisitConstructor)
    \/ Dispatch(FallthroughId, VisitSwitch)
    \/ Dispatch(UnreachableId, VisitList)
    \/ Dispatch(ThisBeforeSuperId, VisitThis)
    \/ Dispatch(ConsistentReturnId, VisitFunction)

(* Getters alone, for the run about a break in braces.                     *)
GetterSpec == Start(GetterReturnId, Getters) /\ [][Dispatch(GetterReturnId, VisitGetter)]_vars

-----------------------------------------------------------------------------
(* no-constant-condition and no-constant-binary-expression                 *)
(* Expressions over one variable: atoms, arrays and templates of them, and *)
(* two levels of operators.                                                *)
X == Leaf("x")
Binaries(ops, L, R) == {Node(op, <<l, r>>) : op \in ops, l \in L, r \in R}
Unaries(ops, S) == {Node(op, <<e>>) : op \in ops, e \in S}
Constants == {Leaf(k) : k \in {"true", "false", "null", "undefined", "0", "1", "0n", "''", "'a'"}}
Atoms == Constants \cup {X, Leaf("object"), Leaf("new"), Leaf("Boolean"), Leaf("array")}
Arrays == {Node("array", <<e>>) : e \in {X, Leaf("''"), Leaf("null"), Leaf("hole"), Leaf("array")}}
    \cup {Node("array", <<e, f>>) : e, f \in {X, Leaf("hole"), Node("spread", <<X>>)}}
    \cup {Node("array", <<Node("spread", <<a>>)>>) : a \in {X, Node("array", <<X>>), Node("array", <<Leaf("''"), Leaf("''")>>)}}
Templates(S) == {Node("template", <<Leaf(h), e, Leaf("emptytext")>>) : h \in {"emptytext", "text"}, e \in S}
    \cup {Node("template", <<Leaf("emptytext"), e, Leaf("emptytext"), X>>) : e \in S}
Operators == {"&&", "||", "??", ",", "=", "||=", "&&=", "??=", "+=", "+", "-", "<", "===", "=="}
AssignOperators == {"=", "||=", "&&=", "??=", "+="}
Compounds(S, R) == Binaries(Operators \ AssignOperators, S, R) \cup Binaries(AssignOperators, {X}, R)
OneOperator == Compounds(Atoms, Atoms) \cup Unaries({"!", "+x", "void", "typeof", "paren", "Boolean"}, Atoms \cup Arrays)
    \cup Templates(Atoms \cup Arrays) \cup Compounds(Arrays, Constants)
FewAtoms == {Leaf("true"), Leaf("false"), X, Leaf("undefined"), Leaf("''"), Node("array", <<X>>)}
FewCompounds == Compounds(FewAtoms, FewAtoms) \cup Unaries({"!", "typeof"}, FewAtoms)
TwoOperators == Compounds(FewCompounds, {Leaf("true"), X, Leaf("''")}) \cup Compounds({Leaf("false"), X}, FewCompounds)
    \cup Unaries({"!", "typeof", "+x", "Boolean"}, FewCompounds) \cup Templates(FewCompounds)
Logic(S) == S \cup Unaries({"!"}, S) \cup Binaries({"&&", "||"}, S, S)
Tests == OneOperator \cup TwoOperators \cup Logic(Logic({Leaf("true"), Leaf("false"), X}))

Test(s, e, y, g, b, l) == [stmt |-> s, test |-> e, yields |-> y, generator |-> g, shadowed |-> b, checkLoops |-> l]
Conditions == {Test("if", e, {}, FALSE, {}, "all") : e \in Tests}
    \cup {Test("if", e, {}, FALSE, b, "all") : e \in Unaries({"Boolean", "!"}, FewAtoms \cup FewCompounds), b \in {{"undefined"}, {"Boolean"}}}
    \cup {Test(s, e, y, g, {}, l) : s \in {"while", "for", "do"}, e \in FewAtoms \cup Unaries({"paren", "!"}, FewAtoms),
            y \in {{}, {"body"}, {"update"}}, g \in BOOLEAN, l \in {"all", "none", "allExceptWhileTrue"}}

Compared == Atoms \cup Arrays \cup {Leaf(k) : k \in {"NaN", "'1'", "regex", "newBuiltin"}}
    \cup Unaries({"typeof", "!", "+x", "++", "delete", "void", "Boolean", "String", "Number"}, {X})
    \cup Unaries({"Boolean", "!"}, {Leaf("object")})
    \cup Binaries({"+", "-", "<", "=", "+=", "||=", "&&", ","}, {X}, {X, Leaf("array"), Leaf("0")})
    \cup {Node("cond", <<X, Leaf("object"), Leaf("array")>>)}
BinaryNodes == Binaries({"&&", "??"}, OneOperator \cup FewCompounds \cup Compared, {X}) \cup Binaries({"==", "==="}, Compared, Compared)

ConstantsInit == Start(ConstantConditionId, Conditions) \/ Start(ConstantBinaryId, BinaryNodes)
ConstantsNext == Dispatch(ConstantConditionId, VisitCondition) \/ Dispatch(ConstantBinaryId, VisitBinary)

-----------------------------------------------------------------------------
(* rules on scopes and bindings                                            *)
(* Ancestors: up to two, or three inside a class, of these.                *)
Around == {<<"function">>, <<"arrow">>, <<"block">>} \cup {<<"class", p>> : p \in {"method", "method name", "field", "field name", "static", "static name", "static block", "heritage"}}
AroundTwice == {<<>>} \cup Around \cup {a \o b : a, b \in Around}
ScopeEnds == {"function", "block", "method", "static block"}
Depths(chain) == {0} \cup {i \in DOMAIN chain : chain[i] \in ScopeEnds}
Use(c, d, w, k, f, o) == [chain |-> c, depth |-> d, where |-> w, decl |-> k, form |-> f, opts |-> o, destructured |-> FALSE]
AllOn == {"functions", "classes", "variables", "enums"}
UseOptions == {{}, AllOn, {"enums", "variables"}, {"functions", "classes"}}
UsesBelow(c) ==
    {Use(c, d, w, k, f, o) : d \in Depths(c), w \in {"before", "after"}, k \in {"function", "class", "enum", "var", "let", "parameter"}, f \in {"plain", "new"}, o \in UseOptions}
UsesWithin(c) ==
    {Use(p \o <<i>> \o c, Len(p), "within", k, "plain", o) : p \in {<<>>, <<"function">>}, i \in {"initializer", "iterated"}, k \in {"var", "let", "parameter"}, o \in {{}, AllOn}}
    \cup {Use(<<"class", m[2]>> \o c, 0, "within", "class", "plain", o) : m \in {a \in Around : Len(a) = 2}, o \in {{}, AllOn}}
OtherUses ==
    {Use(<<>>, 0, "before", "let", f, o) : f \in {"type", "exported", "key", "label", "attribute", "declared name"}, o \in {AllOn, {"ignoreTypeReferences"}, {"allowNamedExports"}}}
    \cup {[Use(<<"with">> \o c, 0, "before", k, "plain", {}) EXCEPT !.destructured = s] : c \in {<<>>, <<"block">>}, k \in {"let", "class", "import"}, s \in BOOLEAN}

(* Frames.                                                                 *)
Frame(k, p, o, d) == [kind |-> k, param |-> p, own |-> o, decls |-> d]
Declared1 == {<<>>} \cup {<<k>> : k \in {"var", "let", "function", "class", "{x}", "nested var"}}
Files == {Frame("file", "no", FALSE, d) : d \in Declared1 \cup {<<"import">>, <<"enum">>, <<"= x">>, <<"var", "function">>, <<"function", "var">>}}
Inner == {Frame("block", "no", FALSE, d) : d \in Declared1 \ {<<"nested var">>}}
    \cup {Frame(k, p, FALSE, d) : k \in {"function", "arrow", "method", "accessor", "constructor"}, p \in {"no", "x"}, d \in {<<>>, <<"var">>, <<"function">>}}
    \cup {Frame("funexpr", p, o, d) : p \in {"no", "x", "{x}"}, o \in BOOLEAN, d \in {<<>>, <<"function">>, <<"nested var">>}}
    \cup {Frame(k, p, FALSE, <<>>) : k \in {"for", "catch"}, p \in {"no", "x", "{x}"}}
Innermost == {Frame("block", "no", FALSE, <<>>), Frame("block", "no", FALSE, <<"let">>), Frame("arrow", "no", FALSE, <<>>), Frame("function", "x", FALSE, <<>>)}
FrameChains == {<<f>> : f \in Files} \cup {<<f, i>> : f \in Files, i \in Inner} \cup {<<f, i, j>> : f \in Files, i \in Inner, j \in Innermost}
    \cup {<<f, i, j>> : f \in {g \in Files : g.decls = <<>>}, i, j \in Inner}
ShortChains == {c \in FrameChains : Len(c) < 3 /\ c[1].decls \in {<<>>, <<"function">>}}
Undefs == {[frames |-> c, form |-> "({x} =", typeof |-> FALSE] : c \in FrameChains}
    \cup {[frames |-> c, form |-> f, typeof |-> t] : c \in ShortChains, f \in {"plain", "type", "typeof", "key", "exported", "label"}, t \in BOOLEAN}
AssignForms == CheckedForms \cup {"(x) =", "x++", "for (x of", "x.a =", "({...x} ="}
FunctionAssigns == {[frames |-> c, form |-> "x ="] : c \in FrameChains} \cup {[frames |-> c, form |-> f] : c \in ShortChains, f \in AssignForms}
ImportAssigns == {[imported |-> "namespace", form |-> "Object.assign(ns)", frames |-> c] : c \in FrameChains}
    \cup {[imported |-> i, form |-> f, frames |-> <<Frame("file", "no", FALSE, <<>>)>>] : i \in {"none", "named", "namespace"},
            f \in {"x =", "x++", "[x] =", "ns.a =", "ns[a] =", "delete ns.a", "delete (ns.a)", "Object.assign(ns)", "(Object.assign)(ns)", "Reflect.set(ns)", "plain"}}

InnerChains == {<<>>} \cup {<<a>> : a \in {"block", "if", "loop", "switch", "export", "namespace"}}
    \cup {<<f, "block">> : f \in FunctionLike \cup {"if", "try", "block"}} \cup {<<f, "block", b>> : f \in FunctionLike, b \in {"block", "if", "switch"}}
    \cup {<<f, "block", "if", "block">> : f \in FunctionLike} \cup {<<"class", m, "block">> : m \in {"method", "static block"}} \cup {<<"class", "static block", "block", b>> : b \in {"block", "if"}}
Inners == {[decl |-> k, chain |-> c, strict |-> s, file |-> f, mode |-> m, allowBlocks |-> a] :
    k \in {"function", "var", "let"}, c \in InnerChains, s \in {{}, {2}}, f \in {"script", "import", "export list", "exported declaration", "'use strict'", "'a'; 'use strict'"}, m \in {"functions", "both"}, a \in BOOLEAN}

DeclarationOf == {[kind |-> k, nested |-> b] : k \in {"var", "function"}, b \in BOOLEAN}
    \cup {[kind |-> k, nested |-> FALSE] : k \in DOMAIN Excludes \ {"var", "function", "param"}}
Redeclarations == {[decls |-> d, strict |-> s] : d \in UNION {[1..k -> DeclarationOf] : k \in 1..3}, s \in BOOLEAN}
    \cup {[decls |-> <<[kind |-> "param", nested |-> FALSE]>> \o d, strict |-> s] : d \in UNION {[1..k -> DeclarationOf] : k \in 1..2}, s \in BOOLEAN}
DeclaredParts == {<<>>} \cup {<<Declare(a, "name")>> : a \in {"_a", "b", "c"}}
    \cup {<<Declare("b", "property"), Declare("c", "name")>>, <<Declare("c", "name"), Declare("b", "default")>>, <<Declare("b", "name"), Declare("c", "name")>>}
UnusedItems == {[declares |-> d, reads |-> r, exported |-> e, scope |-> s] : d \in DeclaredParts, r \in {{}, {"b"}, {"b", "c"}}, e \in BOOLEAN, s \in {"outer", "inner"}}
Unused == {[items |-> <<i, j>>] : i, j \in {k \in UnusedItems : k.exported => k.scope = "outer"}}

ScopeStart ==
    \/ \E c \in AroundTwice : Start(UseBeforeDefineId, UsesBelow(c)) \/ Start(UseBeforeDefineId, UsesWithin(c))
    \/ Start(UseBeforeDefineId, OtherUses)
    \/ Start(UndefId, Undefs)
    \/ Start(RedeclareId, Redeclarations)
    \/ Start(UnusedVarsId, Unused)
    \/ Start(FunctionAssignId, FunctionAssigns)
    \/ Start(ImportAssignId, ImportAssigns)
    \/ Start(InnerDeclarationsId, {n \in Inners : n.strict # {} => Len(n.chain) > 1 /\ n.chain[1] \in FunctionLike})
ScopeInit == ScopeStart /\ IsScopeNode(rule, node)

-----------------------------------------------------------------------------
(* rules on React hooks                                                    *)
Bare == [hook |-> "useEffect", of |-> "named import", args |-> <<"function", "array">>, above |-> <<>>, declares |-> {}, binding |-> "",
         uses |-> <<>>, deps |-> <<>>, module |-> {"m"}, globals |-> {"g"}, params |-> {}, decls |-> {}, reassigned |-> {}]

HookUse(x, p, d) == [name |-> x, place |-> p, deep |-> d]
HookUses == {HookUse("a", p, d) : p \in {"read", "initializer", "key"}, d \in BOOLEAN} \cup {HookUse("g", "read", FALSE)}
FewUses == {<<>>, <<HookUse("a", "read", FALSE)>>, <<HookUse("a", "read", TRUE)>>, <<HookUse("a", "initializer", FALSE)>>}
Entries == {[head |-> "a", path |-> "a"], [head |-> "a", path |-> "a.p"], [head |-> "b", path |-> "b"], [head |-> "", path |-> "f()"]}
EntryLists == {<<>>} \cup {<<e>> : e \in Entries} \cup {<<e, f>> : e, f \in Entries}
FewLists == {<<>>} \cup {<<e>> : e \in Entries}
LocalsOf == {{}} \cup {{[name |-> "a", at |-> p]} : p \in {"parameter", "statement", "nested", "catch", "function expression"}}
HookBinding(how, w, c, i) == {[name |-> "a", how |-> how, wrap |-> w, const |-> c, inner |-> i]}
Hows == {"literal", "regex", "module member", "fresh", "function", "call", "setter", "ref", "ref of another hook"}
ComponentBindings == {[p |-> {"a"}, d |-> {}, r |-> r] : r \in {{}, {"a"}}} \cup {[p |-> {}, d |-> {}, r |-> {}]}
    \cup {[p |-> {}, d |-> HookBinding(h, w, c, i), r |-> {}] : h \in Hows, w \in {"none", "(", "as"}, c \in BOOLEAN, i \in BOOLEAN}
    \cup {[p |-> {}, d |-> HookBinding(h, "none", c, i), r |-> r] : r \in {{}, {"a"}}, h \in Hows, c \in BOOLEAN, i \in BOOLEAN}
    \cup {[p |-> {"a"}, d |-> HookBinding(h, "none", FALSE, TRUE), r |-> r] : r \in {{}, {"a"}}, h \in Hows}
Bound(n, b) == [n EXCEPT !.params = b.p, !.decls = b.d, !.reassigned = b.r]

Lines == {[kind |-> "code", names |-> {}], [kind |-> "comment", names |-> {}], [kind |-> "ignore all", names |-> {}], [kind |-> "ignore", names |-> {"a"}]}
HookArgs == {<<"function">>, <<"function", "name">>, <<"name", "array">>, <<"(function)", "(array)">>, <<"ref", "function", "array">>,
             <<"type reference", "function", "array">>, <<"keyword type", "function", "array">>}
BoundSubjects(b) ==
    {Bound([Bare EXCEPT !.uses = u, !.deps = e, !.declares = l, !.module = @ \cup m], b) :
        u \in FewUses, e \in FewLists, l \in LocalsOf, m \in {{}, {"a"}}}
UseSequences == {<<v>> : v \in HookUses} \cup {<<v, w>> : v, w \in HookUses}
UsingSubjects(u) ==
    {[Bare EXCEPT !.params = {"a"}, !.uses = u, !.deps = e, !.declares = l, !.binding = x] : e \in EntryLists, l \in LocalsOf, x \in {"", "a"}}
CallSubjects ==
    {[Bare EXCEPT !.uses = <<HookUse("a", "read", FALSE)>>, !.params = {"a"}, !.hook = h, !.of = f, !.args = a] :
        h \in ReactiveHooks \cup {"useState"}, f \in {"named import", "namespace", "global React", "React of another module", "parameter React", "variable React", "elsewhere"},
        a \in HookArgs}
    \cup {[Bare EXCEPT !.uses = <<HookUse("a", "read", FALSE)>>, !.params = {"a"}, !.deps = e, !.above = l] :
        e \in FewLists, l \in {<<>>} \cup {<<i>> : i \in Lines} \cup {<<i, j>> : i, j \in Lines}}

Host(k, g, o, a, c) == [kind |-> k, name |-> g, own |-> o, around |-> a, concise |-> c]
HostNames == {"X", "useX", "lower", "none"}
WrappingCalls == {"(", "memo", "React.memo", "other", "it"}
Hosts == {Host("module", "none", "none", <<>>, FALSE)}
    \cup {Host(k, g, g, <<>>, FALSE) : k \in {"method", "accessor", "function"}, g \in HostNames}
    \cup {Host("arrow", g, "none", a, c) : g \in HostNames, a \in {<<>>} \cup {<<b>> : b \in WrappingCalls} \cup {<<b, d>> : b, d \in WrappingCalls}, c \in BOOLEAN}
    \cup {Host("function expression", g, o, a, FALSE) : g, o \in HostNames, a \in {<<>>} \cup {<<b>> : b \in WrappingCalls} \cup {<<b, d>> : b, d \in WrappingCalls}}
HookCalls == {[name |-> "useX", form |-> "name", host |-> h, path |-> p] : h \in Hosts, p \in {<<>>, <<"then">>}}
    \cup {[name |-> x, form |-> f, host |-> Host("function", "X", "X", <<>>, FALSE), path |-> p] :
        x \in {"useX", "use", "used"}, f \in {"name", "member", "member of jest", "element"},
        p \in {<<>>} \cup {<<a>> : a \in Steps} \cup {<<a, b>> : a, b \in Steps}}

(* The calls that the theorem about the two rules speaks of: all of these. *)
HookNodesAreCalls == IF rule = ExhaustiveId THEN IsDependencyCall(node) ELSE IsPlacedCall(node)
HooksInit ==
    /\ \/ \E b \in ComponentBindings : Start(ExhaustiveId, BoundSubjects(b))
       \/ \E u \in UseSequences : Start(ExhaustiveId, UsingSubjects(u))
       \/ Start(ExhaustiveId, CallSubjects)
       \/ Start(TopLevelId, HookCalls)
    /\ HookNodesAreCalls

-----------------------------------------------------------------------------
(* no-loss-of-precision and no-constant-math-min-max-clamp                 *)
Literal(b, d, o) == [form |-> "digits", bits |-> b, digits |-> d, overflow |-> o]
FewDigits(b) == IF b = 1 THEN {0, 1} ELSE IF b = 3 THEN {0, 1, 3, 4, 7} ELSE {0, 1, 3, 8, 15}
Lengths(b) == IF b = 1 THEN 12 ELSE 5
InBase(b, k) == {Literal(b, d, o) : d \in [1..k -> FewDigits(b)], o \in IF k * b < Word THEN {"zero"} ELSE {"zero", "high bit", "all bits"}}

Decimal(i, f, dot, e, has) == [form |-> "decimal", int |-> i, frac |-> f, hasDot |-> dot, exp |-> e, hasExp |-> has]
AnyDigit == 0..9
Ints == {<<0>>} \cup [1..1 -> 1..9] \cup [1..2 -> {1, 2, 5, 9}] \cup [1..3 -> {0, 1, 5, 7, 9}] \cup [1..4 -> {0, 1, 5, 9}]
Whole == {i \in Ints : i[1] # 0} \cup {<<0>>}
Wholes == {Decimal(i, <<>>, FALSE, e, h) : i \in Whole, e \in 0..2, h \in BOOLEAN}
Decimals == {Decimal(i, f, TRUE, e, TRUE) : i \in {w \in Whole : Len(w) < 3}, f \in {<<>>} \cup [1..1 -> AnyDigit] \cup [1..2 -> {0, 1, 4, 5, 9}], e \in -1..1}
    \cup {Decimal(i, f, TRUE, 0, FALSE) : i \in {w \in Whole : Len(w) < 4}, f \in UNION {[1..k -> {0, 1, 5, 9}] : k \in 0..4}}
Sensible(n) == (n.hasExp \/ n.exp = 0) /\ Len(n.int) + (IF n.exp > 0 THEN n.exp ELSE 0) <= 6 /\ Len(n.int) + Len(n.frac) <= 5

ConstantBound == {[kind |-> "literal", value |-> v] : v \in -2..2}
Variable == [kind |-> "variable"]
MathOf(m, on, b, args) == [kind |-> "call", method |-> m, on |-> on, binding |-> b, args |-> args]
Pairs(S, R) == {<<a, b>> : a \in S, b \in R} \cup {<<b, a>> : a \in S, b \in R}
InnerCalls(on, b) == {MathOf(m, on, b, a) : m \in {"min", "max"}, a \in Pairs(ConstantBound, ConstantBound \cup {Variable})}
    \cup {MathOf(m, on, b, <<l, Variable, l>>) : m \in {"min", "max"}, l \in ConstantBound}
Clamps(on, b) ==
    LET bound == IF on = "window.Math" THEN "none" ELSE b
    IN  {MathOf(m, on, bound, a) : m \in {"min", "max"}, a \in Pairs(ConstantBound, InnerCalls(on, bound) \cup {Variable}) \cup {<<l, i, l>> : l \in ConstantBound, i \in InnerCalls(on, bound)}}

NumberInit ==
    \/ \E b \in {1, 3, 4} : \E k \in 1..Lengths(b) : Start(PrecisionId, InBase(b, k))
    \/ Start(PrecisionId, {n \in Wholes \cup Decimals : Sensible(n)})
    \/ \E on \in {"Math", "window.Math"}, b \in {"none", "enclosing", "elsewhere"} : Start(ClampId, Clamps(on, b))
NumberNext == Dispatch(PrecisionId, VisitNumber) \/ Dispatch(ClampId, VisitClamp)

-----------------------------------------------------------------------------
(* for-direction and no-unmodified-loop-condition                          *)
LoopName(x) == [kind |-> "name", name |-> x]
Amount(v) == [kind |-> "number", value |-> v]
Amounts == {Amount(v) : v \in 0..2}
WithSign(S) == {[kind |-> k, operand |-> e] : k \in {"minus", "plus"}, e \in S}
LoopSteps == Amounts \cup WithSign(Amounts) \cup WithSign(WithSign(Amounts)) \cup {LoopName("n"), [kind |-> "expression", name |-> "other"]}
Updates(x) == {[kind |-> "step", op |-> o, name |-> x] : o \in {"++", "--"}} \cup {[kind |-> "add", op |-> o, name |-> x, by |-> s] : o \in {"+=", "-="}, s \in LoopSteps}
Sides == {LoopName("i"), LoopName("n"), Amount(1), [kind |-> "expression", name |-> "other"]}
LoopHeads == {h \in {[kind |-> "comparison", op |-> o, left |-> l, right |-> r] : o \in Orders \cup {"!="}, l, r \in Sides} : h.left # h.right}
ForLoop(i, c, u, b) == [init |-> [kind |-> i], cond |-> c, update |-> u, body |-> [kind |-> b]]

LoopNode(k, subs) == [kind |-> k, subs |-> subs]
XName == LoopName("x")
YName == LoopName("y")
Tested == {XName, YName, LoopNode("<", <<XName, YName>>), LoopNode("call", <<XName>>), LoopNode("property", <<XName>>), LoopNode("++", <<XName>>)}
Loosely == Tested \cup {LoopNode(k, <<a, b>>) : k \in {"&&", "||"}, a, b \in Tested \ {YName}} \cup {LoopNode("paren", <<LoopNode("&&", <<a, YName>>)>>) : a \in Tested}
    \cup {LoopNode("!", <<LoopNode("paren", <<LoopNode("&&", <<XName, YName>>)>>)>>), LoopNode("cond", <<XName, YName, XName>>)}
Item(d, x) == [does |-> d, name |-> x, items |-> <<>>, elsewhere |-> {}]
Plainly == {Item(d, x) : d \in {"assign", "update", "assign in parentheses", "destructure", "for of", "declare", "assign its own"}, x \in {"x", "y"}}
Invoked == {Item(d, f) : d \in {"call", "method call", "new", "tagged template"}, f \in {"f", "g"}}
    \cup {[Item("call in place", "f") EXCEPT !.items = <<a>>] : a \in Plainly} \cup {[Item("await", "f") EXCEPT !.elsewhere = e] : e \in SUBSET {"x", "y"}}
LoopBodies == {<<>>} \cup {<<a>> : a \in Plainly \cup Invoked} \cup {<<a, b>> : a \in {Item("assign", "y"), Item("call", "f")}, b \in Plainly \cup Invoked}
LoopFunction(d, items) == [declared |-> d, items |-> items]
ItemsOfF == {<<a>> : a \in {Item("assign", "x"), Item("call", "g"), Item("call", "f")}}
Functions2 == {[f |-> LoopFunction(d, i), g |-> LoopFunction("function", j)] : d \in {"function", "variable"}, i \in ItemsOfF, j \in {<<>>, <<Item("update", "y")>>, <<Item("call", "f")>>}}

LoopsInit ==
    \/ \E c \in LoopHeads \cup {[kind |-> "name"]} : Start(DirectionId, {ForLoop(i, c, u, b) : i \in {"none", "let"}, u \in Updates("i") \cup Updates("n"), b \in {"block", "statement"}})
    \/ \E c \in Loosely, fs \in Functions2 :
          Start(UnmodifiedId, {[cond |-> c, body |-> b, updater |-> u, functions |-> fs] : b \in LoopBodies, u \in {<<>>, <<Item("update", "x")>>}})
LoopsNext == Dispatch(DirectionId, VisitForDirection) \/ Dispatch(UnmodifiedId, VisitLoop)

-----------------------------------------------------------------------------
(* naming-convention                                                       *)
(* Every name of up to four letters, under every format and option.        *)
Config(selector, modifiers, types, format) ==
    [selector |-> selector, modifiers |-> modifiers, types |-> types, format |-> format, prefix |-> <<>>, suffix |-> <<>>,
     leading |-> "forbid", trailing |-> "forbid", filter |-> Unfiltered, custom |-> Unfiltered]
Declared(d, name, configs) ==
    [decl |-> d, owner |-> "", binding |-> "plain", key |-> "identifier", written |-> {}, around |-> <<>>, occurrences |-> {"read"},
     listed |-> "no", type |-> {"string"}, name |-> name, configs |-> configs]
AllNames == {s \in Texts({"a", "A", "1", "_", "$"}, 1) : s[1] # "1"}
Formats == {"camelCase", "strictCamelCase", "PascalCase", "strictPascalCase", "snake_case", "UPPER_CASE"}
UnderscoreOptions == {"forbid", "allow", "allowSingleOrDouble", "allowDouble", "require", "requireDouble"}
AnyCase == Config("default", {}, {}, {"camelCase", "PascalCase"})
FormatNodes(s) ==
    {Declared("variable", s, <<[Config("variable", {}, {}, f) EXCEPT !.leading = u[1], !.trailing = u[2]]>>) :
        f \in {{g} : g \in Formats} \cup {{}, {"camelCase", "UPPER_CASE"}}, u \in {<<o, o>> : o \in UnderscoreOptions} \cup {<<"allow", "forbid">>}}
    \cup {Declared("variable", s, <<[Config("variable", {}, {}, {f}) EXCEPT !.prefix = p, !.suffix = q, !.leading = u, !.custom = r], AnyCase>>) :
        f \in {"PascalCase", "snake_case"}, p \in {<<>>, <<<<"a">>>>, <<<<"A">>, <<"a", "a">>>>}, q \in {<<>>, <<<<"A">>>>}, u \in {"forbid", "allow"},
        r \in {Unfiltered, [first |-> "A", match |-> FALSE]}}

FewNames == {<<"a">>, <<"A">>, <<"a", "A">>, <<"_", "a">>, <<"A", "_", "A">>, <<"#", "_", "a">>}
Pool ==
    {Config(sel, mods, {}, f) : sel \in {"default", "variableLike", "variable"}, mods \in {{}, {"const"}, {"const", "unused"}}, f \in {{"camelCase"}, {"UPPER_CASE"}}}
    \cup {Config("variable", {}, t, {"PascalCase"}) : t \in {{"string"}, {"number"}, {"array", "string"}}}
    \cup {[Config("variable", {}, {}, {"PascalCase"}) EXCEPT !.filter = [first |-> "a", match |-> m]] : m \in BOOLEAN}
    \cup {[Config("variable", {}, {}, {"camelCase"}) EXCEPT !.leading = "require", !.custom = c] : c \in {Unfiltered, [first |-> "a", match |-> TRUE]}}
    \cup {[Config("default", {}, {}, {"camelCase"}) EXCEPT !.prefix = <<<<"a">>>>, !.filter = [first |-> "a", match |-> TRUE]]}
SelectionNodes(c) ==
    {[Declared("variable", s, cs) EXCEPT !.written = w, !.type = t, !.occurrences = o] :
        s \in FewNames \ {<<"#", "_", "a">>}, cs \in {<<c, d>> : d \in Pool}, w \in {{}, {"const"}},
        t \in {{"string"}, {"array"}, {"string", "nullish"}, {"nullish"}, {"object"}, {"array", "string"}}, o \in {{}, {"read"}}}

(* One configuration asks for a modifier, and refuses the name.            *)
Asked(selector, m) == <<Config(selector, {m}, {}, {"PascalCase"})>>
Frames == {<<>>, <<"block">>, <<"block", "function">>, <<"block", "exported function">>, <<"block", "exported arrow">>, <<"exported arrow">>,
    <<"switch">>, <<"switch", "block", "function">>, <<"class">>, <<"block", "class">>, <<"block", "exported class">>, <<"namespace">>, <<"exported namespace">>,
    <<"declare namespace">>, <<"block", "function", "exported namespace">>, <<"namespace", "exported namespace">>, <<"function">>}
Occurrences == {"read", "type reference", "shorthand value", "string key's value", "default beside pattern", "string member's value", "value of key", "default of binding"}
ScopeModifiers == {"const", "exported", "ambient", "global", "destructured", "unused", "async", "default", "abstract"}
(* The modifiers each declaration can be written with, and be asked for.    *)
WrittenWith(d) ==
    CASE d = "variable" -> {{}, {"const"}, {"const", "export"}, {"declare"}, {"async"}}
      [] d \in {"function", "class"} -> {{}, {"export"}, {"export", "default"}, {"declare"}, {IF d = "class" THEN "abstract" ELSE "async"}}
      [] d = "function expression" -> {{}, {"async"}}
      [] OTHER -> {{}, {"export"}, {"declare"}}
Askable(d) ==
    CASE d = "variable" -> {"const", "exported", "ambient", "global", "destructured", "unused", "async"}
      [] d \in {"function", "function expression"} -> {"exported", "ambient", "global", "unused", "async", "default"}
      [] OTHER -> {"exported", "ambient", "unused", "default", "abstract"}
ModifierNodes(m) ==
    {[Declared(d, <<"a">>, Asked("default", m)) EXCEPT !.written = w, !.around = f, !.listed = l, !.occurrences = o] :
        <<d, w>> \in UNION {{d} \X WrittenWith(d) : d \in {e \in {"variable", "function", "function expression", "class", "interface", "enum"} : m \in Askable(e)}},
        f \in Frames, l \in {"no", "as", "elsewhere"}, o \in {{}, {"read"}}}
    \cup {[Declared(d, <<"a">>, Asked("default", m)) EXCEPT !.binding = b, !.occurrences = o] :
            d \in {"variable", "parameter"}, b \in IF m = "unused" THEN {"plain"} \cup PatternBindings ELSE {}, o \in {{}} \cup {{u, v} : u, v \in Occurrences}}
    \cup {[Declared("parameter", <<"a">>, Asked(s, m)) EXCEPT !.binding = b, !.written = w[2], !.owner = w[1]] :
            s \in IF m \in {"destructured", "readonly", "private"} THEN {"default", "variable", "parameter", "parameterProperty", "memberLike"} ELSE {},
            b \in {"plain"} \cup PatternBindings, w \in {<<"", {}>>, <<"constructor", {}>>, <<"constructor", {"readonly"}>>, <<"constructor", {"private", "readonly"}>>}}
MemberModifiers == {"static", "readonly", "private", "public", "abstract", "async", "override", "#private", "requiresQuotes"}
MemberNodes ==
    {[Declared(d, s, Asked(sel, m)) EXCEPT !.owner = c, !.key = k, !.written = IF d = "method" THEN w ELSE w \ {"async"}, !.type = t] :
        d \in {"method", "property", "accessor"}, s \in {<<"a">>, <<"#", "a">>}, m \in MemberModifiers,
        sel \in {"default", "memberLike", "method", "property", "accessor", "classMethod", "typeMethod", "typeProperty", "objectLiteralProperty"},
        <<c, w>> \in {<<"object", {}>>, <<"object", {"async"}>>, <<"type", {}>>} \cup ({"class"} \X {{}, {"static"}, {"private", "async"}, {"public"}}),
        k \in {"identifier", "string", "string with space", "computed"}, t \in {{"string"}, {"function"}}}
    \cup {[Declared("enum member", <<"a">>, Asked("enumMember", "requiresQuotes")) EXCEPT !.key = k] : k \in {"identifier", "string", "string with space", "computed"}}
    \cup {[Declared("import", s, <<Config(sel, m, {}, f)>>) EXCEPT !.binding = b] :
            s \in FewNames \ {<<"#", "_", "a">>}, sel \in {"import", "default"}, m \in {{}, {"default"}, {"namespace"}}, f \in {{"camelCase"}, {"PascalCase"}},
            b \in {"plain", "default", "namespace", "alias", "default as"}}
    \cup {[Declared("property", s, <<[c EXCEPT !.selector = "memberLike", !.leading = u], Config("default", {}, {}, {"camelCase"})>>) EXCEPT !.owner = "class"] :
            s \in FewNames, c \in Pool, u \in {"forbid", "require"}}
    \cup {[Declared("property", <<"a">>, <<Config("default", {}, ty, {"PascalCase"})>>) EXCEPT !.owner = o, !.type = t] :
            o \in {"class", "type"}, ty \in {{"string"}, {"function"}}, t \in {{"string"}, {"number"}, {"nullish"}, {"function", "nullish"}}}

NamingInit ==
    \/ \E s \in AllNames : Start(NamingId, FormatNodes(s))
    \/ \E c \in Pool : Start(NamingId, SelectionNodes(c))
    \/ \E m \in ScopeModifiers \cup {"readonly", "private"} : Start(NamingId, ModifierNodes(m))
    \/ Start(NamingId, MemberNodes)
NamingNext == Dispatch(NamingId, VisitNamed)

-----------------------------------------------------------------------------
(* no-self-assign, no-unsafe-optional-chaining and no-useless-default-assignment*)
Term(kind, name, subs) == [kind |-> kind, name |-> name, subs |-> subs]
IdTerm(name) == Term("id", name, <<>>)
LiteralTerm(name) == Term("literal", name, <<>>)
Receivers == {IdTerm("a"), IdTerm("b"), Term("this", "", <<>>), Term("paren", "", <<IdTerm("a")>>), Term("call", "", <<IdTerm("a")>>)}
Indices == {LiteralTerm("b"), LiteralTerm("1"), IdTerm("a"), IdTerm("b"), Term("member", "b", <<IdTerm("a")>>), Term("operation", "", <<IdTerm("a")>>), Term("call", "", <<IdTerm("a")>>)}
MemberTerms ==
    {Term(k, "b", <<r>>) : k \in {"member", "private"}, r \in Receivers} \cup {Term("element", "", <<r, i>>) : r \in Receivers, i \in Indices}
    \cup {Term("member", "b", <<Term("member", "b", <<IdTerm("a")>>)>>), Term("member", "a", <<IdTerm("a")>>)}
Plain == {IdTerm("a"), IdTerm("b"), Term("member", "b", <<IdTerm("a")>>), Term("member", "b", <<IdTerm("b")>>)}
Ids == {IdTerm("a"), IdTerm("b")}
Omitted == Term("omitted", "", <<>>)
ElementsLeft == Plain \cup {Omitted} \cup {Term("=", "", <<t, IdTerm("b")>>) : t \in Ids} \cup {Term("spread", "", <<IdTerm("a")>>)}
ElementsRight == Plain \cup {Omitted} \cup {Term("spread", "", <<IdTerm("a")>>)}
ArrayOf(elements) == {Term("array", "", <<e>>) : e \in elements} \cup {Term("array", "", <<e, f>>) : e, f \in elements}
LastIsRest(e) == \A i \in DOMAIN e.subs : e.subs[i].kind = "spread" => i = Len(e.subs)
PropertiesLeft ==
    {Term("shorthand", x.name, <<x>>) : x \in Ids} \cup {Term("prop", "a", <<t>>) : t \in Plain} \cup {Term("computed", "", <<k, t>>) : k \in {LiteralTerm("a"), IdTerm("b")}, t \in Ids}
    \cup {Term("shorthand default", "a", <<IdTerm("a"), IdTerm("b")>>), Term("prop", "a", <<Term("=", "", <<IdTerm("a"), IdTerm("b")>>)>>), Term("spread", "", <<IdTerm("a")>>)}
PropertiesRight ==
    {Term("shorthand", x.name, <<x>>) : x \in Ids} \cup {Term("prop", k, <<t>>) : k \in {"a", "b"}, t \in Plain} \cup {Term("computed", "", <<k, t>>) : k \in {LiteralTerm("a"), IdTerm("b")}, t \in Ids}
    \cup {Term("spread", "", <<IdTerm("a")>>), Term("method", "a", <<>>)}
ObjectOf(properties) == {Term("object", "", <<p>>) : p \in properties} \cup {Term("object", "", <<p, q>>) : p, q \in properties}
Nested(terms) == {Term("array", "", <<e>>) : e \in terms} \cup {Term("object", "", <<Term("prop", "a", <<e>>)>>) : e \in terms}
Assigned(lefts, rights) == {[op |-> "=", left |-> l, right |-> r, props |-> p] : l \in lefts, r \in rights, p \in BOOLEAN}
SimpleAssigned ==
    {[op |-> o, left |-> l, right |-> r, props |-> p] : o \in {"=", "&&=", "op="}, l \in Plain \cup MemberTerms, r \in Plain \cup MemberTerms \cup {Term("paren", "", <<x>>) : x \in Plain}, p \in BOOLEAN}

ChainSteps == {"paren", "cast", "await", "&& left", "&& right", "|| left", "|| right", "?? left", "?? right", "branch", "test", "comma left", "comma right", "assigned"}
ChainEnds == {"callee", "optional callee", "new callee", "argument", "receiver", "optional receiver", "index", "tag", "for-of value", "for-in value", "with", "array spread",
    "call spread", "object spread", "yield*", "declared pattern", "declared name", "assigned pattern", "pattern default", "extends", "in left", "in right", "instanceof right",
    "unary +", "unary !", "+ operand", "* operand", "arithmetic op= right", "return", "statement"}
ChainPaths == {<<e>> : e \in ChainEnds} \cup {<<s, e>> : s \in ChainSteps, e \in ChainEnds} \cup {<<s, t, e>> : s, t \in ChainSteps, e \in ChainEnds}
Chains == {[path |-> p, inChain |-> FALSE, arithmetic |-> a] : p \in ChainPaths, a \in BOOLEAN}
    \cup {[path |-> <<e>>, inChain |-> TRUE, arithmetic |-> a] : e \in {"receiver", "callee", "optional receiver"}, a \in BOOLEAN}

SlotTypes == {{"string"}, {"null"}, {"string", "undefined"}, {"any"}, {"unknown"}, {"T"}, {"string", "null"}, {"undefined"}}
Shapes(slots) == {[slot |-> s, type |-> t] : s \in slots, t \in SlotTypes}
ShapeSets(slots) == {{s} : s \in Shapes(slots)} \cup {{s, t} : s, t \in Shapes(slots)}
DefaultIn(place, source) ==
    [place |-> place, source |-> source, init |-> "other", shapes |-> {}, key |-> "none", namesake |-> {}, signatures |-> <<>>]
Defaults ==
    {[DefaultIn("object", s) EXCEPT !.init = i, !.shapes = h, !.key = k, !.namesake = v] :
        s \in {"initialised variable", "annotated parameter", "outer slot", "loop", "inferred parameter", "assignment"}, i \in {"undefined", "void 0", "other"},
        h \in ShapeSets({"there", "optional", "missing"}), k \in {"none", "name", "string", "number", "computed"}, v \in {{}, {"string"}}}
    \cup {[DefaultIn("array", s) EXCEPT !.init = i, !.shapes = h] :
        s \in {"initialised variable", "annotated parameter", "loop", "assignment"}, i \in {"undefined", "other"}, h \in ShapeSets({"there", "optional", "missing", "rest", "array"})}
    \cup {[DefaultIn("parameter", c) EXCEPT !.init = i, !.signatures = g] :
        c \in {"callback", "declared"}, i \in {"undefined", "void 0", "other"},
        g \in {<<>>} \cup {<<s>> : s \in Shapes({"there", "optional", "missing", "rest"})} \cup {<<s, t>> : s, t \in Shapes({"there", "optional"})}}

AssignedInit ==
    \/ Start(SelfAssignId, SimpleAssigned)
    \/ Start(SelfAssignId, {n \in Assigned(ArrayOf(ElementsLeft), ArrayOf(ElementsRight)) : LastIsRest(n.left)})
    \/ Start(SelfAssignId, {n \in Assigned(ObjectOf(PropertiesLeft), ObjectOf(PropertiesRight)) : n.props /\ LastIsRest(n.left)})
    \/ Start(SelfAssignId, Assigned(Nested(ArrayOf(Ids) \cup ObjectOf({Term("shorthand", x.name, <<x>>) : x \in Ids})), Nested(ArrayOf(Ids) \cup ObjectOf({Term("shorthand", x.name, <<x>>) : x \in Ids}))))
    \/ Start(OptionalChainingId, Chains)
    \/ Start(UselessDefaultId, Defaults)
AssignedNext ==
    \/ Dispatch(SelfAssignId, VisitAssigned)
    \/ Dispatch(OptionalChainingId, VisitChain)
    \/ Dispatch(UselessDefaultId, VisitDefault)

-----------------------------------------------------------------------------
(* the names Vue components declare                                        *)
El(k, n, s) == [kind |-> k, name |-> n, subs |-> s]
IdEl(n) == El("id", n, <<>>)
StringEl(n) == El("string", n, <<>>)
PropEl(n, v) == El("prop", "", <<IdEl(n), v>>)
ArrayEl(names) == El("array", "", [i \in DOMAIN names |-> StringEl(names[i])])
ObjectEl(properties) == El("object", "", properties)
BlockEl(statements) == El("block", "", statements)
ReturnEl(e) == El("return", "", <<e>>)
EmptyFunction == El("function", "", <<BlockEl(<<>>)>>)
Parens(e) == El("paren", "", <<e>>)
Cast(e) == El("as", "", <<e>>)

(* Members of a section and the objects they make.                         *)
SampleKeys == {"a", "$a", "_a", "ref"}
MemberEls ==
    {PropEl(n, EmptyFunction) : n \in SampleKeys}
    \cup {El("shorthand", "", <<IdEl("a")>>), El("method", "", <<IdEl("a"), BlockEl(<<>>)>>), El("method", "", <<StringEl("$a"), BlockEl(<<>>)>>)}
    \cup {El("get", "", <<IdEl("a"), BlockEl(<<>>)>>), El("set", "", <<IdEl("a"), BlockEl(<<>>)>>)}
    \cup {El("spread", "", <<IdEl(n)>>) : n \in {"$a", "ref"}}
    \cup {El("prop", "", <<El("computed", "", <<k>>), v>>) : k \in {StringEl("a"), IdEl("b")}, v \in {EmptyFunction, IdEl("a"), IdEl("$a"), IdEl("ref")}}
ObjectEls == {ObjectEl(<<m>>) : m \in MemberEls} \cup {ObjectEl(<<m, l>>) : m, l \in MemberEls}
FewObjects == {ObjectEl(<<PropEl(n, EmptyFunction)>>) : n \in SampleKeys}
ArrayEls == {ArrayEl(<<n>>) : n \in SampleKeys} \cup {ArrayEl(<<"a", n>>) : n \in SampleKeys} \cup {El("array", "", <<IdEl("a"), StringEl("ref")>>)}
(* Functions that return the objects, one way or another.                  *)
BodyEls(objects) ==
    {BlockEl(<<ReturnEl(o)>>) : o \in objects} \cup {BlockEl(<<El("return", "", <<>>)>>), BlockEl(<<>>)}
    \cup {BlockEl(<<e, ReturnEl(o)>>) : e \in {ReturnEl(IdEl("x")), ReturnEl(Parens(ObjectEl(<<PropEl("ref", EmptyFunction)>>))), El("statement", "", <<>>)}, o \in objects}
    \cup {BlockEl(<<ReturnEl(o)>>) : o \in {Parens(p) : p \in objects} \cup {Cast(p) : p \in objects}}
    \cup {BlockEl(<<El("if", "", <<ReturnEl(o)>>), ReturnEl(p)>>) : o, p \in objects}
FunctionsOf(objects) ==
    {El(k, "", <<b>>) : k \in {"function", "arrow"}, b \in BodyEls(objects)} \cup {El("arrow", "", <<Parens(o)>>) : o \in objects} \cup {El("arrow", "", <<Parens(Cast(o))>>) : o \in objects}
SectionEls ==
    {PropEl("props", v) : v \in ArrayEls \cup FewObjects \cup {Parens(ArrayEl(<<"$a">>)), Cast(ArrayEl(<<"ref">>)), IdEl("a")}}
    \cup {PropEl(s, v) : s \in {"methods", "computed"}, v \in FewObjects \cup {Parens(ObjectEl(<<PropEl("$a", EmptyFunction)>>))}}
    \cup {PropEl(s, v) : s \in FunctionSections, v \in FewObjects \cup FunctionsOf({ObjectEl(<<PropEl("a", EmptyFunction)>>)}) \cup {El("function", "", <<BlockEl(<<ReturnEl(o)>>)>>) : o \in FewObjects}}
    \cup {El("method", "", <<IdEl(s), b>>) : s \in {"data", "setup"}, b \in BodyEls({ObjectEl(<<PropEl(n, EmptyFunction)>>) : n \in {"a", "_a"}})}
    \cup {El("spread", "", <<IdEl(s)>>) : s \in {"props", "data"}}
    \cup {El("get", "", <<IdEl("data"), BlockEl(<<>>)>>), El("shorthand", "", <<IdEl("methods")>>), El("prop", "", <<El("computed", "", <<StringEl("props")>>), ArrayEl(<<"ref">>)>>),
          PropEl("other", ObjectEl(<<PropEl("a", EmptyFunction)>>))}
ComponentEls ==
    {ObjectEl(<<s>>) : s \in SectionEls} \cup {ObjectEl(<<s, t>>) : s, t \in SectionEls}
    \cup {ObjectEl(<<PropEl(s, o)>>) : s \in {"props", "methods", "data"}, o \in ObjectEls}
ExportedComponent(o) == [what |-> "object", parent |-> El("export", "", <<o>>), at |-> 1]
Passed(c, e, before, o) == [what |-> "object", parent |-> El(c, "", <<e>> \o before \o <<o>>), at |-> 2 + Len(before)]
FewComponents == {ObjectEl(<<PropEl("props", a)>>) : a \in ArrayEls} \cup {ObjectEl(<<PropEl("data", o), PropEl("methods", o)>>) : o \in FewObjects}
Callees == {IdEl(n) : n \in {"createApp", "defineComponent", "Vue", "other"}} \cup {El("member", n, <<>>) : n \in {"createApp", "defineComponent", "extend", "Vue", "other"}}
    \cup {El("call", "createApp", <<IdEl("createApp")>>)}
TypeRef(n) == El("type reference", "", <<IdEl(n)>>)
Components ==
    {ExportedComponent(o) : o \in ComponentEls}
    \cup {Passed(c, e, b, p) : c \in {"call", "new"}, e \in Callees, b \in {<<>>, <<IdEl("x")>>, <<TypeRef("P")>>, <<TypeRef("P"), IdEl("x")>>}, p \in FewComponents \cup {Parens(o) : o \in FewComponents}}
    \cup {[what |-> "object", parent |-> El(k, "", <<o>>), at |-> 1] : k \in {"export", "as", "array"}, o \in FewComponents \cup {Parens(p) : p \in FewComponents}}

(* Types of props, their declarations and the calls of the macro.          *)
Signature(k, n) == El(k, "", <<IdEl(n)>>)
Members == {<<Signature(k, n)>> : k \in {"signature", "method signature"}, n \in {"a", "$a", "ref"}} \cup {<<Signature("signature", "a"), Signature("signature", n)>> : n \in {"$a", "ref"}}
    \cup {<<El("signature", "", <<El("computed", "", <<StringEl("a")>>)>>)>>}
Literals == {El("type literal", "", m) : m \in Members}
DeclaredTypes(n) == {El("interface", "", <<IdEl(n)>> \o m) : m \in Members} \cup {El("type alias", "", <<IdEl(n), l>>) : l \in Literals}
FewMembers == {<<Signature("signature", n)>> : n \in {"a", "$a", "ref"}}
FewDeclared(n) == {El("interface", "", <<IdEl(n)>> \o m) : m \in FewMembers}
TypeFiles ==
    {<<d>> : d \in DeclaredTypes("P")} \cup {<<d, e>> : d \in FewDeclared("P"), e \in FewDeclared("P") \cup FewDeclared("Q")}
    \cup {<<El("interface", "", <<IdEl("P"), El("extends", "", <<TypeRef("Q")>>)>> \o m), d>> : m \in FewMembers, d \in FewDeclared("Q")}
    \cup {<<El("type alias", "", <<IdEl("P"), El("intersection", "", <<TypeRef("Q"), l>>)>>), d>> : l \in Literals, d \in FewDeclared("Q")}
    \cup {<<El("type alias", "", <<IdEl("P"), TypeRef("Q")>>), d>> : d \in FewDeclared("Q")}
    \cup {<<El("function declaration", "", <<IdEl("inner"), BlockEl(<<d>>)>>), e>> : d, e \in FewDeclared("P")}
    \cup {<<El("function declaration", "", <<IdEl("inner"), BlockEl(<<d>>)>>)>> : d \in FewDeclared("P")} \cup {<<>>}
DefineProps(args) == El("call", "", <<IdEl("defineProps")>> \o args)
TypedCalls == {DefineProps(<<TypeRef("P")>>), DefineProps(<<El("type reference", "", <<El("qualified", "", <<>>)>>)>>)} \cup {DefineProps(<<l>>) : l \in Literals}
ValueCalls == {DefineProps(<<v>>) : v \in ArrayEls \cup ObjectEls \cup {Parens(ArrayEl(<<"$a">>)), Cast(ArrayEl(<<"ref">>)), IdEl("a")}} \cup {DefineProps(<<>>)}
FileEl(k, statements) == El(k, "", statements)
MacroUses ==
    {[what |-> "call", call |-> c, file |-> FileEl(k, <<>>)] : c \in ValueCalls \cup {El("call", "", <<e, ArrayEl(<<"ref", "$a">>)>>) : e \in Callees}, k \in {"script setup", "script"}}
    \cup {[what |-> "call", call |-> c, file |-> FileEl(k, t)] : c \in TypedCalls, t \in TypeFiles, k \in {"script setup", "script"}}

(* Files: what they bind, and a macro, in either order.                    *)
Targets == {IdEl("a"), El("pattern", "", <<El("element", "", <<IdEl("a")>>)>>), El("pattern", "", <<>>),
    El("pattern", "", <<El("element", "", <<El("pattern", "", <<El("element", "", <<IdEl("b")>>), El("element", "", <<IdEl("a")>>)>>)>>)>>)}
VariablesEl(t, i) == El("variables", "", <<El("declaration", "", <<t, i>>)>>)
FewCalls == {DefineProps(<<v>>) : v \in {ArrayEl(<<"a">>), ArrayEl(<<"a", "a">>), ObjectEl(<<PropEl("a", EmptyFunction)>>), Parens(ArrayEl(<<"a">>)), El("type literal", "", <<Signature("signature", "a")>>)}}
BindingEls ==
    {VariablesEl(t, i) : t \in Targets, i \in {IdEl("a"), EmptyFunction, El("call", "", <<IdEl("other")>>)}}
    \cup {El(k, "", <<IdEl(n)>>) : k \in {"function declaration", "class declaration", "import"}, n \in {"a", "b"}}
    \cup {El("variables", "", <<El("declaration", "", <<IdEl("b"), EmptyFunction>>), El("declaration", "", <<IdEl("a"), EmptyFunction>>)>>)}
MacroEls == {El("expression", "", <<c>>) : c \in FewCalls \cup {El("call", "", <<IdEl("withDefaults"), c, ObjectEl(<<>>)>>) : c \in FewCalls} \cup {El("call", "", <<IdEl("other"), ArrayEl(<<"a">>)>>)}}
    \cup {VariablesEl(t, c) : t \in {IdEl("props"), El("pattern", "", <<El("element", "", <<IdEl("a")>>)>>)}, c \in FewCalls}
SetupFiles ==
    {[what |-> "file", file |-> FileEl(k, <<b, m>>)] : b \in BindingEls, m \in MacroEls \cup BindingEls, k \in {"script setup", "script"}}
    \cup {[what |-> "file", file |-> FileEl("script setup", <<m, b>>)] : b \in BindingEls, m \in MacroEls}
    \cup {[what |-> "file", file |-> FileEl("script setup", t \o <<El("expression", "", <<c>>), VariablesEl(IdEl("a"), EmptyFunction)>>)] : c \in TypedCalls, t \in TypeFiles}

VueInit ==
    \/ Start(DuplicateKeysId, Components) \/ Start(DuplicateKeysId, SetupFiles)
    \/ Start(ReservedKeysId, Components) \/ Start(ReservedKeysId, MacroUses)
    \/ Start(ReservedPropsId, Components) \/ Start(ReservedPropsId, MacroUses)
VueNext == Dispatch(DuplicateKeysId, VisitDuplicates) \/ Dispatch(ReservedKeysId, VisitReservedKeys) \/ Dispatch(ReservedPropsId, VisitReservedProps)

-----------------------------------------------------------------------------
RulesInit == FlowInit \/ ConstantsInit \/ ScopeInit \/ HooksInit \/ NumberInit \/ LoopsInit \/ NamingInit \/ AssignedInit \/ VueInit
RulesNext == FlowNext \/ ConstantsNext \/ ScopeNext \/ HooksNext \/ NumberNext \/ LoopsNext \/ NamingNext \/ AssignedNext \/ VueNext
(* The rules' promises by theme: what paths, names (those of Vue's members *)
(* among them) and numbers make of what the rules on them report, and what *)
(* loops, assignments and defaults do.                                     *)
ControlFlowIsJudgedByPaths == GettersAndCallbacksReturn /\ ConstructorsCallSuper /\ StatementsAreReachedAsReported
NamesAreResolved == NamesAreAsConfigured /\ VueNamesAreFree
WrittenCodeHasEffect == LoopsMakeProgress /\ NothingIsAssignedToItself /\ UndefinedStaysSafe /\ DefaultsAreNeeded
Spec == RulesInit /\ [][RulesNext]_vars
=============================================================================
