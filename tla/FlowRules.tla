------------------------------ MODULE FlowRules ------------------------------
(***************************************************************************)
(* The rules about the flow through a body of statements: getter-return,   *)
(* array-callback-return and constructor-super on the analyses of          *)
(* internal/astflow, and no-fallthrough, no-unreachable,                   *)
(* no-this-before-super and consistent-return with walks of their own.     *)
(***************************************************************************)
EXTENDS RuleVisit, FlowAnalyses

GetterReturnId == "getter-return"
CallbackReturnId == "array-callback-return"
ConstructorSuperId == "constructor-super"
FallthroughId == "no-fallthrough"
UnreachableId == "no-unreachable"
ThisBeforeSuperId == "no-this-before-super"
ConsistentReturnId == "consistent-return"

RECURSIVE StripParens(_)
StripParens(e) == IF e.kind = "paren" THEN StripParens(e.subs[1]) ELSE e

-----------------------------------------------------------------------------
(* getter-return.  n: the call of a method of Object or Reflect, or a get  *)
(* accessor.  An object literal's children are properties of a name: a     *)
(* value (prop), an accessor (getter) or a method.                         *)
CheckGetter(fn, allowImplicit) ==
    LET status == FunctionBodyReturnStatus(fn)
    IN  IF status = "AlwaysExplicit" \/ (allowImplicit /\ MustReturn(status)) THEN {} ELSE {fn}

PropertyValue(p) == p.subs[1]
CheckDescriptor(e, allowImplicit) ==
    LET desc == StripParens(e)
        getters == {p \in Range(desc.subs) : p.kind = "getter"}
        named == {p \in Range(desc.subs) : p.kind \in {"get prop", "get method"}}
        values == {StripParens(PropertyValue(p)) : p \in named}
    IN  IF desc.kind # "object" THEN {}
        ELSE UNION {CheckGetter(f, allowImplicit) :
                f \in {PropertyValue(p) : p \in getters} \cup {v \in values : v.kind = "function"}}

VisitGetter(n) ==
    CASE n.method = "get" -> CheckGetter(n.args[1], n.allowImplicit)
      [] n.method = "defineProperty" ->
            IF Len(n.args) < 3 THEN {} ELSE CheckDescriptor(n.args[3], n.allowImplicit)
      [] n.method \in {"defineProperties", "create"} ->
            IF Len(n.args) < 2 \/ StripParens(n.args[2]).kind # "object" THEN {}
            ELSE UNION {CheckDescriptor(PropertyValue(p), n.allowImplicit) :
                    p \in {q \in Range(StripParens(n.args[2]).subs) : q.kind \in {"prop", "get prop"}}}
      [] OTHER -> {}

-----------------------------------------------------------------------------
(* array-callback-return.  n: method, isStatic (a method of Array), args,  *)
(* opts; async and generator, of every function in the arguments.          *)
TargetMethods == {"map", "filter", "reduce", "sort"}
RECURSIVE ResolveCallbacks(_), ReturnedCallbacks(_)

(* The operands of the returns of an immediately invoked function.         *)
ReturnedCallbacks(n) ==
    CASE n.kind = "function" -> {}
      [] n.kind = "return" -> UNION {ResolveCallbacks(e) : e \in Range(n.subs)}
      [] OTHER -> UNION {ReturnedCallbacks(c) : c \in Range(n.subs)}

ResolveCallbacks(expr) ==
    LET e == StripParens(expr)
    IN  CASE e.kind = "function" -> {e}
          [] e.kind = "logic" -> ResolveCallbacks(e.subs[1]) \cup ResolveCallbacks(e.subs[2])
          [] e.kind = "cond" -> ResolveCallbacks(e.subs[2]) \cup ResolveCallbacks(e.subs[3])
          [] e.kind = "call" /\ StripParens(e.subs[1]).kind = "function" ->
                LET body == StripParens(e.subs[1]).subs[1]
                IN  IF body.kind = "block" THEN ReturnedCallbacks(body) ELSE ResolveCallbacks(body)
          [] OTHER -> {}

CheckCallback(n, fn) ==
    LET status == FunctionBodyReturnStatus(fn)
    IN  /\ ~n.generator /\ (n.async => n.isStatic)
        /\ status # "AlwaysExplicit"
        /\ ~(status \in {"AlwaysImplicit", "AlwaysMixed"} /\ "allowImplicit" \in n.opts)

RECURSIVE ReturnsOf(_)
ReturnsOf(n) ==
    CASE n.kind = "function" -> {}
      [] n.kind = "return" -> {n}
      [] OTHER -> UNION {ReturnsOf(c) : c \in Range(n.subs)}
IsVoidExpression(e) == StripParens(e).kind = "undefined"
OnlyReturnsVoid(fn) ==
    LET body == fn.subs[1]
    IN  IF body.kind # "block" THEN IsVoidExpression(body)
        ELSE /\ ReturnsOf(body) # {}
             /\ \A r \in ReturnsOf(body) : r.subs # <<>> /\ IsVoidExpression(r.subs[1])

CheckForEachCallback(n, fn) ==
    /\ ~n.async /\ ~n.generator
    /\ ~("allowVoid" \in n.opts /\ OnlyReturnsVoid(fn))
    /\ MayReturnExplicit(FunctionBodyReturnStatus(fn))

VisitCallback(n) ==
    CASE n.isStatic ->
            IF n.method # "from" \/ Len(n.args) < 2 THEN {}
            ELSE {f \in ResolveCallbacks(n.args[2]) : CheckCallback(n, f)}
      [] ~n.isStatic /\ (n.args = <<>> \/ n.method \notin TargetMethods \cup {"forEach"}) -> {}
      [] ~n.isStatic /\ n.args # <<>> /\ n.method = "forEach" ->
            IF "checkForEach" \notin n.opts THEN {}
            ELSE {f \in ResolveCallbacks(n.args[1]) : CheckForEachCallback(n, f)}
      [] OTHER -> {f \in ResolveCallbacks(n.args[1]) : CheckCallback(n, f)}

-----------------------------------------------------------------------------
(* constructor-super.  n: parent (a tree, <<>> if there is none), ctor.    *)
RECURSIVE IsInvalidSuperClass(_)
IsInvalidSuperClass(expr) ==
    LET e == StripParens(expr)
    IN  CASE e.kind = "literal" -> TRUE
          [] e.kind = "cond" -> IsInvalidSuperClass(e.subs[2]) /\ IsInvalidSuperClass(e.subs[3])
          [] e.kind \in {"=", "&&=", "&&", ","} -> IsInvalidSuperClass(e.subs[2])
          [] e.kind \in {"||", "??", "||=", "??="} -> FALSE
          [] e.kind = "+" -> TRUE
          [] OTHER -> FALSE

ClassifyParent(parent) ==
    CASE parent = <<>> -> "None"
      [] parent # <<>> /\ StripParens(parent[1]).kind = "null" -> "Null"
      [] parent # <<>> /\ IsInvalidSuperClass(parent[1]) -> "Unconstructable"
      [] OTHER -> "Constructable"

ConstructorHasSuperCall(ctor) == SuperInExpr(ctor.subs[1]) # "None"
ConstructorHasReturnWithValue(ctor) == \E r \in ReturnsOf(ctor.subs[1]) : r.subs # <<>>

VisitConstructor(n) ==
    LET kind == ClassifyParent(n.parent)
    IN  CASE n.ctor.subs = <<>> -> {}
          [] kind \in {"None", "Unconstructable"} ->
                IF ConstructorHasSuperCall(n.ctor) THEN {"super not allowed"} ELSE {}
          [] kind = "Null" ->
                IF ConstructorHasSuperCall(n.ctor) THEN {"super not allowed"}
                ELSE IF ConstructorHasReturnWithValue(n.ctor) THEN {} ELSE {"must return"}
          [] kind = "Constructable" -> {ConstructorSuperCallStatus(n.ctor)} \ {"Always"}

-----------------------------------------------------------------------------
(* no-fallthrough.  n: switch; leading[i], the trivia before clause i;     *)
(* inner[i], what follows the last statement in the block that is all of   *)
(* clause i; opts.  Trivia is a sequence of newlines and of comments: one  *)
(* that permits the fall, one that only a pattern option matches, another. *)
RECURSIVE StatementAlwaysExits(_), BodyAlwaysExitsCase(_)

(* The parts no-fallthrough and no-unreachable have in common.             *)
TryAlwaysExits(n, Exit(_)) ==
    LET catchExits == CatchesOf(n) = <<>> \/ Exit(CatchesOf(n)[1].subs[1])
    IN  (Len(BlocksOf(n)) = 2 /\ Exit(BlocksOf(n)[2])) \/ (Exit(BlocksOf(n)[1]) /\ catchExits)
IfAlwaysExits(n, Exit(_)) == Len(n.subs) = 3 /\ Exit(n.subs[2]) /\ Exit(n.subs[3])
Jumps == {"return", "throw", "break", "continue"}

BodyAlwaysExitsCase(n) ==
    CASE n.kind \in {"return", "throw"} -> TRUE
      [] n.kind = "block" -> \E s \in Range(n.subs) : BodyAlwaysExitsCase(s)
      [] n.kind = "if" -> IfAlwaysExits(n, BodyAlwaysExitsCase)
      [] OTHER -> FALSE

StatementAlwaysExits(n) ==
    CASE n.kind \in Jumps -> TRUE
      [] n.kind = "block" -> \E s \in Range(n.subs) : StatementAlwaysExits(s)
      [] n.kind = "if" -> IfAlwaysExits(n, StatementAlwaysExits)
      [] n.kind = "try" -> TryAlwaysExits(n, StatementAlwaysExits)
      [] n.kind = "do" -> BodyAlwaysExitsCase(n.subs[1])
      [] OTHER -> FALSE

CaseExits(ss) == \E s \in Range(ss) : StatementAlwaysExits(s)

CommentMatches(trivia, opts) ==
    LET comments == SelectSeq(trivia, LAMBDA t : t # "newline")
    IN  comments # <<>> /\ \/ Last(comments) = "disables the rule"
                           \/ Last(comments) = (IF "commentPattern" \in opts THEN "pattern" ELSE "falls through")
HasBlankLine(trivia) == Len(SelectSeq(trivia, LAMBDA t : t = "newline")) >= 2

(* What is said at a clause about the one before it.                       *)
FallthroughAt(n, i) ==
    LET ss == ClauseStatements(Clauses(n.switch)[i - 1])
        hasComment ==
            \/ Len(ss) = 1 /\ ss[1].kind = "block" /\ CommentMatches(n.inner[i - 1], n.opts)
            \/ CommentMatches(n.leading[i], n.opts)
    IN  CASE CaseExits(ss) /\ hasComment /\ "reportUnusedFallthroughComment" \in n.opts -> "unused comment"
          [] ~CaseExits(ss) /\ ~hasComment
                /\ (ss = <<>> => "allowEmptyCase" \notin n.opts /\ HasBlankLine(n.leading[i])) -> "falls through"
          [] OTHER -> "none"

VisitSwitch(n) == {i \in 2..Len(Clauses(n.switch)) : FallthroughAt(n, i) # "none"}

-----------------------------------------------------------------------------
(* no-unreachable: a list of statements, of a block or of a clause.        *)
RECURSIVE ContainsBreak(_), NeverEnds(_)
ContainsBreak(n) ==
    CASE n.kind = "break" -> TRUE
      [] n.kind \in {"function", "while", "do", "switch"} -> FALSE
      [] OTHER -> \E c \in Range(n.subs) : ContainsBreak(c)
(* The walk starts at the body whatever its kind.                          *)
LoopsForever(test, body) == test.kind = "true" /\ ~ContainsBreak(body)

NeverEnds(n) ==
    CASE n.kind \in Jumps -> TRUE
      [] n.kind = "block" -> \E s \in Range(n.subs) : NeverEnds(s)
      [] n.kind = "if" -> IfAlwaysExits(n, NeverEnds)
      [] n.kind = "try" -> TryAlwaysExits(n, NeverEnds)
      [] n.kind = "while" -> LoopsForever(n.subs[1], n.subs[2])
      [] n.kind = "do" -> NeverEnds(n.subs[1]) \/ LoopsForever(n.subs[2], n.subs[1])
      [] OTHER -> FALSE

IsHoistedDeclaration(s) == s.kind = "function" \/ (s.kind = "var" /\ s.subs = <<>>)

(* Mutant: the statement that ends the list is reported itself.            *)
ScanStatementsEarly(ss) ==
    LET dead == {i \in DOMAIN ss : ~IsHoistedDeclaration(ss[i]) /\ \E j \in 1..i : NeverEnds(ss[j])}
    IN  IF dead = {} THEN {} ELSE {Min(dead)}

ScanStatements(ss) ==
    LET dead == {i \in DOMAIN ss : ~IsHoistedDeclaration(ss[i]) /\ \E j \in 1..i - 1 : NeverEnds(ss[j])}
    IN  IF dead = {} THEN {} ELSE {Min(dead)}

VisitList(n) == ScanStatements(IF n.kind = "block" THEN n.subs ELSE ClauseStatements(n))

-----------------------------------------------------------------------------
(* no-this-before-super: the body of the constructor of a derived class,   *)
(* walked with the state of the path: whether super was called, whether    *)
(* the list has ended; at, where this was found before super.              *)
RECURSIVE WalkStatement(_, _, _), WalkExpression(_, _, _)

WalkChildren(n, p, st, Walk(_, _, _)) ==
    FoldLeftDomain(LAMBDA acc, i : Walk(n.subs[i], p \o <<i>>, acc), st, n.subs)
WalkExpressionAll(n, p, st) == WalkChildren(n, p, st, WalkExpression)
(* A clone's findings, and the original's state.                           *)
Cloned(st, clone) == [st EXCEPT !.at = @ \cup clone.at]

WalkIf(n, p, st) ==
    LET cond == WalkExpression(n.subs[1], p \o <<1>>, st)
        then == WalkStatement(n.subs[2], p \o <<2>>, cond)
    IN  IF Len(n.subs) = 2 THEN Cloned(cond, then)
        ELSE LET else == WalkStatement(n.subs[3], p \o <<3>>, cond)
             IN  [Cloned(Cloned(cond, then), else) EXCEPT !.called = @ \/ (then.called /\ else.called)]

WalkTry(n, p, st) ==
    LET part == [i \in DOMAIN n.subs |->
                    IF n.subs[i].kind = "catch" THEN WalkStatement(n.subs[i].subs[1], p \o <<i, 1>>, st)
                    ELSE WalkStatement(n.subs[i], p \o <<i>>, st)]
    IN  [st EXCEPT !.at = UNION {part[i].at : i \in DOMAIN part},
                   !.called = @ \/ (CatchesOf(n) = <<>> /\ part[1].called)]

WalkStatement(n, p, st) ==
    CASE n.kind = "block" ->
            WalkChildren(n, p, st, LAMBDA s, q, acc : IF acc.done THEN acc ELSE WalkStatement(s, q, acc))
      [] n.kind = "if" -> WalkIf(n, p, st)
      [] n.kind = "try" -> WalkTry(n, p, st)
      [] n.kind \in {"while", "do"} -> Cloned(st, WalkChildren(n, p, st, WalkStatement))
      [] n.kind = "switch" -> Cloned(st, WalkExpressionAll(n, p, st))
      [] n.kind \in {"return", "throw"} -> [WalkExpressionAll(n, p, st) EXCEPT !.done = TRUE]
      [] n.kind = "function" -> st
      [] n.kind = "super" ->
            WalkExpressionAll(n, p, [st EXCEPT !.at = IF st.called THEN @ ELSE @ \cup {p}])
      [] OTHER -> WalkExpressionAll(n, p, st)

WalkExpression(n, p, st) ==
    CASE n.kind = "function" -> st
      [] n.kind = "logic" ->
            LET left == WalkExpression(n.subs[1], p \o <<1>>, st)
            IN  Cloned(left, WalkExpression(n.subs[2], p \o <<2>>, left))
      [] n.kind = "super" -> [WalkExpressionAll(n, p, st) EXCEPT !.called = TRUE]
      [] n.kind = "this" -> [st EXCEPT !.at = IF st.called THEN @ ELSE @ \cup {p}]
      [] OTHER -> WalkExpressionAll(n, p, st)

VisitThis(body) == WalkStatement(body, <<>>, [called |-> FALSE, done |-> FALSE, at |-> {}]).at

-----------------------------------------------------------------------------
(* consistent-return.  n: fn, async, annotation (the members of the type), *)
(* treatUndefinedAsUnspecified.                                            *)
TypeContainsVoid(type, async) == "void" \in type \/ (async /\ type = {"Promise<void>"})
VisitFunction(n) ==
    LET returns == IF n.fn.subs[1].kind = "block" THEN ReturnsOf(n.fn.subs[1]) ELSE {}
        hasBare == \E r \in returns : r.subs = <<>>
        hasUndefined == \E r \in returns : r.subs # <<>> /\ r.subs[1].kind = "undefined"
        hasValue == \E r \in returns : r.subs # <<>> /\ r.subs[1].kind # "undefined"
        mixed == IF n.treatUndefinedAsUnspecified THEN hasValue /\ (hasBare \/ hasUndefined)
                 ELSE hasBare /\ (hasValue \/ hasUndefined)
    IN  IF mixed /\ ~TypeContainsVoid(n.annotation, n.async) THEN {"inconsistent"} ELSE {}

-----------------------------------------------------------------------------
(* Parts of the language.                                                  *)
Jump(n) == n.kind \in {"break", "continue"}

(* A break stands directly in its clause.                                  *)
DirectBreaks(body) ==
    \A n \in Nodes(body) : n.kind \notin {"case", "default"} => ~\E c \in Range(n.subs) : Jump(c)
(* No break or continue within the body of a do loop.                      *)
PlainDo(body) ==
    \A n \in Nodes(body) : n.kind = "do" => ~\E d \in Nodes(n.subs[1]) : Jump(d)

(* The exits of each finally block; one block runs to its end, or never.   *)
FinallyExits(body) ==
    {{p.exit : p \in Paths(BlocksOf(n)[2])} \ {"raise"} :
        n \in {t \in Nodes(body) : t.kind = "try" /\ Len(BlocksOf(t)) = 2}}
PlainFinally(body) == FinallyExits(body) \subseteq {{"end"}}
SettledFinally(body) == \A exits \in FinallyExits(body) : exits = {"end"} \/ "end" \notin exits

SuperWithin(body, kinds) == \E n \in Nodes(body) : n.kind \in kinds /\ SuperInExpr(n) # "None"
Sees(body) == DirectBreaks(body) /\ SettledFinally(body) /\ "do" \notin KindsIn(body)

-----------------------------------------------------------------------------
(* Properties.                                                             *)

(* Without loops and try, the status is exactly what the paths say: Always *)
(* if all of them return, and each kind of return that one of them takes.  *)
StatusIsExact ==
    Visited(GetterReturnId) /\ node.method = "get" =>
        LET body == node.args[1].subs[1]
            exits == {p.exit : p \in BodyPaths(body)}
        IN  DirectBreaks(body) /\ KindsIn(body) \cap {"while", "do", "try"} = {} =>
                FunctionBodyReturnStatus(node.args[1])
                    = MakeStatus("end" \notin exits, exits \cap {"value", "throw"} # {}, "bare" \in exits)

(* A getter that is not reported returns a value or throws on every path   *)
(* through its loops, catch clauses and switches.                          *)
QuietGettersReturn ==
    Visited(GetterReturnId) /\ node.method = "get" /\ reports = {} /\ ~node.allowImplicit =>
        LET body == node.args[1].subs[1]
        IN  Sees(body) => \A p \in BodyPaths(body) : p.exit \in {"value", "throw"}

(* The functions an expression can evaluate to.                            *)
RECURSIVE Callbacks(_)
Callbacks(expr) ==
    LET e == StripParens(expr)
    IN  CASE e.kind = "function" -> {e}
          [] e.kind = "logic" -> Callbacks(e.subs[1]) \cup Callbacks(e.subs[2])
          [] e.kind = "cond" -> Callbacks(e.subs[2]) \cup Callbacks(e.subs[3])
          [] OTHER -> {}

(* A call of map that is not reported passes a callback with a value on    *)
(* every path, one of forEach a callback with none.                        *)
QuietCallbacksAnswer ==
    Visited(CallbackReturnId) /\ reports = {} /\ ~node.isStatic /\ node.args # <<>> /\ ~node.async /\ ~node.generator
        /\ node.opts = {"checkForEach"} =>
        \A f \in Callbacks(node.args[1]) :
            f.subs[1].kind = "block" /\ Sees(f.subs[1]) =>
                \A p \in BodyPaths(f.subs[1]) :
                    /\ node.method = "map" => p.exit \in {"value", "throw"}
                    /\ node.method = "forEach" => p.exit # "value"

(* The paths that need a super call: the others throw or return a value.   *)
Constructing(body) == {p \in BodyPaths(body) : p.exit \in {"end", "bare"}}
CtorBody == node.ctor.subs[1]

(* A class that extends what can be constructed: without loops and try,    *)
(* None, Always and Some are exactly what the paths say as long as none of *)
(* them calls super twice; and with them, a constructor that is not        *)
(* reported calls super exactly once on every path that constructs.        *)
ConstructorsCallSuperOnce ==
    Visited(ConstructorSuperId) /\ ClassifyParent(node.parent) = "Constructable" /\ node.ctor.subs # <<>> /\ DirectBreaks(CtorBody) =>
        LET counts == {p.supers : p \in Constructing(CtorBody)}
        IN  /\ KindsIn(CtorBody) \cap {"while", "do", "try"} = {} /\ (\A p \in BodyPaths(CtorBody) : p.supers < 2) =>
                reports = CASE counts \subseteq {1} -> {} [] counts = {0} -> {"None"} [] OTHER -> {"Some"}
            /\ PlainFinally(CtorBody) /\ "do" \notin KindsIn(CtorBody) /\ ~SuperWithin(CtorBody, {"try"}) /\ reports = {} =>
                counts \subseteq {1}

(* The values a superclass expression may have: some class, or none.       *)
RECURSIVE MayBeClass(_)
MayBeClass(expr) ==
    LET e == StripParens(expr)
    IN  CASE e.kind = "leaf" -> TRUE
          [] e.kind = "cond" -> MayBeClass(e.subs[2]) \/ MayBeClass(e.subs[3])
          [] e.kind \in {"||", "??", "||=", "??="} -> MayBeClass(e.subs[1]) \/ MayBeClass(e.subs[2])
          [] e.kind \in {"=", ",", "&&", "&&="} -> MayBeClass(e.subs[2])
          [] OTHER -> FALSE
(* A super call is only forbidden where there is nothing to construct, and *)
(* a value only asked for where no path gives one.                         *)
RefusedParentsAreNoClasses ==
    Visited(ConstructorSuperId) /\ node.ctor.subs # <<>> =>
        /\ "super not allowed" \in reports => node.parent = <<>> \/ ~MayBeClass(node.parent[1])
        /\ "must return" \in reports => \A p \in BodyPaths(CtorBody) : p.exit # "value"

(* A clause that is not reported and has no permission to fall through     *)
(* cannot reach the next one; where the permission is said to be unused,   *)
(* it cannot either.                                                       *)
QuietClausesDoNotFallThrough ==
    Visited(FallthroughId) =>
        \A i \in 2..Len(Clauses(node.switch)) :
            LET ss == ClauseStatements(Clauses(node.switch)[i - 1])
                falls == \E p \in SeqPaths(ss) : p.exit = "end"
                permitted == CommentMatches(node.leading[i] , node.opts) \/ CommentMatches(node.inner[i - 1], node.opts)
            IN  \A s \in Range(ss) : PlainDo(s) =>
                    /\ ss # <<>> /\ i \notin reports /\ ~permitted => ~falls
                    /\ FallthroughAt(node, i) = "unused comment" => ~falls

(* What is called unreachable cannot be reached: no path leads through     *)
(* what stands before it.                                                  *)
ReportedStatementsAreDead ==
    Visited(UnreachableId) /\ PlainDo(node) =>
        LET ss == IF node.kind = "block" THEN node.subs ELSE ClauseStatements(node)
        IN  \A i \in reports : \A p \in SeqPaths(SubSeq(ss, 1, i - 1)) : p.exit # "end"

(* A constructor that is not reported never uses this before super, with   *)
(* the super calls where the walk tells the paths apart: not in a switch,  *)
(* a labeled statement or a conditional expression.                        *)
QuietConstructorsCallSuperFirst ==
    Visited(ThisBeforeSuperId) /\ reports = {} /\ ~SuperWithin(node, {"switch", "labeled", "cond"}) =>
        \A p \in Paths(node) : ~p.early
(* And a use that is reported comes first on some path, with the super     *)
(* calls and the returns out of the branches and loops whose outcome the   *)
(* walk forgets.                                                           *)
ReportedUsesComeFirst ==
    Visited(ThisBeforeSuperId) /\ reports # {} /\ ~SuperWithin(node, {"if", "try", "while", "do", "switch"})
        /\ (\A n \in Nodes(node) :
                /\ n.kind \in {"if", "while", "do", "switch", "labeled"} => KindsIn(n) \cap {"return", "true"} = {}
                /\ n.kind # "try") =>
        \E p \in Paths(node) : p.early

(* A function that is not reported does not give a value on one path and   *)
(* nothing on another, unless its type says so.                            *)
QuietFunctionsAreConsistent ==
    Visited(ConsistentReturnId) /\ reports = {} /\ ~TypeContainsVoid(node.annotation, node.async)
        /\ ~node.treatUndefinedAsUnspecified /\ node.fn.subs[1].kind = "block" =>
        {p.exit : p \in Paths(node.fn.subs[1])} \cap {"value", "bare"} # {"value", "bare"}

(* The three themes: what functions return, what constructors call before  *)
(* they end, which statements are reached.                                 *)
GettersAndCallbacksReturn == StatusIsExact /\ QuietGettersReturn /\ QuietCallbacksAnswer
ConstructorsCallSuper ==
    /\ ConstructorsCallSuperOnce /\ RefusedParentsAreNoClasses
    /\ QuietConstructorsCallSuperFirst /\ ReportedUsesComeFirst
StatementsAreReachedAsReported ==
    QuietClausesDoNotFallThrough /\ ReportedStatementsAreDead /\ QuietFunctionsAreConsistent

-----------------------------------------------------------------------------
(* return_status.go:30-31: "AlwaysExplicit means every path ends in        *)
(* `return value;` or `throw`", here for any body.                         *)
AlwaysExplicitIsAlways ==
    Visited(GetterReturnId) /\ node.method = "get" =>
        (FunctionBodyReturnStatus(node.args[1]) = "AlwaysExplicit" =>
            \A p \in BodyPaths(node.args[1].subs[1]) : p.exit \in {"value", "throw"})
=============================================================================
