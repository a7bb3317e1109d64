---------------------------- MODULE FlowAnalyses ----------------------------
(***************************************************************************)
(* internal/astflow: how a function body terminates, as getter-return and  *)
(* array-callback-return see it (return_status.go), and how often the      *)
(* paths through a derived constructor call super, as constructor-super    *)
(* sees it (super_call.go).                                                *)
(***************************************************************************)
EXTENDS FlowPaths

Statuses == {"NotReturn", "AlwaysExplicit", "AlwaysImplicit", "AlwaysMixed",
             "SomeExplicit", "SomeImplicit", "SomeMixed", "abruptBreak"}

MustReturn(s) == s \in {"AlwaysExplicit", "AlwaysImplicit", "AlwaysMixed"}
MayReturnExplicit(s) == s \in {"AlwaysExplicit", "AlwaysMixed", "SomeExplicit", "SomeMixed"}
HasExplicitVoidReturn(s) == s \in {"AlwaysImplicit", "AlwaysMixed", "SomeImplicit", "SomeMixed"}

MakeStatus(must, explicit, implicit) ==
    CASE must /\ explicit /\ implicit -> "AlwaysMixed"
      [] must /\ explicit /\ ~implicit -> "AlwaysExplicit"
      [] must /\ ~explicit /\ implicit -> "AlwaysImplicit"
      [] ~must /\ explicit /\ implicit -> "SomeMixed"
      [] ~must /\ explicit /\ ~implicit -> "SomeExplicit"
      [] ~must /\ ~explicit /\ implicit -> "SomeImplicit"
      [] ~explicit /\ ~implicit -> "NotReturn"

(* What a set of statuses has observed, with the given verdict on must.    *)
Observed(must, seen) ==
    MakeStatus(must, \E s \in seen : MayReturnExplicit(s), \E s \in seen : HasExplicitVoidReturn(s))

MergeBranches(seen) == Observed(\A s \in seen : MustReturn(s), seen)

MergeFallthrough(prev, cur) == Observed(MustReturn(cur), {prev, cur})

DemoteToSome(s) ==
    CASE s = "AlwaysExplicit" -> "SomeExplicit"
      [] s = "AlwaysImplicit" -> "SomeImplicit"
      [] s = "AlwaysMixed" -> "SomeMixed"
      [] OTHER -> s

-----------------------------------------------------------------------------
RECURSIVE AnalyzeBlock(_)

(* The walk ends at the first statement that returns or breaks on every    *)
(* path; broke says that it was a break or continue.                       *)
WalkStatements(stmts) ==
    LET s == [i \in DOMAIN stmts |-> AnalyzeBlock(stmts[i])]
        ends == {i \in DOMAIN s : MustReturn(s[i]) \/ s[i] = "abruptBreak"}
        last == IF ends = {} THEN Len(s) ELSE Min(ends)
    IN  [status |-> Observed(ends # {} /\ MustReturn(s[last]), {s[i] : i \in 1..last}),
         broke |-> ends # {} /\ s[last] = "abruptBreak"]

AnalyzeStatements(stmts) == WalkStatements(stmts).status

AnalyzeIf(n) ==
    MergeBranches({AnalyzeBlock(n.subs[2]),
                   IF Len(n.subs) = 3 THEN AnalyzeBlock(n.subs[3]) ELSE "NotReturn"})

(* What a clause contributes when it is the switch's entry point.          *)
EntryStatus(body, next) ==
    IF body.broke \/ MustReturn(body.status) THEN body.status
    ELSE MergeFallthrough(body.status, next)

AnalyzeSwitch(n) ==
    LET cs == Clauses(n)
        outer[i \in 1..Len(cs) + 1] ==
            IF i > Len(cs) THEN "NotReturn"
            ELSE EntryStatus(WalkStatements(ClauseStatements(cs[i])), outer[i + 1])
        entries == {outer[i] : i \in DOMAIN cs}
    IN  IF cs = <<>> THEN "NotReturn"
        ELSE MergeBranches(entries \cup (IF HasDefault(n) THEN {} ELSE {"NotReturn"}))

(* A finally that always returns decides; else try and catch are branches. *)
AnalyzeTry(n) ==
    LET finallyS == IF Len(BlocksOf(n)) < 2 THEN "NotReturn" ELSE AnalyzeBlock(BlocksOf(n)[2])
        tryS == AnalyzeBlock(BlocksOf(n)[1])
    IN  IF MustReturn(finallyS) THEN finallyS
        ELSE IF CatchesOf(n) = <<>> THEN tryS
        ELSE MergeBranches({tryS, AnalyzeBlock(CatchesOf(n)[1].subs[1])})

(* loopBody and labeledBody take the last child, whatever it is.           *)
AnalyzeBlock(n) ==
    CASE n.kind = "block" -> AnalyzeStatements(n.subs)
      [] n.kind = "if" -> AnalyzeIf(n)
      [] n.kind = "switch" -> AnalyzeSwitch(n)
      [] n.kind = "try" -> AnalyzeTry(n)
      [] n.kind = "return" -> IF n.subs # <<>> THEN "AlwaysExplicit" ELSE "AlwaysImplicit"
      [] n.kind = "throw" -> "AlwaysExplicit"
      [] n.kind \in {"break", "continue"} -> "abruptBreak"
      [] n.kind = "labeled" -> AnalyzeBlock(Last(n.subs))
      [] n.kind \in {"while", "do"} -> DemoteToSome(AnalyzeBlock(Last(n.subs)))
      [] OTHER -> "NotReturn"

(* fn is a function with a block, an arrow function with an expression, or *)
(* a declaration without a body.                                           *)
FunctionBodyReturnStatus(fn) ==
    CASE fn.subs = <<>> -> "NotReturn"
      [] fn.subs # <<>> /\ fn.subs[1].kind = "block" -> AnalyzeBlock(fn.subs[1])
      [] OTHER -> "AlwaysExplicit"

-----------------------------------------------------------------------------
(* super_call.go                                                           *)
SuperStatuses == {"None", "Always", "Some", "Multiple"}

(* Two counts seen on the same path, and on alternative paths.             *)
ComposeSuper(a, b) == IF a = "None" THEN b ELSE IF b = "None" THEN a ELSE "Multiple"
MergeSuper(a, b) == IF a = b THEN a ELSE IF "Multiple" \in {a, b} THEN "Multiple" ELSE "Some"

(* The record of pathState: counts on the paths still alive and on those   *)
(* that left with a bare return; whether the last statement was a break.   *)
PathState(aliveSuper, aliveExists, bareSuper, bareExists, broke) ==
    [aliveSuper |-> aliveSuper, aliveExists |-> aliveExists,
     bareSuper |-> bareSuper, bareExists |-> bareExists, broke |-> broke]

PassThrough == PathState("None", TRUE, "None", FALSE, FALSE)
StepSuper(calls) == PathState(calls, TRUE, "None", FALSE, FALSE)
ExitClean == PathState("None", FALSE, "None", FALSE, FALSE)
ExitBare == PathState("None", FALSE, "None", TRUE, FALSE)
Broken == PathState("None", FALSE, "None", FALSE, TRUE)

(* The bare exits of two path states together.                             *)
JoinBare(aExists, aSuper, bExists, bSuper) ==
    CASE aExists /\ bExists -> MergeSuper(aSuper, bSuper)
      [] aExists /\ ~bExists -> aSuper
      [] ~aExists /\ bExists -> bSuper
      [] OTHER -> "None"

ComposeSequential(a, b) ==
    IF a.broke \/ ~a.aliveExists THEN a
    ELSE PathState(ComposeSuper(a.aliveSuper, b.aliveSuper), b.aliveExists,
                   JoinBare(a.bareExists, a.bareSuper,
                            b.bareExists, ComposeSuper(a.aliveSuper, b.bareSuper)),
                   a.bareExists \/ b.bareExists, b.broke)

(* mergeBranches2: of an alternative without alive paths nothing stays     *)
(* but its bare exits.                                                     *)
MergeAlternatives(a, b) ==
    PathState(JoinBare(a.aliveExists, a.aliveSuper, b.aliveExists, b.aliveSuper),
              a.aliveExists \/ b.aliveExists,
              JoinBare(a.bareExists, a.bareSuper, b.bareExists, b.bareSuper),
              a.bareExists \/ b.bareExists, a.broke /\ b.broke)

-----------------------------------------------------------------------------
RECURSIVE SuperInExpr(_)

SuperInAll(es) == FoldLeft(LAMBDA acc, e : ComposeSuper(acc, SuperInExpr(e)), "None", es)

SuperInExpr(e) ==
    CASE e.kind = "function" -> "None"
      [] e.kind = "super" -> ComposeSuper(SuperInAll(e.subs), "Always")
      [] e.kind = "cond" ->
            ComposeSuper(SuperInExpr(e.subs[1]),
                         MergeSuper(SuperInExpr(e.subs[2]), SuperInExpr(e.subs[3])))
      [] e.kind = "logic" ->
            ComposeSuper(SuperInExpr(e.subs[1]), MergeSuper(SuperInExpr(e.subs[2]), "None"))
      [] OTHER -> SuperInAll(e.subs)

RECURSIVE AnalyzeNode(_)

(* analyzeStmtSeq: nothing after a break or a complete exit counts; a      *)
(* state without alive paths absorbs what is composed after it.            *)
AnalyzeStmtSeq(ss) ==
    FoldLeft(LAMBDA acc, s : IF acc.broke \/ ~acc.aliveExists THEN acc
                             ELSE ComposeSequential(acc, AnalyzeNode(s)), PassThrough, ss)

AnalyzeIfNode(n) ==
    ComposeSequential(
        StepSuper(SuperInExpr(n.subs[1])),
        MergeAlternatives(AnalyzeNode(n.subs[2]),
                          IF Len(n.subs) = 3 THEN AnalyzeNode(n.subs[3]) ELSE PassThrough))

(* A clause as the switch's entry point: a break leaves the switch alive.  *)
EntryState(body, next) ==
    CASE body.broke -> [body EXCEPT !.broke = FALSE, !.aliveExists = TRUE]
      [] ~body.broke /\ ~body.aliveExists -> body
      [] OTHER -> ComposeSequential(body, next)

AnalyzeSwitchNode(n) ==
    LET cs == Clauses(n)
        entry[i \in 1..Len(cs) + 1] ==
            IF i > Len(cs) THEN PassThrough
            ELSE EntryState(AnalyzeStmtSeq(ClauseStatements(cs[i])), entry[i + 1])
        merged[i \in 1..Len(cs)] ==
            IF i = 1 THEN entry[1] ELSE MergeAlternatives(merged[i - 1], entry[i])
    IN  IF cs = <<>> THEN PassThrough
        ELSE IF HasDefault(n) THEN merged[Len(cs)]
        ELSE MergeAlternatives(merged[Len(cs)], PassThrough)

AnalyzeTryNode(n) ==
    LET catchS == IF CatchesOf(n) = <<>> THEN PassThrough
                  ELSE AnalyzeNode(CatchesOf(n)[1].subs[1])
        body == MergeAlternatives(AnalyzeNode(BlocksOf(n)[1]), catchS)
    IN  IF Len(BlocksOf(n)) < 2 THEN body
        ELSE ComposeSequential(body, AnalyzeNode(BlocksOf(n)[2]))

(* A loop's exits stay exits; any super call in its body may be repeated.  *)
AnalyzeLoop(n) ==
    LET inner == AnalyzeNode(Last(n.subs))
    IN  PathState(IF inner.aliveSuper = "None" THEN "None" ELSE "Multiple", TRUE,
                  IF inner.bareExists THEN inner.bareSuper ELSE "None", inner.bareExists, FALSE)

AnalyzeNode(n) ==
    CASE n.kind = "block" -> AnalyzeStmtSeq(n.subs)
      [] n.kind = "if" -> AnalyzeIfNode(n)
      [] n.kind = "switch" -> AnalyzeSwitchNode(n)
      [] n.kind = "try" -> AnalyzeTryNode(n)
      [] n.kind = "return" /\ n.subs = <<>> -> ExitBare
      [] n.kind = "return" /\ n.subs # <<>> -> ExitClean
      [] n.kind = "throw" -> ExitClean
      [] n.kind \in {"break", "continue"} -> Broken
      [] n.kind \in {"while", "do"} -> AnalyzeLoop(n)
      [] n.kind = "labeled" -> AnalyzeNode(Last(n.subs))
      [] n.kind = "expr" -> StepSuper(SuperInAll(n.subs))
      [] OTHER -> StepSuper(SuperInExpr(n))

(* Multiple anywhere is Multiple; else the paths that did not exit clean.  *)
Finalize(s) ==
    CASE "Multiple" \in {s.aliveSuper, s.bareSuper} -> "Multiple"
      [] "Multiple" \notin {s.aliveSuper, s.bareSuper} /\ ~s.aliveExists /\ ~s.bareExists -> "Always"
      [] OTHER -> JoinBare(s.aliveExists, s.aliveSuper, s.bareExists, s.bareSuper)

ConstructorSuperCallStatus(ctor) ==
    IF ctor.subs = <<>> THEN "None" ELSE Finalize(AnalyzeNode(ctor.subs[1]))
=============================================================================
