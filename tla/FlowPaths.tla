------------------------------ MODULE FlowPaths ------------------------------
(***************************************************************************)
(* Function bodies and the paths through them: the meaning against which   *)
(* the syntactic analyses of internal/astflow are compared.                *)
(*                                                                         *)
(* A node is a kind and its children in source order, as ForEachChild      *)
(* visits them.  The kinds of statement:                                   *)
(*   expr e | return | return e | throw e | break | continue | block s*    *)
(*   if e s | if e s s | while e s | do s e | labeled s                    *)
(*   switch (case e s* | default s* )* | try block [catch block] [block]   *)
(*   var [e] | let [e] | function s                                        *)
(* and of expression:                                                      *)
(*   leaf | true | undefined | this | super e* | call e* | paren e         *)
(*   cond e e e | logic e e | function s                                   *)
(* while stands for every loop that tests before its body, `while true`    *)
(* for `for (;;)` as well; logic for &&, || and ??; this for a property of *)
(* super too; call for any expression that evaluates its children.         *)
(***************************************************************************)
EXTENDS Syntax

Clauses(n) == SelectSeq(n.subs, LAMBDA c : c.kind \in {"case", "default"})
HasDefault(n) == \E c \in Range(n.subs) : c.kind = "default"
ClauseStatements(c) == IF c.kind = "case" THEN Tail(c.subs) ELSE c.subs

BlocksOf(n) == SelectSeq(n.subs, LAMBDA c : c.kind = "block")
CatchesOf(n) == SelectSeq(n.subs, LAMBDA c : c.kind = "catch")

-----------------------------------------------------------------------------
(* A path leaves a node through one of these exits, having called super a  *)
(* number of times, told apart up to 2; early says that it has used this   *)
(* before.  "raise" is an exception an expression may raise; it matters    *)
(* only inside a try block.                                                *)
Exits == {"end", "value", "bare", "throw", "raise", "break", "continue"}
Path(exit, supers) == [exit |-> exit, supers |-> supers, early |-> FALSE]

Capped(n) == IF n > 2 THEN 2 ELSE n

(* The paths of ps; those that reach the end go on with the ones of qs.    *)
Then(ps, qs) ==
    {p \in ps : p.exit # "end"} \cup
    {[exit |-> q.exit, supers |-> Capped(p.supers + q.supers),
      early |-> p.early \/ (p.supers = 0 /\ q.early)] : p \in {r \in ps : r.exit = "end"}, q \in qs}

(* The paths of ps, those with an exit in from leaving through to.         *)
Leaving(ps, from, to) == {IF p.exit \in from THEN [p EXCEPT !.exit = to] ELSE p : p \in ps}

Empty == {Path("end", 0)}
MayRaise == Empty \cup {Path("raise", 0)}

RECURSIVE ExprPaths(_), ExprSeqPaths(_)

ExprSeqPaths(es) ==
    IF es = <<>> THEN Empty ELSE Then(ExprPaths(Head(es)), ExprSeqPaths(Tail(es)))

ExprPaths(e) ==
    CASE e.kind \in {"function", "true", "undefined"} -> Empty
      [] e.kind = "leaf" -> MayRaise
      [] e.kind = "this" -> {[Path("end", 0) EXCEPT !.early = TRUE]}
      [] e.kind \in {"call", "paren"} -> ExprSeqPaths(e.subs)
      [] e.kind = "super" -> Then(ExprSeqPaths(e.subs), {Path("end", 1), Path("raise", 0)})
      [] e.kind = "cond" ->
            Then(ExprPaths(e.subs[1]), ExprPaths(e.subs[2]) \cup ExprPaths(e.subs[3]))
      [] e.kind = "logic" -> Then(ExprPaths(e.subs[1]), Empty \cup ExprPaths(e.subs[2]))

RECURSIVE Paths(_), SeqPaths(_)

SeqPaths(ss) == IF ss = <<>> THEN Empty ELSE Then(Paths(Head(ss)), SeqPaths(Tail(ss)))

(* Any clause may match, and runs on into the ones after it.               *)
SwitchPaths(n) ==
    LET cs == Clauses(n)
        From(i) == SeqPaths(FlattenSeq([j \in 1..Len(cs) - i + 1 |-> ClauseStatements(cs[i + j - 1])]))
        skip == IF HasDefault(n) THEN {} ELSE Empty
    IN  Leaving(skip \cup UNION {From(i) : i \in DOMAIN cs}, {"break"}, "end")

(* Two iterations show everything the exits and the counts can show.       *)
Iteration(body) == Leaving(body, {"continue"}, "end")
OnFalse(test) == IF test.kind = "true" THEN {} ELSE Empty
WhilePaths(test, body) ==
    LET once(rest) == Then(ExprPaths(test), OnFalse(test) \cup Then(Iteration(body), rest))
    IN  Leaving(once(once(Then(ExprPaths(test), OnFalse(test)))), {"break"}, "end")
DoPaths(body, test) ==
    LET once == Then(Iteration(body), ExprPaths(test))
    IN  Leaving(Then(once \cup Then(once, once), OnFalse(test)), {"break"}, "end")

TryPaths(n) ==
    LET body == Paths(BlocksOf(n)[1])
        thrown == {p \in body : p.exit \in {"throw", "raise"}}
        guarded == IF CatchesOf(n) = <<>> THEN body
                   ELSE (body \ thrown) \cup
                        Then(Leaving(thrown, {"throw", "raise"}, "end"), Paths(CatchesOf(n)[1].subs[1]))
    IN  IF Len(BlocksOf(n)) < 2 THEN guarded
        ELSE UNION {LET final == Then({[p EXCEPT !.exit = "end"]}, Paths(BlocksOf(n)[2]))
                    IN  Leaving(final, {"end"}, p.exit) : p \in guarded}

Paths(n) ==
    CASE n.kind \in {"expr", "var", "let"} -> ExprSeqPaths(n.subs)
      [] n.kind = "function" -> Empty
      [] n.kind = "return" ->
            Then(ExprSeqPaths(n.subs), {Path(IF n.subs = <<>> THEN "bare" ELSE "value", 0)})
      [] n.kind = "throw" -> Then(ExprSeqPaths(n.subs), {Path("throw", 0)})
      [] n.kind \in {"break", "continue"} -> {Path(n.kind, 0)}
      [] n.kind = "block" -> SeqPaths(n.subs)
      [] n.kind = "labeled" -> Paths(n.subs[1])
      [] n.kind = "if" ->
            Then(ExprPaths(n.subs[1]), Paths(n.subs[2]) \cup (IF Len(n.subs) = 3 THEN Paths(n.subs[3]) ELSE Empty))
      [] n.kind = "switch" -> SwitchPaths(n)
      [] n.kind = "while" -> WhilePaths(n.subs[1], Paths(n.subs[2]))
      [] n.kind = "do" -> DoPaths(Paths(n.subs[1]), n.subs[2])
      [] n.kind = "try" -> TryPaths(n)

-----------------------------------------------------------------------------
(* How the function whose body is the block n can come to its end.         *)
BodyPaths(n) == {p \in Paths(n) : p.exit # "raise"}

(* No break or continue without a statement to break.                      *)
WellFormed(n) == \A p \in Paths(n) : p.exit \notin {"break", "continue"}
=============================================================================
