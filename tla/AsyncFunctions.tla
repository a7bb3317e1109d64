--------------------------- MODULE AsyncFunctions ---------------------------
(***************************************************************************)
(* Rules on the bodies of asynchronous functions and of executors:         *)
(* return-await, require-await, no-promise-executor-return and             *)
(* prefer-promise-reject-errors.                                           *)
(***************************************************************************)
EXTENDS RuleVisit, SequencesExt, FiniteSetsExt

ReturnAwaitId == "return-await"
RequireAwaitId == "require-await"
ExecutorReturnId == "no-promise-executor-return"
RejectErrorsId == "prefer-promise-reject-errors"

-----------------------------------------------------------------------------
(* return-await.  What is returned is a set of expressions, awaited or     *)
(* not, each "via" the parentheses and the parts of ?: around it; the path *)
(* leads out of the function it is in, and a step says what the statement  *)
(* there still has to do.                                                  *)
Returning(mode) == [errors |-> IF mode = "never" THEN "no await" ELSE "await",
                    ordinary |-> CASE mode = "always" -> "await" [] mode = "error-handling-correctness-only" -> "either" [] OTHER -> "no await"]

FunctionBoundary == {"function", "method", "arrow", "accessor"}
Owners == FunctionBoundary \ {"accessor"}
FirstOf(path, kinds) == SelectInSeq(path, LAMBDA s : s.kind \in kinds)
UpTo(path, kinds) == IF FirstOf(path, kinds) = 0 THEN path ELSE SubSeq(path, 1, FirstOf(path, kinds) - 1)
Owner(path) == path[FirstOf(path, Owners)]

PossiblyReturned(n) == {e \in n.returned : "?: test" \notin Range(e.via)}

NeedsToBeAwaited(type) ==
    CASE type \in {"promise", "thenable", "T<promise>"} -> "always"
      [] type \in {"any", "unknown", "T", "T<any>"} -> "may"
      [] OTHER -> "never"

(* A try statement around the nearest step of one decides, unless the path *)
(* comes from its catch clause and it has no finally, or from its finally. *)
(* Mutant: what a finally does after a catch clause is forgotten.          *)
AffectsExplicitErrorHandlingInTry(path) ==
    LET inside == UpTo(path, FunctionBoundary) IN \E i \in DOMAIN inside : inside[i].kind = "try"
AffectsExplicitErrorHandling(path) ==
    LET inside == UpTo(path, FunctionBoundary)
    IN  \E i \in DOMAIN inside : inside[i].kind = "try" \/ (inside[i].kind = "catch" /\ inside[i].finally)
AffectsResourceManagement(path) ==
    LET inside == UpTo(path, FunctionBoundary) IN \E i \in DOMAIN inside : inside[i].kind = "block" /\ inside[i].using
AffectsErrorHandling(path) == AffectsExplicitErrorHandling(path) \/ AffectsResourceManagement(path)

Wanted(n) == IF AffectsErrorHandling(n.path) THEN Returning(n.mode).errors ELSE Returning(n.mode).ordinary
TestReturned(n, e) ==
    LET needs == NeedsToBeAwaited(e.type)
    IN  IF needs # "always" THEN (IF e.awaited /\ needs = "never" THEN {<<"no promise", e>>} ELSE {})
        ELSE IF Wanted(n) = "await" /\ ~e.awaited THEN {<<"await", e>>}
        ELSE IF Wanted(n) = "no await" /\ e.awaited THEN {<<"no await", e>>} ELSE {}
VisitReturned(n) ==
    IF Owner(n.path).async THEN UNION {TestReturned(n, e) : e \in PossiblyReturned(n)} ELSE {}

-----------------------------------------------------------------------------
(* require-await.  A body is a set of things in it; each says what it is,  *)
(* of what type, and whether it is in the body itself, in a function       *)
(* inside it, in an accessor, or in the computed name of a method.         *)
Entered(place) == place \in {"body", "accessor"}
IsPromiseType(type) == type \in {"promise", "promise or number"}
IsAsyncYield(item) ==
    \/ item.type \in {"promise", "promise or number"}
    \/ item.kind = "yield*" /\ item.type \in {"async iterable", "any declared async iterable", "any call of async iterable"}
UsesAwait(n) ==
    \E item \in n.items : Entered(item.place) /\
        (item.kind \in {"await", "for await", "await using"} \/ (item.kind \in {"yield", "yield*"} /\ IsAsyncYield(item)))
ReturnsPromise(n) ==
    \E item \in n.items : Entered(item.place) /\ item.kind = "return" /\ IsPromiseType(item.type)
VisitAsyncFunction(n) == IF n.async /\ ~UsesAwait(n) /\ ~ReturnsPromise(n) THEN {"no await"} ELSE {}

-----------------------------------------------------------------------------
(* no-promise-executor-return.  `new Promise(..)`: its type arguments and  *)
(* arguments, the scopes around it with what they do with the name         *)
(* Promise, and the things in the executor.                                *)
ScopeNodes == {"source file", "block", "function", "loop", "catch clause", "class", "namespace"}
BindsByText ==
    {"function", "class", "variable", "parameter", "import", "pattern", "own name",
     "pattern key", "imported as another", "initializer", "parameter default"}
HasEnclosingBinding(n) == \E i \in DOMAIN n.scopes : n.scopes[i].kind \in ScopeNodes /\ n.scopes[i].does \in BindsByText

(* The first child behind the callee.                                      *)
FirstArgument(n) == IF n.typeArgument THEN "type" ELSE n.executor
ReturnsValue(n) == {item \in n.items : item.place = "body" /\ item.kind = "return" /\ item.type # "nothing"}
VisitNewPromise(n) ==
    IF HasEnclosingBinding(n) THEN {}
    ELSE IF FirstArgument(n) = "arrow expression" THEN {"body"}
    ELSE IF FirstArgument(n) \in {"arrow", "function"} THEN ReturnsValue(n) ELSE {}

-----------------------------------------------------------------------------
(* prefer-promise-reject-errors.  A call, by what is called: a member      *)
(* reject, or a name that is a parameter; and its argument's type, a set   *)
(* of union members.                                                       *)
ErrorNames == {"Error", "MyError", "interface TypeError", "{name,message}"}
Parts == [m \in {"MyError&B", "string&B", "any&B"} |-> CASE m = "MyError&B" -> {"MyError", "B"} [] m = "string&B" -> {"string", "B"} [] OTHER -> {"any", "B"}]
Bound == [m \in {"T<Error>", "T<string>", "T<any>"} |-> CASE m = "T<Error>" -> "Error" [] m = "T<string>" -> "string" [] OTHER -> "any"]
IsAcceptableError(type) ==
    type # {} /\ \A m \in type :
        \/ m \in ErrorNames \cup {"any", "unknown"}
        \/ m \in DOMAIN Parts /\ Parts[m] \intersect (ErrorNames \cup {"any"}) # {}
        \/ m \in DOMAIN Bound /\ Bound[m] \in ErrorNames \cup {"any"}
ReceiverIsPromise(receiver) == receiver \in {"Promise", "own Promise", "PromiseConstructor", "subclass", "intersection", "union"}
IsPromiseRejectCallee(n) ==
    n.callee = "member" /\ n.written \in {".reject", "['reject']"} /\ ReceiverIsPromise(n.receiver)
(* The second parameter of a function that is an argument of new Promise,  *)
(* or the first when it is called reject.                                  *)
IsExecutorRejectParam(n) ==
    /\ n.callee = "name" /\ n.of = "new" /\ ReceiverIsPromise(n.receiver)
    /\ n.index = 2 \/ (n.index = 1 /\ n.name = "reject")
MatchesAllow(n) == n.type = {"MyError"} /\ n.allowsMine
Accepted(n) ==
    IF ~n.argument THEN n.allowEmpty
    ELSE IF MatchesAllow(n) THEN TRUE
    ELSE IF n.type = {"any"} THEN n.allowAny
    ELSE IF n.type = {"unknown"} THEN n.allowUnknown
    ELSE IsAcceptableError(n.type)
VisitRejection(n) ==
    IF (IsPromiseRejectCallee(n) \/ IsExecutorRejectParam(n)) /\ ~Accepted(n) THEN {"no error"} ELSE {}

-----------------------------------------------------------------------------
(* What the statements around a return still do when its value is known: a *)
(* catch or finally of a try statement, the finally of one whose catch     *)
(* clause returns, the disposal of a resource.  A promise that is awaited  *)
(* settles before that, one that is returned as it is after.  Known: a     *)
(* resource a for loop or a case clause declares is not seen, and a return *)
(* of an accessor is taken for one of the function around it.              *)
RunsAfter(step) ==
    \/ step.kind = "try" \/ (step.kind = "catch" /\ step.finally)
    \/ step.kind \in {"block", "for", "case clause"} /\ step.using
Own(path) == path[FirstOf(path, FunctionBoundary)]
ReturnsSettleInOrder ==
    Visited(ReturnAwaitId) /\ Own(node.path).kind # "accessor" =>
        LET observed == \E i \in DOMAIN UpTo(node.path, FunctionBoundary) : RunsAfter(node.path[i])
            unseen == \E i \in DOMAIN node.path : node.path[i].kind \in {"for", "case clause"} /\ node.path[i].using
        IN  \A e \in PossiblyReturned(node) :
                /\ <<"no await", e>> \in reports => node.mode = "never" \/ ~observed \/ unseen
                /\ <<"await", e>> \in reports => ~e.awaited /\ Own(node.path).async
                /\ (Owner(node.path).async /\ observed /\ node.mode # "never" /\ NeedsToBeAwaited(e.type) = "always" /\ ~e.awaited)
                      => <<"await", e>> \in reports \/ unseen
                /\ Cardinality({r \in reports : r[2] = e}) <= 1

(* A function loses nothing with its async when it is reported: nothing it *)
(* does itself waits.  Known: an await in the computed name of a method of *)
(* an object in the body is not found, a promise an accessor returns is.   *)
Waits(item) ==
    /\ item.place \in {"body", "computed name"}
    /\ \/ item.kind \in {"await", "for await", "await using"}
       \/ item.kind = "yield" /\ IsPromiseType(item.type)
       \/ item.kind = "yield*" /\ item.type \notin {"number", "promise or number", "promise", "nothing"}
ReportedFunctionsNeverWait ==
    Visited(RequireAwaitId) =>
        /\ reports # {} => \A item \in node.items : Waits(item) => item.place = "computed name"
        /\ (reports = {} /\ node.async) =>
              \E item \in node.items : Waits(item) \/ (item.kind = "return" /\ IsPromiseType(item.type))

(* What an executor itself returns is reported, when Promise is the global *)
(* one.  Known: a type argument hides the executor; a name is bound by     *)
(* being written in a binding, as its key or its initial value, and not by *)
(* an enum, a case clause or a var of a nested block.                      *)
Misread == {"pattern key", "imported as another", "initializer", "parameter default", "enum", "nested var"}
Misbound(n) == \E i \in DOMAIN n.scopes : n.scopes[i].does \in Misread \/ n.scopes[i].kind = "case clause"
IsGlobalPromise(n) == \A i \in DOMAIN n.scopes : n.scopes[i].does = "nothing"
ExecutorsReturnNothing ==
    Visited(ExecutorReturnId) /\ ~Misbound(node) /\ ~node.typeArgument =>
        IF ~IsGlobalPromise(node) THEN reports = {}
        ELSE /\ node.executor = "arrow expression" => reports # {}
             /\ node.executor \in {"arrow", "function"} =>
                   reports = {item \in node.items : item.place = "body" /\ item.kind = "return" /\ item.type # "nothing"}

(* A rejection that is let pass has an error for a reason, and what is     *)
(* reported may have something else.  Known: Promise and the errors are    *)
(* taken by their names; in parentheses an executor is not recognised, and *)
(* a first parameter is taken for the second when it is called reject.     *)
IsError(m) == m \in {"Error", "MyError", "{name,message}", "MyError&B", "T<Error>"}
Rejects(n) ==
    \/ n.callee = "member" /\ n.receiver \notin {"own Promise", "other", "union"}
    \/ n.callee = "name" /\ n.index = 2 /\ n.of \in {"new", "new ()"} /\ n.receiver \notin {"own Promise", "other", "union"}
RejectionsAreErrors ==
    Visited(RejectErrorsId) =>
        /\ reports # {} =>
              /\ Rejects(node) \/ node.receiver \in {"own Promise", "union"} \/ (node.index = 1 /\ node.name = "reject")
              /\ ~node.argument \/ node.type = {} \/ \E m \in node.type : ~IsError(m)
        /\ (reports = {} /\ Rejects(node) /\ node.argument) =>
              \/ \A m \in node.type : IsError(m) \/ m \in {"interface TypeError", "any&B", "T<any>"}
              \/ node.type = {"any"} /\ node.allowAny
              \/ node.type = {"unknown"} /\ node.allowUnknown
              \/ node.of = "new ()" \/ node.written = "[template]"

(* The four rules' promise: a promise settles when and how its callers     *)
(* expect.                                                                 *)
PromisesSettleAsExpected ==
    ReturnsSettleInOrder /\ ReportedFunctionsNeverWait /\ ExecutorsReturnNothing /\ RejectionsAreErrors

-----------------------------------------------------------------------------
(* The nodes that a program can contain.  A return is in some function;    *)
(* yield* takes an iterable; an accessor awaits nothing; any and unknown   *)
(* absorb the other members of their unions.                               *)
IsReturn(n) ==
    /\ n.path \in Seq([kind : STRING, finally : BOOLEAN, using : BOOLEAN, async : BOOLEAN])
    /\ \E i \in DOMAIN n.path : n.path[i].kind \in Owners
Iterables == {"number", "async iterable", "any declared async iterable", "any call of async iterable"}
IsFunctionBody(n) ==
    \A item \in n.items :
        /\ item.kind = "yield*" => item.type \in Iterables
        /\ item.place = "accessor" => item.kind = "return"
IsNewPromise(n) ==
    \A i \in DOMAIN n.scopes :
        n.scopes[i].kind \in ScopeNodes \cup {"case clause"} /\ n.scopes[i].does \in {"nothing"} \cup BindsByText \cup Misread
IsRejection(n) ==
    /\ n.receiver \in {"Promise", "own Promise", "PromiseConstructor", "subclass", "intersection", "union", "other"}
    /\ n.callee = "member" => n.written \in {".reject", "['reject']", "[template]"}
    /\ \A m \in {"any", "unknown"} : m \in n.type => n.type = {m}

(* The engine dispatches the four rules on any number of such nodes.       *)
AsyncNext ==
    \/ Dispatch(ReturnAwaitId, VisitReturned)
    \/ Dispatch(RequireAwaitId, VisitAsyncFunction)
    \/ Dispatch(ExecutorReturnId, VisitNewPromise)
    \/ Dispatch(RejectErrorsId, VisitRejection)
AsyncSpec(returns, bodies, executors, rejections) ==
    /\ \/ Start(ReturnAwaitId, returns) \/ Start(RequireAwaitId, bodies)
       \/ Start(ExecutorReturnId, executors) \/ Start(RejectErrorsId, rejections)
    /\ [][AsyncNext]_vars
=============================================================================
