-------------------------------- MODULE Loops -------------------------------
(***************************************************************************)
(* The rules for-direction and no-unmodified-loop-condition: what a loop   *)
(* asks before each turn, and what a turn changes of it.                   *)
(***************************************************************************)
EXTENDS RuleVisit, Integers, SequencesExt

DirectionId == "for-direction"
UnmodifiedId == "no-unmodified-loop-condition"

-----------------------------------------------------------------------------
(* for-direction.  A side of the comparison is a name or a number, the     *)
(* update one expression; the parts of the head are the loop's first       *)
(* children, and what is left out is not among them.                       *)
Orders == {"<", "<=", ">", ">="}
Children(n) == SelectSeq(<<n.init, n.cond, n.update, n.body>>, LAMBDA c : c.kind # "none")
UpdatePart(n) == IF Children(n)[3].kind = "block" THEN [kind |-> "none"] ELSE Children(n)[3]
Counter(cond) == IF cond.left.kind = "name" THEN cond.left ELSE cond.right
ExpectedDirection(cond) ==
    IF (cond.op \in {"<", "<="}) = (cond.left.kind = "name") THEN "forward" ELSE "backward"
RECURSIVE NumericSign(_)
NumericSign(e) ==
    CASE e.kind = "number" /\ e.value # 0 -> 1
      [] e.kind = "minus" -> -NumericSign(e.operand)
      [] e.kind = "plus" -> NumericSign(e.operand)
      [] OTHER -> 0
(* Mutant: the sign of the step is forgotten.                              *)
UpdateDirectionUnsigned(u, name) ==
    IF u.kind \notin {"step", "add"} \/ u.name # name THEN "none"
    ELSE IF u.op \in {"++", "+="} THEN "forward" ELSE "backward"
UpdateDirection(u, name) ==
    IF u.kind \notin {"step", "add"} \/ u.name # name THEN "none"
    ELSE LET sign == IF u.kind = "step" THEN 1 ELSE NumericSign(u.by)
         IN  CASE sign = 0 -> "none"
               [] (u.op \in {"++", "+="}) = (sign = 1) -> "forward"
               [] OTHER -> "backward"
VisitForDirection(n) ==
    LET u == UpdatePart(n)
    IN  IF /\ n.cond.kind = "comparison" /\ n.cond.op \in Orders
           /\ Counter(n.cond).kind = "name"
           /\ UpdateDirection(u, Counter(n.cond).name) \notin {"none", ExpectedDirection(n.cond)}
          THEN {"wrong way"} ELSE {}

-----------------------------------------------------------------------------
(* no-unmodified-loop-condition.  A condition is a tree of operators over  *)
(* names; a body is a sequence of items, a function's body another one.    *)
RECURSIVE SplitOperands(_), Names(_), Kinds(_)
SplitOperands(e) ==
    IF e.kind \in {"&&", "||", "??", "paren"} THEN UNION {SplitOperands(e.subs[i]) : i \in DOMAIN e.subs} ELSE {e}
Names(e) == IF e.kind = "name" THEN {e.name} ELSE UNION {Names(e.subs[i]) : i \in DOMAIN e.subs}
Kinds(e) == {e.kind} \cup IF e.kind = "name" THEN {} ELSE UNION {Kinds(e.subs[i]) : i \in DOMAIN e.subs}
HasPropertyAccess(e) == Kinds(e) \cap {"property", "element"} # {}
HasSideEffects(e) == Kinds(e) \cap {"call", "new", "await", "yield", "++", "="} # {}

(* An item of a body: what it does, to which name, by which function.      *)
(* The walk does not enter functions, and looks into those called by name  *)
(* that are declared as functions, once.                                   *)
RECURSIVE Mutates(_, _, _, _)
Mutates(items, name, functions, seen) ==
    \E i \in DOMAIN items :
        LET item == items[i]
        IN  \/ item.does \in {"assign", "update"} /\ item.name = name
            \/ /\ item.does = "call" /\ item.name \notin seen
               /\ functions[item.name].declared = "function"
               /\ Mutates(functions[item.name].items, name, functions, seen \cup {item.name})
HasOpaqueInvocation(items) == \E i \in DOMAIN items : items[i].does \in {"new", "tagged template"}
VisitLoop(n) ==
    LET Changed(name) == Mutates(n.body, name, n.functions, {}) \/ Mutates(n.updater, name, n.functions, {})
    IN  IF HasPropertyAccess(n.cond) \/ HasOpaqueInvocation(n.body) THEN {}
        ELSE UNION {Names(g) : g \in {o \in SplitOperands(n.cond) : ~HasSideEffects(o) /\ ~\E x \in Names(o) : Changed(x)}}

-----------------------------------------------------------------------------
(* A loop goes the wrong way when a condition that holds goes on holding,  *)
(* whatever the counter and the bound.  Known: loops without an            *)
(* initializer are not looked at, and the counter is the name on the left. *)
Bounds == -3..3
NumberOf(e, env) ==
    CASE e.kind = "name" -> env[e.name] [] e.kind = "number" -> e.value
      [] OTHER -> env["other"]
RECURSIVE StepOf(_, _)
StepOf(e, env) ==
    CASE e.kind = "minus" -> -StepOf(e.operand, env) [] e.kind = "plus" -> StepOf(e.operand, env) [] OTHER -> NumberOf(e, env)
After(u, env) ==
    IF u.kind \notin {"step", "add"} THEN env
    ELSE LET by == IF u.kind = "step" THEN 1 ELSE StepOf(u.by, env)
         IN  [env EXCEPT ![u.name] = @ + (IF u.op \in {"++", "+="} THEN by ELSE -by)]
Holds(cond, env) ==
    LET l == NumberOf(cond.left, env) r == NumberOf(cond.right, env)
    IN  CASE cond.op = "<" -> l < r [] cond.op = "<=" -> l <= r [] cond.op = ">" -> l > r [] cond.op = ">=" -> l >= r [] OTHER -> l # r
GoesOn(n, env) == Holds(n.cond, env) => Holds(n.cond, After(n.update, env))
Moves(n, env) == After(n.update, env) # env
WrongWaysAreEndless ==
    Visited(DirectionId) /\ node.cond.kind = "comparison" /\ node.cond.op \in Orders =>
        LET endless == \A env \in [{"i", "n", "other"} -> Bounds] : GoesOn(node, env) /\ Moves(node, env)
        IN  /\ reports # {} => endless
            /\ endless /\ Counter(node.cond).kind = "name" =>
                          \/ reports # {} \/ node.init.kind = "none"
                          \/ node.update.name # Counter(node.cond).name

(* An operand that is reported keeps its value while the loop runs.        *)
(* Known: assignments in parentheses, by a pattern or by a for-of head are *)
(* not seen, nor what functions do that are called as methods, written in  *)
(* place or kept in variables, nor what another operand of the condition   *)
(* calls, nor what happens while the loop waits.                           *)
RECURSIVE Changes(_, _, _, _)
Changes(items, name, functions, depth) ==
    \E i \in DOMAIN items :
        LET item == items[i]
        IN  \/ item.does \in {"assign", "update", "assign in parentheses", "destructure", "for of"} /\ item.name = name
            \/ item.does = "await" /\ name \in item.elsewhere
            \/ /\ item.does \in {"call", "method call", "new", "tagged template"} /\ depth > 0
               /\ Changes(functions[item.name].items, name, functions, depth - 1)
            \/ item.does = "call in place" /\ Changes(item.items, name, functions, depth)
Seen == {"assign", "update", "call", "declare", "assign its own", "new", "tagged template"}
RECURSIVE OnlySeen(_, _, _)
OnlySeen(items, functions, depth) ==
    \A i \in DOMAIN items :
        /\ items[i].does \in Seen
        /\ items[i].does = "call" /\ depth > 0 =>
              functions[items[i].name].declared = "function" /\ OnlySeen(functions[items[i].name].items, functions, depth - 1)
CalledInCondition(n) == IF "call" \in Kinds(n.cond) THEN n.functions["f"].items ELSE <<>>
ReportedOperandsStay ==
    Visited(UnmodifiedId) =>
        \A name \in reports :
            \/ ~\E items \in {node.body, node.updater, CalledInCondition(node)} : Changes(items, name, node.functions, 3)
            \/ ~OnlySeen(node.body, node.functions, 3) \/ "call" \in Kinds(node.cond)
(* And a name whose operand stays is reported.  Known: a property or a     *)
(* construction anywhere silences the rule, and so does the condition's    *)
(* own effect for its operand.                                             *)
StayingOperandsAreReported ==
    Visited(UnmodifiedId) /\ ~HasPropertyAccess(node.cond) /\ ~HasOpaqueInvocation(node.body) =>
        \A o \in SplitOperands(node.cond) :
            ~HasSideEffects(o) /\ (\A name \in Names(o) : \A items \in {node.body, node.updater} : ~Changes(items, name, node.functions, 3))
            => Names(o) \subseteq reports

(* Loops that are called endless are.                                      *)
LoopsMakeProgress == WrongWaysAreEndless /\ ReportedOperandsStay /\ StayingOperandsAreReported
=============================================================================
