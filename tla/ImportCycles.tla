---------------------------- MODULE ImportCycles ----------------------------
(***************************************************************************)
(* The rule no-import-cycles over one program: visit looks at the imports  *)
(* of a file and asks, for each, whether the file is reachable from what   *)
(* it imports.                                                             *)
(*                                                                         *)
(* A top-level statement is abstracted to the file its specifier resolves  *)
(* to and to whether it is type-only.  reachable's stack is a set: neither *)
(* the order nor the repetition of what waits on it can change the answer. *)
(***************************************************************************)
EXTENDS Naturals, Sequences

CONSTANTS
    Files,          \* the program's source files
    None,           \* no import, or one that leaves the program
    MaxStatements   \* bound: top-level statements of a file

ASSUME NoneAssumption == None \notin Files
ASSUME BoundAssumption == MaxStatements \in Nat

Statements == [target : Files \cup {None}, typeOnly : BOOLEAN]

VARIABLES
    program,        \* the statements of every file
    ignoreTypes,    \* the rule's option
    visited,        \* files the engine has passed to visit
    self,           \* the file visit looks at
    at,             \* the statement its ForEachChild has reached
    phase,          \* between files, at a statement, or in reachable
    seen,           \* reachable's seen
    stack,          \* reachable's stack
    reported,       \* statements reported as closing a cycle, as <<file, n>>
    cleared         \* statements looked at and not reported

input == <<program, ignoreTypes>>
vars == <<input, visited, self, at, phase, seen, stack, reported, cleared>>

Statement(f, n) == program[f][n]
StatementsOf(f) == 1..Len(program[f])

(* importSpecifier strips type-only declarations when told to.             *)
IsEdge(f, s) ==
    /\ s.target \notin {None, f}
    /\ ~(ignoreTypes /\ s.typeOnly)

(* Mutant: type-only imports are edges, too.                               *)
DepsWithTypes(f) ==
    {Statement(f, n).target : n \in {m \in StatementsOf(f) :
        Statement(f, m).target \notin {None, f}}}

(* buildEdges.                                                             *)
Deps(f) == {Statement(f, n).target : n \in {m \in StatementsOf(f) : IsEdge(f, Statement(f, m))}}

-----------------------------------------------------------------------------
Init ==
    /\ program \in [Files -> UNION {[1..n -> Statements] : n \in 0..MaxStatements}]
    /\ ignoreTypes \in BOOLEAN
    /\ visited = {}
    /\ self = None
    /\ at = 1
    /\ phase = "file"
    /\ seen = {}
    /\ stack = {}
    /\ reported = {}
    /\ cleared = {}

(* The engine dispatches the next file's KindSourceFile node.              *)
Visit(f) ==
    /\ phase = "file"
    /\ f \notin visited
    /\ self' = f
    /\ at' = 1
    /\ phase' = "statement"
    /\ UNCHANGED <<input, visited, seen, stack, reported, cleared>>

FileEnds ==
    /\ phase' = "file"
    /\ visited' = visited \cup {self}
    /\ UNCHANGED at

(* A callback that returns true ends ForEachChild, and visit's callback    *)
(* returns true from each of its three returns.                            *)
CallbackResult == TRUE

AfterStatement ==
    /\ IF CallbackResult THEN FileEnds
       ELSE /\ phase' = "statement"
            /\ at' = at + 1
            /\ UNCHANGED visited
    /\ UNCHANGED <<input, self>>

NoMoreStatements ==
    /\ phase = "statement"
    /\ at > Len(program[self])
    /\ FileEnds
    /\ UNCHANGED <<input, self, seen, stack, reported, cleared>>

Pass == cleared' = cleared \cup {<<self, at>>} /\ UNCHANGED reported

(* No specifier, or it is stripped, unresolved, or a self-import.          *)
Skip ==
    /\ phase = "statement"
    /\ at \in StatementsOf(self)
    /\ ~IsEdge(self, Statement(self, at))
    /\ Pass
    /\ AfterStatement
    /\ UNCHANGED <<seen, stack>>

(* reachable(edges, target, self).                                         *)
Search ==
    /\ phase = "statement"
    /\ at \in StatementsOf(self)
    /\ IsEdge(self, Statement(self, at))
    /\ seen' = {Statement(self, at).target}
    /\ stack' = Deps(Statement(self, at).target)
    /\ phase' = "search"
    /\ UNCHANGED <<input, visited, self, at, reported, cleared>>

Found ==
    /\ phase = "search"
    /\ self \in stack
    /\ reported' = reported \cup {<<self, at>>}
    /\ AfterStatement
    /\ UNCHANGED <<seen, stack, cleared>>

PopSeen(f) ==
    /\ phase = "search"
    /\ f \in stack \ {self}
    /\ f \in seen
    /\ stack' = stack \ {f}
    /\ UNCHANGED <<input, visited, self, at, phase, seen, reported, cleared>>

(* Mutant: what waited on the stack is lost.                               *)
ExpandReplacing(f) ==
    /\ phase = "search"
    /\ f \in stack \ {self}
    /\ f \notin seen
    /\ seen' = seen \cup {f}
    /\ stack' = Deps(f)
    /\ UNCHANGED <<input, visited, self, at, phase, reported, cleared>>

Expand(f) ==
    /\ phase = "search"
    /\ f \in stack \ {self}
    /\ f \notin seen
    /\ seen' = seen \cup {f}
    /\ stack' = (stack \ {f}) \cup Deps(f)
    /\ UNCHANGED <<input, visited, self, at, phase, reported, cleared>>

Exhausted ==
    /\ phase = "search"
    /\ stack = {}
    /\ Pass
    /\ AfterStatement
    /\ UNCHANGED <<seen, stack>>

Next ==
    \/ \E f \in Files : Visit(f) \/ PopSeen(f) \/ Expand(f)
    \/ NoMoreStatements \/ Skip \/ Search \/ Found \/ Exhausted

Spec == Init /\ [][Next]_vars

-----------------------------------------------------------------------------
TypeOK ==
    /\ program \in [Files -> Seq(Statements)]
    /\ ignoreTypes \in BOOLEAN
    /\ visited \subseteq Files
    /\ self \in Files \cup {None}
    /\ at \in Nat \ {0}
    /\ phase \in {"file", "statement", "search"}
    /\ seen \subseteq Files
    /\ stack \subseteq Files
    /\ reported \subseteq Files \X Nat
    /\ cleared \subseteq Files \X Nat

(* f imports g with a declaration that exists at run time, or with any     *)
(* declaration when types are not ignored.                                 *)
Imports(f, g) ==
    \E n \in StatementsOf(f) :
        /\ Statement(f, n).target = g
        /\ g \notin {f, None}
        /\ ignoreTypes => ~Statement(f, n).typeOnly

Closed(S) == \A f \in S, g \in Files : Imports(f, g) => g \in S

(* Every closed set with g in it has f in it: a chain of imports leads     *)
(* from g to f.                                                            *)
Reaches(g, f) == \A S \in SUBSET Files : g \in S /\ Closed(S) => f \in S

(* The n-th statement of f imports a file from which imports lead back.    *)
ClosesCycle(f, n) ==
    LET g == Statement(f, n).target
    IN  g \in Files /\ Imports(f, g) /\ IsEdge(f, Statement(f, n)) /\ Reaches(g, f)

(* What is reported is part of a cycle of imports the option leaves in.    *)
ReportsAreCycles ==
    \A r \in reported : r[2] \in StatementsOf(r[1]) /\ ClosesCycle(r[1], r[2])

(* What the rule looked at and did not report is part of no such cycle.    *)
NoCycleIsCleared == \A c \in cleared : ~ClosesCycle(c[1], c[2])

(* rule.go:10-11: "The rule walks every ImportDeclaration and              *)
(* side-effecting ExportDeclaration ... in the current file".              *)
EveryCycleIsReported ==
    visited = Files =>
        \A f \in Files : \A n \in StatementsOf(f) : ClosesCycle(f, n) => <<f, n>> \in reported
=============================================================================
