------------------------- MODULE ImportCyclesProofs -------------------------
(***************************************************************************)
(* reachable decides reachability: what it reports is a cycle, and what it *)
(* clears is not, in every program.                                        *)
(*                                                                         *)
(* The argument is that of every graph search.  Everything on the stack    *)
(* and in seen can be reached from the target of the search, and whatever  *)
(* a seen file imports is seen or on the stack; once the stack is empty    *)
(* seen is a closed set that has the target in it and the importing file   *)
(* outside it.                                                             *)
(***************************************************************************)
EXTENDS ImportCycles, TLAPS

Target == Statement(self, at).target

(* What holds in the middle of a call of reachable.                        *)
SearchInv ==
    phase = "search" =>
        /\ at \in StatementsOf(self)
        /\ IsEdge(self, Statement(self, at))
        /\ Target \in seen
        /\ self \notin seen
        /\ \A f \in seen \cup stack : Reaches(Target, f)
        /\ \A f \in seen, g \in Files : Imports(f, g) => g \in seen \cup stack

IInv ==
    /\ TypeOK
    /\ phase # "file" => self \in Files
    /\ SearchInv
    /\ ReportsAreCycles
    /\ NoCycleIsCleared

-----------------------------------------------------------------------------
(* What a specifier resolves to.                                           *)
LEMMA TargetType ==
    ASSUME TypeOK, NEW f \in Files, NEW n \in StatementsOf(f)
    PROVE  Statement(f, n).target \in Files \cup {None}
<1>1. program[f] \in Seq(Statements)
  BY DEF TypeOK
<1>2. n \in 1..Len(program[f])
  BY DEF StatementsOf
<1>3. program[f][n] \in Statements
  BY <1>1, <1>2
<1>4. QED
  BY <1>3 DEF Statements, Statement

(* buildEdges computes the import relation, restricted to the program.     *)
LEMMA DepsAreImports ==
    ASSUME TypeOK, NEW f \in Files
    PROVE  Deps(f) = {g \in Files : Imports(f, g)}
<1>1. \A n \in StatementsOf(f) : Statement(f, n).target \in Files \cup {None}
  BY TargetType
<1>2. ASSUME NEW g \in Deps(f)  PROVE g \in Files /\ Imports(f, g)
  BY <1>1 DEF Deps, Imports, IsEdge
<1>3. ASSUME NEW g \in Files, Imports(f, g)  PROVE g \in Deps(f)
  BY <1>1, <1>3 DEF Deps, Imports, IsEdge
<1>4. QED
  BY <1>2, <1>3

LEMMA ReachesItself == ASSUME NEW f \in Files PROVE Reaches(f, f)
BY DEF Reaches

LEMMA ReachesOnward ==
    ASSUME NEW e \in Files, NEW f \in Files, NEW g \in Files,
           Reaches(e, f), Imports(f, g)
    PROVE  Reaches(e, g)
BY DEF Reaches, Closed

(* An edge that the search starts from is one of the import relation.      *)
LEMMA EdgesAreImports ==
    ASSUME TypeOK, NEW f \in Files, NEW n \in StatementsOf(f), IsEdge(f, Statement(f, n))
    PROVE  /\ Statement(f, n).target \in Files
           /\ Statement(f, n).target # f
           /\ Imports(f, Statement(f, n).target)
<1>1. Statement(f, n).target \in Files \cup {None}
  BY TargetType
<1>2. QED
  BY <1>1 DEF IsEdge, Imports

(* The graph does not change under the search.                             *)
LEMMA SameGraph ==
    ASSUME UNCHANGED input
    PROVE  /\ \A f, n : ClosesCycle(f, n)' <=> ClosesCycle(f, n)
           /\ \A f, g : Imports(f, g)' <=> Imports(f, g)
           /\ \A f, g : Reaches(f, g)' <=> Reaches(f, g)
           /\ \A f : StatementsOf(f)' = StatementsOf(f)
           /\ \A f, s : IsEdge(f, s)' <=> IsEdge(f, s)
           /\ \A f, n : Statement(f, n)' = Statement(f, n)
<1>1. program' = program /\ ignoreTypes' = ignoreTypes
  BY DEF input
<1>2. \A f, n : Statement(f, n)' = Statement(f, n)
  BY <1>1 DEF Statement
<1>3. \A f : StatementsOf(f)' = StatementsOf(f)
  BY <1>1 DEF StatementsOf
<1>4. \A f, g : Imports(f, g)' <=> Imports(f, g)
  BY <1>1, <1>2, <1>3 DEF Imports
<1>5. \A S : Closed(S)' <=> Closed(S)
  BY <1>4 DEF Closed
<1>6. \A f, g : Reaches(f, g)' <=> Reaches(f, g)
  BY <1>5 DEF Reaches
<1>7. \A f, s : IsEdge(f, s)' <=> IsEdge(f, s)
  BY <1>1 DEF IsEdge
<1>8. \A f, n : ClosesCycle(f, n)' <=> ClosesCycle(f, n)
  BY <1>2, <1>4, <1>6, <1>7 DEF ClosesCycle
<1>9. QED
  BY <1>2, <1>3, <1>4, <1>6, <1>7, <1>8

-----------------------------------------------------------------------------
LEMMA InitIInv == Init => IInv
<1> SUFFICES ASSUME Init PROVE IInv
  OBVIOUS
<1>1. program \in [Files -> Seq(Statements)]
  <2>1. \A n \in 0..MaxStatements : [1..n -> Statements] \subseteq Seq(Statements)
    BY BoundAssumption
  <2>2. QED
    BY <2>1 DEF Init
<1>2. QED
  BY <1>1 DEF Init, IInv, TypeOK, SearchInv, ReportsAreCycles, NoCycleIsCleared

(* Every step keeps the invariant: only Found, Skip and Exhausted add a    *)
(* verdict, only Search and Expand extend the search.                      *)
LEMMA NextIInv == IInv /\ [Next]_vars => IInv'
<1> SUFFICES ASSUME IInv, [Next]_vars PROVE IInv'
  OBVIOUS
<1> USE NoneAssumption DEF IInv
<1>0. UNCHANGED input
  BY DEF Next, Visit, PopSeen, Expand, NoMoreStatements, FileEnds, Skip, Search, Found,
         Exhausted, AfterStatement, input, vars
<1>1. UNCHANGED <<reported, cleared>> => (ReportsAreCycles /\ NoCycleIsCleared)'
  BY <1>0, SameGraph DEF ReportsAreCycles, NoCycleIsCleared
<1>2. TypeOK => program' \in [Files -> Seq(Statements)] /\ ignoreTypes' \in BOOLEAN
  BY <1>0 DEF TypeOK, input
<1>3. CASE UNCHANGED vars
  <2>1. SearchInv'
    BY <1>0, <1>3, SameGraph DEF SearchInv, Target, vars
  <2>2. QED
    BY <1>1, <1>2, <1>3, <2>1 DEF vars, TypeOK
<1>4. ASSUME NEW f \in Files, Visit(f)  PROVE IInv'
  BY <1>1, <1>2, <1>4 DEF Visit, TypeOK, SearchInv
<1>5. CASE NoMoreStatements
  BY <1>1, <1>2, <1>5 DEF NoMoreStatements, FileEnds, TypeOK, SearchInv
<1>6. CASE Skip
  <2>1. TypeOK' /\ phase' = "file"
    BY <1>2, <1>6 DEF Skip, Pass, AfterStatement, CallbackResult, FileEnds, TypeOK, StatementsOf
  <2>2. ~ClosesCycle(self, at)
    BY <1>6 DEF Skip, ClosesCycle
  <2>3. NoCycleIsCleared' /\ ReportsAreCycles'
    BY <1>0, <1>6, <2>2, SameGraph DEF Skip, Pass, NoCycleIsCleared, ReportsAreCycles
  <2>4. QED
    BY <2>1, <2>3 DEF SearchInv
<1>7. CASE Search
  <2>1. /\ self \in Files
        /\ at \in StatementsOf(self)
        /\ IsEdge(self, Statement(self, at))
    BY <1>7 DEF Search
  <2>2. Target \in Files /\ Target # self
    BY <2>1, EdgesAreImports DEF Target
  <2>3. stack' = {g \in Files : Imports(Target, g)} /\ seen' = {Target}
    BY <1>7, <2>2, DepsAreImports DEF Search, Target
  <2>4. TypeOK'
    BY <1>2, <1>7, <2>2, <2>3 DEF Search, TypeOK
  <2>5. \A g \in seen' \cup stack' : Reaches(Target, g)
    BY <2>2, <2>3, ReachesItself, ReachesOnward
  <2>6. Target' = Target
    BY <1>0, <1>7, SameGraph DEF Search, Target
  <2>7. SearchInv'
    BY <1>0, <1>7, <2>1, <2>2, <2>3, <2>5, <2>6, SameGraph DEF Search, SearchInv
  <2>8. QED
    BY <1>1, <1>7, <2>4, <2>7, <2>1 DEF Search
<1>8. CASE Found
  <2>1. TypeOK' /\ phase' = "file"
    BY <1>2, <1>8 DEF Found, AfterStatement, CallbackResult, FileEnds, TypeOK
  <2>2. at \in StatementsOf(self) /\ ClosesCycle(self, at)
    BY <1>8, EdgesAreImports DEF Found, SearchInv, ClosesCycle, Target, TypeOK
  <2>3. NoCycleIsCleared' /\ ReportsAreCycles'
    BY <1>0, <1>8, <2>2, SameGraph DEF Found, NoCycleIsCleared, ReportsAreCycles
  <2>4. QED
    BY <2>1, <2>3 DEF SearchInv
<1>9. ASSUME NEW f \in Files, PopSeen(f)  PROVE IInv'
  <2>1. TypeOK'
    BY <1>2, <1>9 DEF PopSeen, TypeOK
  <2>2. Target' = Target
    BY <1>0, <1>9, SameGraph DEF PopSeen, Target
  <2>3. SearchInv'
    BY <1>0, <1>9, <2>2, SameGraph DEF PopSeen, SearchInv
  <2>4. QED
    BY <1>1, <1>9, <2>1, <2>3 DEF PopSeen
<1>10. ASSUME NEW f \in Files, Expand(f)  PROVE IInv'
  <2>1. Deps(f) = {g \in Files : Imports(f, g)}
    BY DepsAreImports
  <2>2. TypeOK'
    BY <1>2, <1>10, <2>1 DEF Expand, TypeOK
  <2>3. Target' = Target
    BY <1>0, <1>10, SameGraph DEF Expand, Target
  <2>4. Target \in Files
    BY <1>10 DEF Expand, SearchInv, TypeOK
  <2>5. \A g \in seen' \cup stack' : Reaches(Target, g)
    BY <1>10, <2>1, <2>4, ReachesOnward DEF Expand, SearchInv
  <2>6. \A e \in seen', g \in Files : Imports(e, g) => g \in seen' \cup stack'
    BY <1>10, <2>1 DEF Expand, SearchInv
  <2>7. SearchInv'
    BY <1>0, <1>10, <2>3, <2>5, <2>6, SameGraph DEF Expand, SearchInv
  <2>8. QED
    BY <1>1, <1>10, <2>2, <2>7 DEF Expand
<1>11. CASE Exhausted
  <2>1. TypeOK' /\ phase' = "file"
    BY <1>2, <1>11 DEF Exhausted, Pass, AfterStatement, CallbackResult, FileEnds, TypeOK,
                       SearchInv, StatementsOf
  <2>2. Closed(seen) /\ Target \in seen /\ self \notin seen /\ seen \in SUBSET Files
    BY <1>11 DEF Exhausted, SearchInv, Closed, TypeOK
  <2>3. ~ClosesCycle(self, at)
    BY <2>2 DEF ClosesCycle, Reaches, Target
  <2>4. NoCycleIsCleared' /\ ReportsAreCycles'
    BY <1>0, <1>11, <2>3, SameGraph DEF Exhausted, Pass, NoCycleIsCleared, ReportsAreCycles
  <2>5. QED
    BY <2>1, <2>4 DEF SearchInv
<1>12. QED
  BY <1>3, <1>4, <1>5, <1>6, <1>7, <1>8, <1>9, <1>10, <1>11 DEF Next

-----------------------------------------------------------------------------
(* The invariant of every graph search holds of reachable.                 *)
THEOREM SearchInvariant == Spec => []IInv
<1>1. QED
  BY InitIInv, NextIInv, PTL DEF Spec

(* The variables keep their types: the stack and what was seen hold files  *)
(* of the program only.                                                    *)
THEOREM TypeCorrect == Spec => []TypeOK
<1>1. IInv => TypeOK
  BY DEF IInv, SearchInv
<1>2. QED
  BY <1>1, SearchInvariant, PTL

(* In every program, what the rule reports closes a cycle.                 *)
THEOREM ReportsAreRight == Spec => []ReportsAreCycles
<1>1. IInv => ReportsAreCycles
  BY DEF IInv
<1>2. QED
  BY <1>1, SearchInvariant, PTL

(* In every program, a statement the rule looked at and passed closes no   *)
(* cycle.                                                                  *)
THEOREM ClearancesAreRight == Spec => []NoCycleIsCleared
<1>1. IInv => NoCycleIsCleared
  BY DEF IInv
<1>2. QED
  BY <1>1, SearchInvariant, PTL
=============================================================================
