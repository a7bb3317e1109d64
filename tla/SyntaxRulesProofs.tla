-------------------------- MODULE SyntaxRulesProofs --------------------------
(***************************************************************************)
(* Two groups of rules that only look at the tree, whatever they are       *)
(* shown: the two rules on hooks report what React would get wrong, for    *)
(* any callback and list and a hook call at any depth; the seven rules on  *)
(* scopes agree with the scopes of the language, for chains, frames and    *)
(* declarations of any length.                                             *)
(*                                                                         *)
(* What a handler reports is a function of the node, so the invariants     *)
(* only say that once it has run the reports are that function's value.    *)
(* The work is in the lemmas that compare the value with the program.      *)
(***************************************************************************)
EXTENDS Hooks, ScopeRules, TLAPS, FiniteSetTheorems, SequenceTheorems, WellFoundedInduction

(* A set of numbers that has an element has a least one.                   *)
LEMMA LeastElement ==
    ASSUME NEW T, T \subseteq Nat, T # {}
    PROVE  \E n \in T : \A m \in T : n <= m
<1>1. PICK n \in T : \A m \in T : <<m, n>> \notin OpToRel(<, Nat)
  BY WFMin, NatLessThanWellFounded
<1>2. \A m \in T : ~(m < n)
  BY <1>1 DEF OpToRel
<1> QED
  BY <1>2

(* Min and Max of positions in a sequence are the first and the last.      *)
LEMMA FirstPosition ==
    ASSUME NEW T, T \subseteq Nat, T # {}
    PROVE  Min(T) \in T /\ \A m \in T : Min(T) <= m
BY LeastElement, Zenon DEF Min

(* The same from the other end, within a bound.                            *)
LEMMA LastPosition ==
    ASSUME NEW N \in Nat, NEW T, T \subseteq 0..N, T # {}
    PROVE  Max(T) \in T /\ \A m \in T : Max(T) >= m
<1> DEFINE D == {N - m : m \in T}
<1>1. D \subseteq Nat /\ D # {}
  <2>1. \A m \in T : N - m \in Nat
    OBVIOUS
  <2> QED
    BY <2>1
<1>2. PICK d \in D : \A e \in D : d <= e
  BY <1>1, LeastElement
<1>3. PICK n \in T : d = N - n
  OBVIOUS
<1>4. \A m \in T : n >= m
  <2>1. SUFFICES ASSUME NEW m \in T
                 PROVE  n >= m
    OBVIOUS
  <2>2. d <= N - m
    BY <1>2
  <2> QED
    BY <1>3, <2>2
<1> QED
  BY <1>4, Zenon DEF Max

-----------------------------------------------------------------------------
(* What the first rule's reports stand for: the handler has looked at the  *)
(* list, and each report is one of the four complaints about it.           *)
LooksAt(n) ==
    /\ IsReactiveHook(n) /\ HookIsFromReact(n) /\ HasCallback(n)
    /\ ~SuppressedNames(n).all /\ IsList(Arguments(n)[2])

LEMMA ComplaintsOfTheList ==
    ASSUME NEW n
    PROVE  /\ \A x : <<"missing", x>> \in VisitHook(n) => x \in Missing(n)
           /\ \A i : <<"unused", i>> \in VisitHook(n) => i \in UnusedEntries(n)
           /\ \A r \in VisitHook(n) : r[1] = "missing" => r = <<"missing", r[2]>>
           /\ LooksAt(n) => /\ \A x \in Missing(n) : <<"missing", x>> \in VisitHook(n)
                            /\ \A i : <<"repeated", i>> \in VisitHook(n) <=> i \in Repeated(n)
           /\ VisitHook(n) # {} /\ <<"not a list">> \notin VisitHook(n) => LooksAt(n)
<1> DEFINE M == {<<"missing", x>> : x \in Missing(n)}
           U == {<<"unused", i>> : i \in UnusedEntries(n)}
           S == {<<"unstable", i>> : i \in Unstable(n)}
           R == {<<"repeated", i>> : i \in Repeated(n)}
<1>1. /\ \A x : <<"missing", x>> \in M \cup U \cup S \cup R <=> x \in Missing(n)
      /\ \A i : <<"unused", i>> \in M \cup U \cup S \cup R <=> i \in UnusedEntries(n)
      /\ \A i : <<"repeated", i>> \in M \cup U \cup S \cup R <=> i \in Repeated(n)
      /\ \A r \in M \cup U \cup S \cup R : r[1] = "missing" => r = <<"missing", r[2]>>
  OBVIOUS
<1>2. /\ \A x : <<"missing", x>> \notin {<<"not a list">>}
      /\ \A i : <<"unused", i>> \notin {<<"not a list">>}
      /\ \A r \in {<<"not a list">>} : r[1] # "missing"
  OBVIOUS
<1>3. /\ LooksAt(n) => VisitHook(n) = M \cup U \cup S \cup R
      /\ ~LooksAt(n) => VisitHook(n) \in {{}, {<<"not a list">>}}
  <2> HIDE DEF M, U, S, R
  <2>1. VisitHook(n) =
          IF ~(IsReactiveHook(n) /\ HookIsFromReact(n) /\ HasCallback(n)) \/ SuppressedNames(n).all THEN {}
          ELSE IF ~IsList(Arguments(n)[2]) THEN {<<"not a list">>} ELSE M \cup U \cup S \cup R
    BY DEF VisitHook, M, U, S, R
  <2> QED
    BY <2>1 DEF LooksAt
<1> HIDE DEF M, U, S, R
<1>4. CASE LooksAt(n)
  BY <1>1, <1>3, <1>4
<1>5. CASE ~LooksAt(n)
  BY <1>2, <1>3, <1>5
<1> QED
  BY <1>4, <1>5

(* A name reported as missing is captured and may differ from render to    *)
(* render, unless the rule is known to be overcautious about it.           *)
LEMMA MissingNamesAreCaptured ==
    ASSUME NEW n, IsDependencyCall(n), NEW name \in Missing(n)
    PROVE  /\ name \notin Heads(n)
           /\ \/ name \in Captured(n) /\ (Varies(n, name) \/ Overcautious(n, name))
              \/ name \in TakenForCaptures(n)
<1>1. /\ name \in FreeIdentifiers(n)
      /\ name \notin StableNames(n) \cup LiteralConstNames(n) \cup Heads(n)
  BY DEF Missing, Accounted
<1>2. SUFFICES ASSUME name \notin TakenForCaptures(n)
               PROVE  name \in Captured(n) /\ (Varies(n, name) \/ Overcautious(n, name))
  BY <1>1
<1>3. name \in Captured(n)
  <2>1. PICK u \in Range(n.uses) : u.name = name /\ u.place = "read"
    BY <1>1, <1>2 DEF FreeIdentifiers, TakenForCaptures, IsReferencing
  <2>2. ~BoundInside(n, u)
    BY <1>1, <1>2, <2>1 DEF BoundInside, FreeIdentifiers, LocalNames, TakenForCaptures, IsDependencyCall
  <2> QED
    BY <2>1, <2>2 DEF Captured
<1>4. Varies(n, name) \/ Overcautious(n, name)
  <2>1. CASE DeclaredBy(n, name) = {}
    BY <2>1 DEF Varies, Overcautious
  <2>2. ASSUME NEW d \in DeclaredBy(n, name)
        PROVE  Varies(n, name) \/ Overcautious(n, name)
    <3>1. d \in n.decls /\ d.name = name /\ ~d.inner
      BY DEF DeclaredBy
    <3>2. CASE d.how \in {"setter", "ref"}
      <4>1. name \in n.reassigned
        BY <1>1, <3>1, <3>2 DEF StableNames, StableHows
      <4> QED
        BY <4>1 DEF Varies, Overcautious
    <3>3. CASE d.how = "literal"
      <4>1. ~d.const \/ d.wrap # "none"
        BY <1>1, <3>1, <3>3 DEF LiteralConstNames, IsStableInitializer
      <4> QED
        BY <3>3, <4>1 DEF Overcautious
    <3>4. CASE d.how = "module member"
      <4>1. ~d.const
        BY <1>1, <3>1, <3>4 DEF LiteralConstNames, IsStableInitializer
      <4> QED
        BY <3>4, <4>1 DEF Overcautious
    <3>5. CASE d.how \notin {"literal", "module member", "setter", "ref"}
      BY <3>5 DEF Varies
    <3> QED
      BY <3>2, <3>3, <3>4, <3>5
  <2> QED
    BY <2>1, <2>2
<1> QED
  BY <1>1, <1>3, <1>4

(* What a callback captures is free in it, unless it is known to be        *)
(* confused with another binding or not to count as a use.                 *)
LEMMA CapturedNamesAreFree ==
    ASSUME NEW n, NEW name \in Captured(n), ~Confused(n, name), ~OnlyInitializes(n, name)
    PROVE  name \in FreeIdentifiers(n)
<1>1. PICK u \in Range(n.uses) : u.name = name /\ ~BoundInside(n, u)
  BY DEF Captured
<1>2. PICK v \in Range(n.uses) : v.name = name /\ v.place = "read"
  BY DEF OnlyInitializes
<1>3. name \notin LocalNames(n)
  BY <1>1 DEF LocalNames, BoundInside, Confused
<1> QED
  BY <1>2, <1>3 DEF FreeIdentifiers, IsReferencing

(* A captured name that may differ is listed or missing.                   *)
LEMMA VaryingNamesAreListed ==
    ASSUME NEW n, IsDependencyCall(n), Checked(n), NEW name \in Captured(n),
           Varies(n, name), ~Confused(n, name), ~OnlyInitializes(n, name)
    PROVE  name \in Heads(n) \cup Missing(n)
<1>1. name \in FreeIdentifiers(n)
  BY CapturedNamesAreFree
<1>2. name \notin n.globals \cup n.module \cup SuppressedNames(n).names
  <2>1. SuppressedNames(n).names = {}
    BY DEF Checked
  <2> QED
    BY <2>1 DEF Confused
<1>3. ASSUME NEW d \in n.decls, d.name = name, ~d.inner
      PROVE  \/ name \in n.reassigned /\ ~d.const
             \/ d.how \notin {"literal", "module member", "setter", "ref"}
  <2>1. name \notin n.params
    BY <1>3 DEF IsDependencyCall
  <2>2. \A e \in DeclaredBy(n, name) : e = d
    BY <1>3 DEF IsDependencyCall, DeclaredBy
  <2>3. d \in DeclaredBy(n, name)
    BY <1>3 DEF DeclaredBy
  <2> QED
    BY <2>1, <2>2, <2>3, Zenon DEF Varies
<1>4. name \notin StableNames(n)
  <2>1. SUFFICES ASSUME NEW d \in n.decls, d.name = name, d.how \in StableHows, name \notin n.reassigned
                 PROVE  FALSE
    BY DEF StableNames
  <2>2. ~d.inner /\ d.how # "ref of another hook"
    BY <2>1 DEF Confused
  <2> QED
    BY <1>3, <2>1, <2>2 DEF StableHows
<1>5. name \notin LiteralConstNames(n)
  <2>1. SUFFICES ASSUME NEW d \in n.decls, d.name = name, ~d.inner, d.const,
                        d.how \in {"literal", "regex", "module member"}
                 PROVE  FALSE
    BY DEF LiteralConstNames, IsStableInitializer
  <2>2. d.how # "regex"
    BY <2>1 DEF Confused
  <2> QED
    BY <1>3, <2>1, <2>2
<1> QED
  BY <1>1, <1>2, <1>4, <1>5 DEF Missing, Accounted

(* An entry reported as unused is of no use.                               *)
LEMMA UnusedEntriesAreSuperfluous ==
    ASSUME NEW n, NEW i \in UnusedEntries(n)
    PROVE  \/ n.deps[i].head \notin Captured(n)
           \/ Confused(n, n.deps[i].head) \/ OnlyInitializes(n, n.deps[i].head)
<1>1. n.deps[i].head \notin FreeIdentifiers(n)
  BY DEF UnusedEntries
<1> QED
  BY <1>1, CapturedNamesAreFree

(* The elements that have a larger and no smaller one: the least of a set  *)
(* of numbers, unless it is the only one.                                  *)
LEMMA OneOfSeveral ==
    ASSUME NEW S, S \subseteq Nat, IsFiniteSet(S), S # {}
    PROVE  Cardinality({j \in S : (\E k \in S : k > j) /\ (\A k \in S : ~(k < j))})
             = IF Cardinality(S) > 1 THEN 1 ELSE 0
<1> DEFINE chosen == {j \in S : (\E k \in S : k > j) /\ (\A k \in S : ~(k < j))}
<1>1. PICK least \in S : \A k \in S : least <= k
  BY LeastElement
<1>2. least \in Nat /\ \A k \in S : k \in Nat
  OBVIOUS
<1>3. Cardinality(S) \in Nat /\ Cardinality(S) # 0
  BY FS_CardinalityType, FS_EmptySet
<1>4. CASE \E k \in S : k # least
  <2>1. chosen = {least}
    <3>1. least \in chosen
      <4>1. PICK k \in S : k # least
        BY <1>4
      <4>2. k > least
        BY <1>1, <1>2, <4>1
      <4>3. \A m \in S : ~(m < least)
        BY <1>1, <1>2
      <4> QED
        BY <4>2, <4>3
    <3>2. ASSUME NEW j \in chosen
          PROVE  j = least
      BY <1>1, <1>2
    <3> QED
      BY <3>1, <3>2
  <2>2. Cardinality(chosen) = 1
    BY <2>1, FS_Singleton
  <2>3. \A x : S # {x}
    BY <1>4
  <2>4. Cardinality(S) # 1
    BY <2>3, FS_Singleton
  <2> HIDE DEF chosen
  <2>5. Cardinality(S) > 1
    BY <1>3, <2>4
  <2>6. Cardinality(chosen) = IF Cardinality(S) > 1 THEN 1 ELSE 0
    BY <2>2, <2>5
  <2> QED
    BY <2>6 DEF chosen
<1>5. CASE \A k \in S : k = least
  <2>1. chosen = {}
    BY <1>1, <1>2, <1>5
  <2>2. Cardinality(chosen) = 0
    BY <2>1, FS_EmptySet
  <2>3. S = {least}
    BY <1>5
  <2>4. Cardinality(S) = 1
    BY <2>3, FS_Singleton
  <2> HIDE DEF chosen
  <2>5. Cardinality(chosen) = IF Cardinality(S) > 1 THEN 1 ELSE 0
    BY <2>2, <2>4
  <2> QED
    BY <2>5 DEF chosen
<1> QED
  BY <1>4, <1>5

(* Every set of positions up to a bound is finite.                         *)
LEMMA FiniteInterval ==
    ASSUME NEW N \in Nat, NEW S, S \subseteq 1..N
    PROVE  S \subseteq Nat /\ IsFiniteSet(S)
<1>1. IsFiniteSet(1..N)
  BY FS_Interval
<1>2. IsFiniteSet(S)
  BY <1>1, FS_Subset
<1> QED
  BY <1>2

(* The entries that are written as the i-th is.                            *)
Alike(n, i) == {j \in DOMAIN n.deps : n.deps[j] = n.deps[i]}

(* Of the entries that are written alike one is reported as repeated,      *)
(* unless there is only one.                                               *)
LEMMA OneOfAllIsRepeated ==
    ASSUME NEW n, IsDependencyCall(n), NEW i \in DOMAIN n.deps, n.deps[i].head # ""
    PROVE  Cardinality({j \in Alike(n, i) : j \in Repeated(n)})
             = IF Cardinality(Alike(n, i)) > 1 THEN 1 ELSE 0
<1>1. /\ DOMAIN n.deps = 1..Len(n.deps)
      /\ Len(n.deps) \in Nat
      /\ \A j \in DOMAIN n.deps : n.deps[j] \in [head : STRING, path : STRING]
  <2>1. n.deps \in Seq([head : STRING, path : STRING])
    BY DEF IsDependencyCall
  <2> QED
    BY <2>1, LenProperties
<1>2. ASSUME NEW j \in DOMAIN n.deps
      PROVE  n.deps[j].path = n.deps[i].path <=> j \in Alike(n, i)
  <2>1. n.deps[j].path = n.deps[i].path => n.deps[j].head = n.deps[i].head
    BY DEF IsDependencyCall
  <2>2. /\ n.deps[j] = [head |-> n.deps[j].head, path |-> n.deps[j].path]
        /\ n.deps[i] = [head |-> n.deps[i].head, path |-> n.deps[i].path]
    BY <1>1
  <2> QED
    BY <2>1, <2>2 DEF Alike
<1>3. Alike(n, i) \subseteq DepEntries(n) /\ i \in Alike(n, i)
  BY DEF DepEntries, Alike
<1>4. ASSUME NEW j \in Alike(n, i)
      PROVE  j \in Repeated(n) <=> (\E k \in Alike(n, i) : k > j) /\ (\A k \in Alike(n, i) : ~(k < j))
  <2>1. \A k \in DepEntries(n) : n.deps[k].path = n.deps[j].path <=> k \in Alike(n, i)
    BY <1>2 DEF DepEntries, Alike
  <2> QED
    BY <1>3, <2>1 DEF Repeated
<1>5. Alike(n, i) \subseteq 1..Len(n.deps)
  BY <1>1 DEF Alike
<1>6. Alike(n, i) \subseteq Nat /\ IsFiniteSet(Alike(n, i))
  BY <1>1, <1>5, FiniteInterval
<1>7. {j \in Alike(n, i) : j \in Repeated(n)}
        = {j \in Alike(n, i) : (\E k \in Alike(n, i) : k > j) /\ (\A k \in Alike(n, i) : ~(k < j))}
  BY <1>4
<1> QED
  BY <1>3, <1>6, <1>7, OneOfSeveral

-----------------------------------------------------------------------------
(* The call around a function that isn't a parenthesis, if there is one.   *)
LEMMA InnermostCall ==
    ASSUME NEW h, h.around \in Seq(STRING)
    PROVE  IF CallsAround(h) = {} THEN ThroughParens(h) = "none"
           ELSE \E i \in DOMAIN h.around : ThroughParens(h) = h.around[i] /\ h.around[i] # "("
<1>1. CallsAround(h) \subseteq Nat
  BY DEF CallsAround
<1>2. CASE CallsAround(h) # {}
  <2> DEFINE least == CHOOSE i \in CallsAround(h) : \A j \in CallsAround(h) : i <= j
  <2>1. least \in CallsAround(h)
    BY <1>1, <1>2, LeastElement
  <2>2. ThroughParens(h) = h.around[least]
    BY <1>2 DEF ThroughParens
  <2> HIDE DEF least
  <2> QED
    BY <1>2, <2>1, <2>2 DEF CallsAround
<1> QED
  BY <1>2 DEF ThroughParens

(* An empty sequence has no elements.                                      *)
LEMMA NothingAround == Range(<<>>) = {}
  BY DEF Range

(* What is refused is no component, or one of the known exceptions.        *)
LEMMA RefusedFunctionsAreNoComponents ==
    ASSUME NEW h, IsFunctionLike(h), ~IsComponentOrHook(h)
    PROVE  \/ ~IsComponent(h) \/ Range(h.around) \ (Wrappers \cup {"("}) # {}
           \/ h.kind = "function expression" /\ h.own # h.name
<1>1. CASE h.kind = "module"
  <2>1. Range(h.around) = {}
    BY <1>1, NothingAround DEF IsFunctionLike
  <2> QED
    BY <1>1, <2>1 DEF IsFunctionLike, IsComponent, IsComponentName, IsHookName
<1>2. CASE h.kind \in {"method", "accessor", "function"}
  <2>1. Range(h.around) = {}
    BY <1>2, NothingAround DEF IsFunctionLike
  <2> QED
    BY <1>2, <2>1 DEF IsFunctionLike, IsComponent, IsComponentOrHook
<1>3. CASE h.kind \in {"arrow", "function expression"}
  <2>1. SUFFICES ASSUME IsComponent(h), Range(h.around) \subseteq Wrappers \cup {"("},
                        h.kind = "function expression" => h.own = h.name
                 PROVE  FALSE
    BY <1>3
  <2>2. ImplicitName(h) = h.name
    BY <2>1 DEF ImplicitName, Range
  <2>3. ~IsComponentName(h.name) /\ ~IsHookName(h.name) /\ ~WrappedAsComponent(h)
    BY <1>3, <2>1, <2>2 DEF IsComponentOrHook
  <2>4. ~IsComponentName(h.own) /\ ~IsHookName(h.own)
    BY <1>3, <2>1, <2>3 DEF IsFunctionLike, IsComponentName, IsHookName
  <2>5. PICK i \in DOMAIN h.around : h.around[i] \in HigherOrder
    BY <2>1, <2>3, <2>4 DEF IsComponent, Range
  <2>6. CallsAround(h) # {}
    BY <2>5 DEF CallsAround, HigherOrder, Wrappers
  <2>7. ThroughParens(h) \in Wrappers
    BY <2>1, <2>6, InnermostCall DEF IsFunctionLike, Range
  <2> QED
    BY <2>3, <2>7 DEF WrappedAsComponent
<1> QED
  BY <1>1, <1>2, <1>3 DEF IsFunctionLike

(* What is accepted is a component, a callback of a test or a short arrow. *)
LEMMA AcceptedFunctionsAreComponents ==
    ASSUME NEW h, IsFunctionLike(h), IsComponentOrHook(h)
    PROVE  IsComponent(h) \/ InsideTestCallback(h) \/ h.concise
<1>1. h.kind # "module"
  BY DEF IsComponentOrHook
<1>2. CASE h.kind \in {"method", "accessor", "function"}
  BY <1>2 DEF IsComponentOrHook, IsComponent
<1>3. CASE h.kind \in {"arrow", "function expression"}
  <2> DEFINE name == IF ImplicitName(h) = "none" /\ h.kind = "function expression" THEN h.own ELSE ImplicitName(h)
  <2>1. \/ IsComponentName(name) \/ IsHookName(name)
        \/ WrappedAsComponent(h) \/ InsideTestCallback(h) \/ h.concise
    BY <1>3 DEF IsComponentOrHook
  <2>2. name \in {h.name, h.own, "none"}
    BY DEF ImplicitName
  <2> HIDE DEF name
  <2>3. CASE IsComponentName(name) \/ IsHookName(name)
    BY <2>2, <2>3 DEF IsComponentName, IsHookName, IsComponent
  <2>4. CASE WrappedAsComponent(h)
    <3>1. PICK i \in DOMAIN h.around : h.around[i] \in Wrappers
      <4>1. ThroughParens(h) # "none"
        BY <2>4 DEF WrappedAsComponent, Wrappers
      <4> QED
        BY <2>4, <4>1, InnermostCall DEF IsFunctionLike, WrappedAsComponent
    <3> QED
      BY <3>1 DEF IsComponent, Range, HigherOrder
  <2> QED
    BY <2>1, <2>3, <2>4
<1> QED
  BY <1>1, <1>2, <1>3 DEF IsFunctionLike

(* The steps that disqualify a call and those that don't.                  *)
LEMMA DisqualifyingSteps ==
    ASSUME NEW p, p \in Seq(Steps)
    PROVE  /\ OnDisqualifyingPath(p) => \E i \in DOMAIN p : p[i] \notin TakenOnce \/ p[i] \in Heading
           /\ ~OnDisqualifyingPath(p) => Range(p) \subseteq (TakenOnce \ Heading) \cup Unnoticed
<1>1. \A i \in DOMAIN p : p[i] \in Steps
  OBVIOUS
<1>2. \A s \in Steps : s \in Branching \cup {"&& right", "try", "catch"}
                           <=> s \notin (TakenOnce \ Heading) \cup Unnoticed
  BY DEF Steps, Branching, TakenOnce, Heading, Unnoticed
<1>3. \A s \in Branching \cup {"&& right", "try", "catch"} : s \notin TakenOnce \/ s \in Heading
  BY DEF Branching, TakenOnce, Heading
<1> QED
  BY <1>1, <1>2, <1>3 DEF OnDisqualifyingPath, Range

-----------------------------------------------------------------------------
(* The rule of a dispatch is fixed, the node is one of its calls, and what *)
(* the handler has reported is what it finds at the node.                  *)
ReportsAreTheHandlers(dependencyCalls, placedCalls) ==
    /\ \/ rule = ExhaustiveId /\ node \in dependencyCalls
       \/ rule = TopLevelId /\ node \in placedCalls
    /\ Visited(ExhaustiveId) => reports = VisitHook(node)
    /\ Visited(TopLevelId) => reports = VisitHookCall(node)

(* use-exhaustive-dependencies, once its handler has run.                  *)
LEMMA DependencyListsAreChecked ==
    ASSUME rule = ExhaustiveId, visited, IsDependencyCall(node), reports = VisitHook(node)
    PROVE  ReportedDependenciesAreMissing /\ QuietCallbacksListWhatTheyUse /\ ReportedEntriesAreSuperfluous
<1>1. ReportedDependenciesAreMissing
  <2>1. ASSUME NEW r \in reports, r[1] = "missing"
        PROVE  r[2] \in Missing(node)
    BY <2>1, ComplaintsOfTheList
  <2> QED
    BY <2>1, MissingNamesAreCaptured DEF ReportedDependenciesAreMissing
<1>2. QuietCallbacksListWhatTheyUse
  <2>1. SUFFICES ASSUME IsReactiveHook(node), HookIsFromReact(node), Checked(node), NEW name \in Captured(node),
                        Varies(node, name), ~Confused(node, name), ~OnlyInitializes(node, name)
                 PROVE  name \in Heads(node) \/ <<"missing", name>> \in reports
    BY DEF QuietCallbacksListWhatTheyUse
  <2>2. LooksAt(node)
    BY <2>1 DEF LooksAt, Checked
  <2>3. name \in Heads(node) \cup Missing(node)
    BY <2>1, VaryingNamesAreListed
  <2> QED
    BY <2>2, <2>3, ComplaintsOfTheList
<1>3. ReportedEntriesAreSuperfluous
  <2>1. SUFFICES ASSUME NEW i \in DOMAIN node.deps
                 PROVE  /\ <<"unused", i>> \in reports =>
                              \/ node.deps[i].head \notin Captured(node)
                              \/ Confused(node, node.deps[i].head) \/ OnlyInitializes(node, node.deps[i].head)
                        /\ (reports # {} /\ <<"not a list">> \notin reports /\ node.deps[i].head # "") =>
                              LET same == {j \in DOMAIN node.deps : node.deps[j] = node.deps[i]}
                              IN  Cardinality({j \in same : <<"repeated", j>> \in reports})
                                    = IF Cardinality(same) > 1 THEN 1 ELSE 0
    BY DEF ReportedEntriesAreSuperfluous
  <2>2. <<"unused", i>> \in reports => i \in UnusedEntries(node)
    BY ComplaintsOfTheList
  <2>3. ASSUME reports # {}, <<"not a list">> \notin reports, node.deps[i].head # ""
        PROVE  Cardinality({j \in Alike(node, i) : <<"repeated", j>> \in reports})
                 = IF Cardinality(Alike(node, i)) > 1 THEN 1 ELSE 0
    <3>1. {j \in Alike(node, i) : <<"repeated", j>> \in reports} = {j \in Alike(node, i) : j \in Repeated(node)}
      BY <2>3, ComplaintsOfTheList
    <3> QED
      BY <2>3, <3>1, OneOfAllIsRepeated
  <2>4. (reports # {} /\ <<"not a list">> \notin reports /\ node.deps[i].head # "") =>
          LET same == {j \in DOMAIN node.deps : node.deps[j] = node.deps[i]}
          IN  Cardinality({j \in same : <<"repeated", j>> \in reports}) = IF Cardinality(same) > 1 THEN 1 ELSE 0
    BY <2>3 DEF Alike
  <2> QED
    BY <2>2, <2>4, UnusedEntriesAreSuperfluous
<1> QED
  BY <1>1, <1>2, <1>3

(* use-hook-at-top-level, once its handler has run.                        *)
LEMMA PlacesAreChecked ==
    ASSUME rule = TopLevelId, visited, IsPlacedCall(node), reports = VisitHookCall(node)
    PROVE  HookCallsAreAtTheTop
<1>1. SUFFICES ASSUME IsHookCall(node)
               PROVE  /\ "conditional" \in reports =>
                            \E i \in DOMAIN node.path : node.path[i] \notin TakenOnce \/ node.path[i] \in Heading
                      /\ reports = {} => Range(node.path) \subseteq (TakenOnce \ Heading) \cup Unnoticed
                      /\ "not React" \in reports =>
                            \/ ~IsComponent(node.host) \/ Range(node.host.around) \ (Wrappers \cup {"("}) # {}
                            \/ node.host.kind = "function expression" /\ node.host.own # node.host.name
                      /\ reports = {} =>
                            IsComponent(node.host) \/ InsideTestCallback(node.host) \/ node.host.concise
  BY DEF HookCallsAreAtTheTop
<1>2. /\ ~IsComponentOrHook(node.host) => reports = {"not React"}
      /\ IsComponentOrHook(node.host) /\ OnDisqualifyingPath(node.path) => reports = {"conditional"}
      /\ IsComponentOrHook(node.host) /\ ~OnDisqualifyingPath(node.path) => reports = {}
  BY <1>1 DEF VisitHookCall
<1>3. IsFunctionLike(node.host) /\ node.path \in Seq(Steps)
  BY DEF IsPlacedCall
<1>4. CASE ~IsComponentOrHook(node.host)
  <2>1. reports = {"not React"}
    BY <1>2, <1>4
  <2> QED
    BY <1>3, <1>4, <2>1, RefusedFunctionsAreNoComponents
<1>5. CASE IsComponentOrHook(node.host) /\ OnDisqualifyingPath(node.path)
  <2>1. reports = {"conditional"}
    BY <1>2, <1>5
  <2> QED
    BY <1>3, <1>5, <2>1, DisqualifyingSteps
<1>6. CASE IsComponentOrHook(node.host) /\ ~OnDisqualifyingPath(node.path)
  <2>1. reports = {}
    BY <1>2, <1>6
  <2> QED
    BY <1>3, <1>6, <2>1, DisqualifyingSteps, AcceptedFunctionsAreComponents
<1> QED
  BY <1>4, <1>5, <1>6

(* The promise of the two rules (rules/useexhaustivedependencies and       *)
(* rules/usehookattoplevel), for every set of calls a program can contain. *)
THEOREM HooksAreExpected ==
    ASSUME NEW dependencyCalls, \A n \in dependencyCalls : IsDependencyCall(n),
           NEW placedCalls, \A n \in placedCalls : IsPlacedCall(n)
    PROVE  HooksSpec(dependencyCalls, placedCalls) => []HooksRunAsReactExpects
<1> DEFINE Inv == ReportsAreTheHandlers(dependencyCalls, placedCalls)
           Init == Start(ExhaustiveId, dependencyCalls) \/ Start(TopLevelId, placedCalls)
<1>1. Init => Inv
  BY DEF Start, ReportsAreTheHandlers, Visited
<1>2. Inv /\ [HooksNext]_vars => Inv'
  <2>1. SUFFICES ASSUME Inv, [HooksNext]_vars
                 PROVE  Inv'
    OBVIOUS
  <2>2. CASE Dispatch(ExhaustiveId, VisitHook)
    BY <2>1, <2>2 DEF Dispatch, ReportsAreTheHandlers, Visited, ExhaustiveId, TopLevelId
  <2>3. CASE Dispatch(TopLevelId, VisitHookCall)
    BY <2>1, <2>3 DEF Dispatch, ReportsAreTheHandlers, Visited, ExhaustiveId, TopLevelId
  <2>4. CASE UNCHANGED vars
    BY <2>1, <2>4 DEF vars, ReportsAreTheHandlers, Visited
  <2> QED
    BY <2>1, <2>2, <2>3, <2>4 DEF HooksNext
<1>3. Inv => HooksRunAsReactExpects
  <2>1. SUFFICES ASSUME Inv
                 PROVE  HooksRunAsReactExpects
    OBVIOUS
  <2>2. CASE rule = ExhaustiveId /\ visited
    <3>1. HookCallsAreAtTheTop
      BY <2>2 DEF HookCallsAreAtTheTop, Visited, ExhaustiveId, TopLevelId
    <3>2. IsDependencyCall(node) /\ reports = VisitHook(node)
      BY <2>1, <2>2 DEF ReportsAreTheHandlers, Visited, ExhaustiveId, TopLevelId
    <3> QED
      BY <2>2, <3>1, <3>2, DependencyListsAreChecked DEF HooksRunAsReactExpects
  <2>3. CASE rule = TopLevelId /\ visited
    <3>1. ReportedDependenciesAreMissing /\ QuietCallbacksListWhatTheyUse /\ ReportedEntriesAreSuperfluous
      BY <2>3 DEF ReportedDependenciesAreMissing, QuietCallbacksListWhatTheyUse, ReportedEntriesAreSuperfluous,
                  Visited, ExhaustiveId, TopLevelId
    <3>2. IsPlacedCall(node) /\ reports = VisitHookCall(node)
      BY <2>1, <2>3 DEF ReportsAreTheHandlers, Visited, ExhaustiveId, TopLevelId
    <3> QED
      BY <2>3, <3>1, <3>2, PlacesAreChecked DEF HooksRunAsReactExpects
  <2>4. CASE ~visited
    BY <2>4 DEF HooksRunAsReactExpects, ReportedDependenciesAreMissing, QuietCallbacksListWhatTheyUse,
                ReportedEntriesAreSuperfluous, HookCallsAreAtTheTop, Visited
  <2> QED
    BY <2>1, <2>2, <2>3, <2>4 DEF ReportsAreTheHandlers
<1> QED
  BY <1>1, <1>2, <1>3, PTL DEF HooksSpec

-----------------------------------------------------------------------------
(* What is in the rest of a chain.                                         *)
LEMMA RestOfAChain ==
    ASSUME NEW s \in Seq(STRING), NEW i \in 1..(Len(s) + 1)
    PROVE  /\ From(s, i) \in Seq(STRING)
           /\ Len(From(s, i)) = Len(s) - i + 1
           /\ \A k \in 1..Len(From(s, i)) : From(s, i)[k] = s[i + k - 1]
<1>1. \A j \in i..Len(s) : s[j] \in STRING
  BY ElementOfSeq
<1> QED
  BY <1>1, SubSeqProperties DEF From

(* The rest holds a kind where the chain does from there on.               *)
LEMMA HasInTheRest ==
    ASSUME NEW s \in Seq(STRING), NEW i \in 1..(Len(s) + 1), NEW kinds
    PROVE  Has(From(s, i), kinds) <=> \E j \in i..Len(s) : s[j] \in kinds
<1> DEFINE f == From(s, i)
<1>1. /\ f \in Seq(STRING)
      /\ Len(f) = Len(s) - i + 1
      /\ \A k \in 1..Len(f) : f[k] = s[i + k - 1]
  BY RestOfAChain
<1>2. Has(f, kinds) <=> \E k \in 1..Len(f) : f[k] \in kinds
  BY <1>1 DEF Has
<1> HIDE DEF f
<1>3. ASSUME NEW k \in 1..Len(f), f[k] \in kinds
      PROVE  \E j \in i..Len(s) : s[j] \in kinds
  <2>1. i + k - 1 \in i..Len(s) /\ s[i + k - 1] \in kinds
    BY <1>1, <1>3
  <2> QED
    BY <2>1
<1>4. ASSUME NEW j \in i..Len(s), s[j] \in kinds
      PROVE  \E k \in 1..Len(f) : f[k] \in kinds
  <2>1. j - i + 1 \in 1..Len(f)
    BY <1>1
  <2>2. f[j - i + 1] = s[i + (j - i + 1) - 1]
    BY <1>1, <2>1
  <2>3. i + (j - i + 1) - 1 = j
    OBVIOUS
  <2> QED
    BY <1>4, <2>1, <2>2, <2>3
<1> QED
  BY <1>2, <1>3, <1>4 DEF f

(* The rest of a rest.                                                     *)
LEMMA RestOfTheRest ==
    ASSUME NEW s \in Seq(STRING), NEW i \in 1..Len(s)
    PROVE  From(From(s, i), 2) = From(s, i + 1)
<1>1. From(s, i) \in Seq(STRING) /\ Len(From(s, i)) = Len(s) - i + 1
  BY RestOfAChain
<1>2. CASE Len(From(s, i)) = 1
  <2>1. From(From(s, i), 2) = <<>>
    BY <1>1, <1>2, SubSeqEmpty DEF From
  <2>2. From(s, i + 1) = <<>>
    BY <1>1, <1>2, SubSeqEmpty DEF From
  <2> QED
    BY <2>1, <2>2
<1>3. CASE Len(From(s, i)) > 1
  <2>1. \A j \in 1..Len(s) : s[j] \in STRING
    BY ElementOfSeq
  <2>2. SubSeq(SubSeq(s, i, Len(s)), 2, Len(s) - i + 1) = SubSeq(s, i + 2 - 1, i + (Len(s) - i + 1) - 1)
    <3>1. /\ Len(s) \in 1..Len(s)
          /\ 2 \in 1..(Len(s) - i + 1) /\ Len(s) - i + 1 \in 1..(Len(s) - i + 1)
      BY <1>1, <1>3
    <3> QED
      BY <3>1, SubSeqOfSubSeq
  <2>3. i + 2 - 1 = i + 1 /\ i + (Len(s) - i + 1) - 1 = Len(s)
    OBVIOUS
  <2> QED
    BY <1>1, <2>2, <2>3 DEF From
<1> QED
  BY <1>1, <1>2, <1>3

(* What runs at once in all of a chain does so in any rest of it.          *)
LEMMA RestsAreParts ==
    ASSUME NEW s \in Seq(STRING), NEW i \in 1..(Len(s) + 1), NEW kinds, NEW more, kinds \subseteq more, ~Has(s, more)
    PROVE  ~Has(From(s, i), kinds)
<1>1. \A j \in 1..Len(s) : s[j] \notin more
  BY DEF Has
<1>2. \A j \in i..Len(s) : s[j] \notin kinds
  BY <1>1
<1> QED
  BY <1>2, HasInTheRest

-----------------------------------------------------------------------------
(* no-use-before-define.                                                   *)
LEMMA UsesInDeclarations ==
    ASSUME NEW n, IsPlacedUse(n), n.where = "within", ~Has(n.chain, {"with"}), n.form \in {"plain", "new"}
    PROVE  /\ VisitUse(n) # {} => TooEarly(n)
           /\ VisitUse(n) = {} /\ TooEarly(n) => n.decl = "class" /\ Has(From(n.chain, n.depth + 3), {"heritage"})
<1> DEFINE part == n.chain[n.depth + 1]
           inside == From(n.chain, n.depth + 2)
<1>1. /\ n.chain \in Seq(STRING) /\ n.depth \in Nat /\ n.depth < Len(n.chain)
      /\ \/ part \in {"initializer", "iterated"} /\ n.decl \in {"var", "let", "const", "parameter"}
         \/ part = "class" /\ n.decl = "class"
  BY DEF IsPlacedUse
<1>2. VisitUse(n) # {} <=> SelfReference(n)
  BY DEF VisitUse, IsFreeReference
<1>3. TooEarly(n) <=> ~Has(inside, Deferring) /\ (part = "class" => inside # <<>> /\ inside[1] \in {"heritage"} \cup ComputedNames)
  BY DEF TooEarly
<1>4. n.depth + 2 \in 1..(Len(n.chain) + 1)
  BY <1>1
<1>5. CASE part \in {"initializer", "iterated"} /\ n.decl \in {"var", "let", "const", "parameter"}
  <2>1. SelfReference(n) <=> ~Has(inside, Deferring)
    BY <1>5 DEF SelfReference, CrossesDeferredBoundary
  <2> QED
    BY <1>2, <1>3, <1>5, <2>1
<1>6. CASE part = "class" /\ n.decl = "class"
  <2>1. SelfReference(n) <=> IsClassHeritageSelfReference(inside)
    BY <1>6 DEF SelfReference
  <2>2. inside # <<>> => From(inside, 2) = From(n.chain, n.depth + 3)
    <3>1. Len(inside) = Len(n.chain) - (n.depth + 2) + 1 /\ inside \in Seq(STRING)
      BY <1>1, <1>4, RestOfAChain
    <3>2. ASSUME inside # <<>>
          PROVE  n.depth + 2 \in 1..Len(n.chain)
      <4>1. Len(inside) # 0
        BY <3>1, <3>2, EmptySeq
      <4> QED
        BY <1>1, <3>1, <4>1
    <3>3. ASSUME inside # <<>>
          PROVE  From(inside, 2) = From(n.chain, (n.depth + 2) + 1)
      BY <1>1, <3>2, <3>3, RestOfTheRest
    <3>4. (n.depth + 2) + 1 = n.depth + 3
      BY <1>1
    <3> QED
      BY <3>3, <3>4
  <2>3. IsClassHeritageSelfReference(inside) <=>
            /\ inside # <<>> /\ inside[1] \in {"heritage"} \cup ComputedNames
            /\ ~Has(inside, Deferring) /\ ~Has(From(inside, 2), {"heritage"})
    BY DEF IsClassHeritageSelfReference
  <2> QED
    BY <1>2, <1>3, <1>6, <2>1, <2>2, <2>3
<1> QED
  BY <1>1, <1>5, <1>6

(* A use in the body its declaration is in has no function in between.     *)
LEMMA NothingAfterTheLast ==
    ASSUME NEW N \in Nat, NEW M \in 0..N, NEW s, NEW F,
           Max({0} \cup {i \in 1..N : s[i] \in F}) = Max({0} \cup {i \in 1..M : s[i] \in F})
    PROVE  \A j \in (M + 1)..N : s[j] \notin F
<1> DEFINE A == {0} \cup {i \in 1..N : s[i] \in F}
           B == {0} \cup {i \in 1..M : s[i] \in F}
<1>1. A \subseteq 0..N /\ A # {} /\ B \subseteq 0..M /\ B # {}
  OBVIOUS
<1>2. \A j \in A : Max(A) >= j
  <2> HIDE DEF A
  <2> QED
    BY <1>1, LastPosition
<1>3. Max(B) \in 0..M
  <2>1. M \in Nat
    OBVIOUS
  <2> HIDE DEF B
  <2> QED
    BY <1>1, <2>1, LastPosition
<1>4. SUFFICES ASSUME NEW j \in (M + 1)..N, s[j] \in F
               PROVE  FALSE
  OBVIOUS
<1>5. j \in A
  BY <1>4
<1>6. Max(A) = Max(B)
  OBVIOUS
<1> HIDE DEF A, B
<1>7. Max(B) >= j
  BY <1>2, <1>5, <1>6
<1> QED
  BY <1>3, <1>7

(* SameDeferredBody, by what is between the declaration and the use.       *)
LEMMA SameBodiesHaveNothingBetween ==
    ASSUME NEW n, IsPlacedUse(n), SameDeferredBody(n)
    PROVE  \A j \in (n.depth + 1)..Len(n.chain) : n.chain[j] \notin FunctionLike \cup {"method name"}
<1>1. Len(n.chain) \in Nat /\ n.depth \in 0..Len(n.chain)
  BY DEF IsPlacedUse
<1>2. Max({0} \cup {i \in 1..Len(n.chain) : n.chain[i] \in FunctionLike \cup {"method name"}})
        = Max({0} \cup {i \in 1..n.depth : n.chain[i] \in FunctionLike \cup {"method name"}})
  BY DEF SameDeferredBody, LastFunction
<1> QED
  BY <1>1, <1>2, NothingAfterTheLast

(* A use written before its declaration: what the options silence.         *)
LEMMA UsesBeforeDeclarations ==
    ASSUME NEW n, IsPlacedUse(n), n.where = "before", ~Has(n.chain, {"with"}), n.form \in {"plain", "new"}
    PROVE  /\ VisitUse(n) # {} /\ IsQuiet(n) => TooEarly(n) \/ (n.decl = "var" /\ Has(Between(n), {"field"}))
           /\ n.decl \in {"let", "const", "class"} /\ VisitUse(n) = {} =>
                  IsQuiet(n) /\ (ReferenceInDeferredBody(n.chain) \/ n.decl = "class")
<1> DEFINE eager == ReferenceInEagerClassContext(n.chain)
<1>1. n.chain \in Seq(STRING) /\ n.depth \in Nat /\ n.depth + 1 \in 1..(Len(n.chain) + 1)
  BY DEF IsPlacedUse
<1>2. VisitUse(n) # {} <=> ~Silenced(n)
  BY DEF VisitUse, IsFreeReference
<1>3. TooEarly(n) <=> ~Has(Between(n), Deferring)
  BY DEF TooEarly, IsImmediate
<1>4. eager \/ ~ReferenceInDeferredBody(n.chain) => TooEarly(n)
  <2>1. eager \/ ~ReferenceInDeferredBody(n.chain) =>
          ~Has(n.chain, Deferring) \/ ~Has(n.chain, Deferring \cup {"method name", "field name", "static block"})
    BY DEF ReferenceInEagerClassContext, ReferenceInDeferredBody
  <2>2. ~Has(n.chain, Deferring) => ~Has(From(n.chain, n.depth + 1), Deferring)
    BY <1>1, RestsAreParts
  <2>3. ~Has(n.chain, Deferring \cup {"method name", "field name", "static block"}) => ~Has(From(n.chain, n.depth + 1), Deferring)
    BY <1>1, RestsAreParts
  <2> QED
    BY <1>3, <2>1, <2>2, <2>3 DEF Between
<1>5. SameDeferredBody(n) => TooEarly(n) \/ Has(Between(n), {"field"})
  <2>1. SUFFICES ASSUME SameDeferredBody(n), Has(Between(n), Deferring)
                 PROVE  Has(Between(n), {"field"})
    BY <1>3
  <2>2. \A j \in (n.depth + 1)..Len(n.chain) : n.chain[j] \notin FunctionLike \cup {"method name"}
    BY <2>1, SameBodiesHaveNothingBetween
  <2>3. PICK j \in (n.depth + 1)..Len(n.chain) : n.chain[j] \in Deferring
    BY <1>1, <2>1, HasInTheRest DEF Between
  <2>4. n.chain[j] \in {"field"}
    BY <2>2, <2>3 DEF Deferring
  <2> QED
    BY <1>1, <2>4, HasInTheRest DEF Between
<1>6. /\ ~Silenced(n) /\ IsQuiet(n) /\ n.decl # "var" => eager \/ ~ReferenceInDeferredBody(n.chain)
      /\ ~Silenced(n) /\ IsQuiet(n) /\ n.decl = "var" => eager \/ ~ReferenceInDeferredBody(n.chain) \/ SameDeferredBody(n)
      /\ n.decl \in {"let", "const", "class"} /\ Silenced(n) => IsQuiet(n) /\ (ReferenceInDeferredBody(n.chain) \/ n.decl = "class")
  <2> DEFINE deferred == ReferenceInDeferredBody(n.chain)
             same == SameDeferredBody(n)
  <2>1. CASE n.decl = "function"
    BY <2>1 DEF Silenced, IsQuiet, OptionFor
  <2>2. CASE n.decl = "enum"
    BY <2>2 DEF Silenced, IsQuiet, OptionFor, IsNew
  <2>3. CASE n.decl \in {"class", "type"}
    BY <2>3 DEF Silenced, IsQuiet, OptionFor, IsNew
  <2>4. CASE n.decl = "var"
    BY <2>4 DEF Silenced, IsQuiet, OptionFor
  <2>5. CASE n.decl \in {"let", "const"}
    BY <2>5 DEF Silenced, IsQuiet, OptionFor
  <2>6. CASE n.decl \notin {"function", "enum", "class", "type", "var", "let", "const"}
    BY <2>6 DEF Silenced
  <2> QED
    BY <2>1, <2>2, <2>3, <2>4, <2>5, <2>6
<1> QED
  BY <1>2, <1>4, <1>5, <1>6

(* Both kinds of use, before the declaration and inside it.                *)
LEMMA UsesAreJudged ==
    ASSUME NEW n, IsPlacedUse(n), ~Has(n.chain, {"with"}), n.form \in {"plain", "new"}
    PROVE  /\ VisitUse(n) # {} /\ IsQuiet(n) => TooEarly(n) \/ (n.decl = "var" /\ Has(Between(n), {"field"}))
           /\ n.where = "within" /\ VisitUse(n) = {} /\ TooEarly(n) =>
                  n.decl = "class" /\ Has(From(n.chain, n.depth + 3), {"heritage"})
           /\ n.where = "before" /\ n.decl \in {"let", "const", "class"} /\ VisitUse(n) = {} =>
                  ~TooEarly(n) \/ (IsQuiet(n) /\ (ReferenceInDeferredBody(n.chain) \/ n.decl = "class"))
<1>1. CASE n.where = "within"
  BY <1>1, UsesInDeclarations
<1>2. CASE n.where = "before"
  BY <1>2, UsesBeforeDeclarations
<1>3. CASE n.where = "after"
  BY <1>3 DEF VisitUse
<1> QED
  BY <1>1, <1>2, <1>3 DEF IsPlacedUse

-----------------------------------------------------------------------------
(* The scopes around a name.  Nothing around binds it exactly if no frame  *)
(* does; otherwise the innermost that does decides.                        *)
LEMMA BindingsAreInFrames ==
    ASSUME NEW frames, AreFrames(frames)
    PROVE  Binding(frames) = "none" <=> \A i \in DOMAIN frames : BindingIn(frames[i]) = "none"
<1> DEFINE bound == {i \in DOMAIN frames : BindingIn(frames[i]) # "none"}
<1>1. \E N \in Nat : DOMAIN frames = 1..N
  <2>1. frames \in Seq([kind : STRING, param : STRING, own : BOOLEAN, decls : Seq(STRING)])
    BY DEF AreFrames
  <2> QED
    BY <2>1, LenProperties
<1>2. PICK N \in Nat : bound \subseteq 0..N
  BY <1>1
<1>3. bound # {} => Max(bound) \in bound
  <2> HIDE DEF bound
  <2> QED
    BY <1>2, LastPosition
<1>4. CASE bound = {}
  BY <1>4 DEF Binding
<1>5. CASE bound # {}
  <2>1. BindingIn(frames[Max(bound)]) # "none"
    BY <1>3, <1>5
  <2>2. Binding(frames) = BindingIn(frames[Max(bound)])
    BY <1>5 DEF Binding
  <2>3. \E i \in DOMAIN frames : BindingIn(frames[i]) # "none"
    BY <1>5
  <2> QED
    BY <2>1, <2>2, <2>3
<1> QED
  BY <1>4, <1>5

(* A frame none of the lookups by name overlooks.                          *)
IsClear(frame) ==
    /\ ~Declares(frame, {"{x}", "nested var", "import", "enum"})
    /\ frame.param # "{x}"
    /\ frame.param = "x" => frame.kind \in {"function", "funexpr", "arrow"}
    /\ ~frame.own

(* Where nothing is overlooked every frame is such a one.                  *)
LEMMA OverlookedFrames ==
    ASSUME NEW frames, ~Overlooked(frames, {"{x}", "nested var", "import", "enum"})
    PROVE  \A i \in DOMAIN frames : IsClear(frames[i])
BY DEF Overlooked, IsClear

(* In those frames the language's binding is a declaration of the body, or *)
(* a parameter of a function, and the body is one the rules look into.     *)
LEMMA ClearFrames ==
    ASSUME NEW f, IsFrame(f), IsClear(f)
    PROVE  /\ BindingIn(f) = "none" <=> ~Declares(f, {"var", "let", "function", "class"}) /\ f.param # "x"
           /\ f.param = "x" => f.kind \in {"function", "funexpr", "arrow"}
           /\ Declares(f, {"var", "let", "function", "class"}) =>
                f.kind \in {"file", "block", "function", "funexpr", "arrow", "method", "accessor", "constructor"}
<1>1. \A i \in DOMAIN f.decls : f.decls[i] \in {"var", "let", "function", "class", "= x"}
  BY DEF IsFrame, IsClear, Declares
<1>2. f.param \in {"no", "x"} /\ ~f.own
  BY DEF IsFrame, IsClear
<1>3. BindingIn(f) = "none" <=> ~Declares(f, {"var", "let", "function", "class"}) /\ f.param # "x"
  BY <1>1, <1>2 DEF BindingIn, HeadBinds, Declares
<1>4. Declares(f, {"var", "let", "function", "class"}) => f.kind \in FunctionLike \cup {"file", "block"}
  <2>1. f.decls = <<>> => DOMAIN f.decls = {}
    OBVIOUS
  <2> QED
    BY <2>1 DEF IsFrame, Declares
<1> QED
  BY <1>3, <1>4 DEF IsClear, FunctionLike

(* no-undef.                                                               *)
LEMMA UndefinedNamesAreJudged ==
    ASSUME NEW n, AreFrames(n.frames), ~Overlooked(n.frames, {"{x}", "nested var", "import", "enum"})
    PROVE  VisitUndef(n) # {} <=>
                Binding(n.frames) = "none" /\ IsFreeReference(n.form)
                /\ n.form \notin {"type", "exported"} /\ (n.form = "typeof" => n.typeof)
<1>1. \A i \in DOMAIN n.frames : IsFrame(n.frames[i]) /\ IsClear(n.frames[i])
  BY OverlookedFrames DEF AreFrames
<1>2. ~HasLexicalBinding(n.frames) <=> \A i \in DOMAIN n.frames : BindingIn(n.frames[i]) = "none"
  BY <1>1, ClearFrames DEF HasLexicalBinding
<1>3. ~HasLexicalBinding(n.frames) <=> Binding(n.frames) = "none"
  BY <1>2, BindingsAreInFrames
<1> QED
  BY <1>3 DEF VisitUndef

(* no-import-assign.                                                       *)
LEMMA MutationsAreJudged ==
    ASSUME NEW n, AreFrames(n.frames), ~Overlooked(n.frames, {"{x}", "nested var", "import", "enum"}),
           n.imported = "namespace", n.form \in {"Object.assign(ns)", "Reflect.set(ns)"},
           \A i \in DOMAIN n.frames : ~Declares(n.frames[i], {"= x"})
    PROVE  VisitImport(n) # {} <=> Binding(n.frames) = "none"
<1>1. \A i \in DOMAIN n.frames : IsFrame(n.frames[i]) /\ IsClear(n.frames[i])
  BY OverlookedFrames DEF AreFrames
<1>2. \A i \in DOMAIN n.frames :
        Declares(n.frames[i], {"var", "let", "function", "class", "= x"}) <=> Declares(n.frames[i], {"var", "let", "function", "class"})
  BY DEF Declares
<1>3. ~HasEnclosingBinding(n.frames) <=> \A i \in DOMAIN n.frames : BindingIn(n.frames[i]) = "none"
  BY <1>1, <1>2, ClearFrames DEF HasEnclosingBinding
<1>4. VisitImport(n) = CheckNamespaceUse(n)
  BY DEF VisitImport
<1>5. CheckNamespaceUse(n) # {} <=> ~HasEnclosingBinding(n.frames)
  BY DEF CheckNamespaceUse
<1> QED
  BY <1>3, <1>4, <1>5, BindingsAreInFrames

(* no-function-assign: of a frame that declares the name once the lookup   *)
(* says what the language does.                                            *)
LEMMA FramesDeclareFunctions ==
    ASSUME NEW f, IsFrame(f), IsClear(f), Len(f.decls) < 2, f.param = "no" \/ f.decls = <<>>
    PROVE  /\ FnDeclIn(f) = "none" <=> BindingIn(f) = "none"
           /\ FnDeclIn(f) = "function" <=> BindingIn(f) = "function"
<1> DEFINE seen == {i \in DOMAIN f.decls : f.decls[i] \in {"var", "let", "function", "class"}}
<1>1. f.decls \in Seq(STRING)
  BY DEF IsFrame
<1>2. DOMAIN f.decls \subseteq {1} /\ (f.decls = <<>> => DOMAIN f.decls = {})
  <2>1. DOMAIN f.decls = 1..Len(f.decls) /\ Len(f.decls) \in Nat
    BY <1>1, LenProperties
  <2> QED
    BY <2>1
<1>3. seen # {} => Min(seen) = 1
  <2>1. seen \subseteq Nat /\ seen \subseteq {1}
    BY <1>2
  <2> HIDE DEF seen
  <2> QED
    BY <2>1, FirstPosition
<1>4. BodyShadows(f) = IF seen = {} THEN "none" ELSE f.decls[1]
  BY <1>3 DEF BodyShadows
<1>5. \A i \in DOMAIN f.decls : i = 1 /\ f.decls[i] \in {"var", "let", "function", "class", "= x"}
  BY <1>2 DEF IsFrame, IsClear, Declares
<1>6. f.param \in {"no", "x"} /\ ~f.own
  BY DEF IsFrame, IsClear
<1>7. CASE f.decls = <<>>
  <2>1. BodyShadows(f) = "none" /\ (BindingIn(f) = IF f.param = "x" THEN "another" ELSE "none")
    BY <1>2, <1>4, <1>6, <1>7 DEF BindingIn, Declares, HeadBinds
  <2>2. f.param = "x" => f.kind \in FunctionLike \ {"accessor"}
    BY DEF IsClear, FunctionLike
  <2> QED
    BY <1>6, <2>1, <2>2 DEF FnDeclIn
<1>8. CASE f.decls # <<>>
  <2>1. f.param = "no" /\ f.kind \in FunctionLike \cup {"file", "block"}
    BY <1>8 DEF IsFrame
  <2>2. FnDeclIn(f) = BodyShadows(f)
    BY <1>6, <2>1 DEF FnDeclIn
  <2>3. 1 \in DOMAIN f.decls
    BY <1>1, <1>2, <1>8, LenProperties, EmptySeq
  <2>4. seen = {} <=> f.decls[1] = "= x"
    BY <1>5, <2>3
  <2>5. BindingIn(f) = IF f.decls[1] = "function" THEN "function" ELSE IF f.decls[1] # "= x" THEN "another" ELSE "none"
    BY <1>5, <1>6, <2>1, <2>3 DEF BindingIn, Declares, HeadBinds
  <2> QED
    BY <1>4, <1>5, <2>2, <2>3, <2>4, <2>5
<1> QED
  BY <1>7, <1>8

(* What is reported is an assignment, and of a function unless the frames  *)
(* hold something the lookup overlooks.                                    *)
LEMMA AssignmentsAreJudged ==
    ASSUME NEW n, AreFrames(n.frames)
    PROVE  /\ VisitAssignment(n) # {} => Writes(n.form) \/ n.form \in {"({x: a} =", "[a = x] =", "({a = x} ="}
           /\ /\ ~Overlooked(n.frames, {"{x}", "nested var", "import", "enum"})
              /\ \A i \in DOMAIN n.frames :
                    Len(n.frames[i].decls) < 2 /\ (n.frames[i].param = "no" \/ n.frames[i].decls = <<>>)
              /\ n.form \in CheckedForms
              => (VisitAssignment(n) # {} <=> Binding(n.frames) = "function")
<1>1. VisitAssignment(n) # {} => Writes(n.form) \/ n.form \in {"({x: a} =", "[a = x] =", "({a = x} ="}
  BY DEF VisitAssignment, CheckedForms, Writes
<1>2. ASSUME ~Overlooked(n.frames, {"{x}", "nested var", "import", "enum"}),
             \A i \in DOMAIN n.frames :
                 Len(n.frames[i].decls) < 2 /\ (n.frames[i].param = "no" \/ n.frames[i].decls = <<>>)
      PROVE  FindFnDecl(n.frames) <=> Binding(n.frames) = "function"
  <2> DEFINE bound == {i \in DOMAIN n.frames : BindingIn(n.frames[i]) # "none"}
             deciding == {i \in DOMAIN n.frames : FnDeclIn(n.frames[i]) # "none"}
  <2>1. \A i \in DOMAIN n.frames : IsFrame(n.frames[i]) /\ IsClear(n.frames[i])
    BY <1>2, OverlookedFrames DEF AreFrames
  <2>2. \A i \in DOMAIN n.frames : /\ FnDeclIn(n.frames[i]) = "none" <=> BindingIn(n.frames[i]) = "none"
                                   /\ FnDeclIn(n.frames[i]) = "function" <=> BindingIn(n.frames[i]) = "function"
    BY <1>2, <2>1, FramesDeclareFunctions
  <2>3. deciding = bound
    BY <2>2
  <2>4. bound # {} => Max(bound) \in bound
    <3>1. n.frames \in Seq([kind : STRING, param : STRING, own : BOOLEAN, decls : Seq(STRING)])
      BY DEF AreFrames
    <3>2. \E N \in Nat : DOMAIN n.frames = 1..N
      BY <3>1, LenProperties
    <3>3. PICK N \in Nat : bound \subseteq 0..N
      BY <3>2
    <3> HIDE DEF bound
    <3> QED
      BY <3>3, LastPosition
  <2>5. Binding(n.frames) = IF bound = {} THEN "none" ELSE BindingIn(n.frames[Max(bound)])
    BY DEF Binding
  <2>6. FindFnDecl(n.frames) <=> bound # {} /\ FnDeclIn(n.frames[Max(bound)]) = "function"
    BY <2>3 DEF FindFnDecl
  <2> QED
    BY <2>2, <2>4, <2>5, <2>6
<1> QED
  BY <1>1, <1>2 DEF VisitAssignment

-----------------------------------------------------------------------------
(* no-inner-declarations.                                                  *)
LEMMA InnerFunctionsAreJudged ==
    ASSUME NEW n, IsPlacedDeclaration(n), n.decl = "function", VisitInner(n) # {}
    PROVE  /\ n.mode = "functions" /\ n.allowBlocks =>
                 ~IsStrictCode(n) \/ n.file \in {"exported declaration", "'a'; 'use strict'"}
           /\ n.chain # <<>>
           /\ n.allowBlocks =>
                 \/ Last(n.chain) \in StatementsAround
                 \/ \E i \in BareBlocks(n.chain) : i = 1 \/ n.chain[i - 1] \notin FunctionLike \cup {"static block", "block"}
<1> DEFINE chain == n.chain
           blocks == BareBlocks(chain)
<1>1. chain \in Seq(STRING) /\ Len(chain) \in Nat /\ DOMAIN chain = 1..Len(chain)
  BY LenProperties DEF IsPlacedDeclaration
<1>2. n.mode = "functions" /\ n.allowBlocks => ~IsStrictMode(n)
  BY DEF VisitInner
<1>3. ~IsStrictMode(n) => ~Has(n.chain, {"class"}) /\ n.strict = {} /\ n.file \notin {"import", "export list", "'use strict'"}
  BY DEF IsStrictMode, IsPlacedDeclaration
<1>4. n.mode = "functions" /\ n.allowBlocks => ~IsStrictCode(n) \/ n.file \in {"exported declaration", "'a'; 'use strict'"}
  BY <1>2, <1>3 DEF IsStrictCode
<1>5. ~IsAllowedContainer(chain, n.allowBlocks)
  <2>1. (n.decl = "function" /\ n.allowBlocks) = n.allowBlocks
    BY DEF IsPlacedDeclaration
  <2>2. ~IsAllowedContainer(chain, n.decl = "function" /\ n.allowBlocks)
    BY DEF VisitInner
  <2> QED
    BY <2>1, <2>2
<1>6. chain # <<>>
  <2>1. Len(chain) # 0
    BY <1>5 DEF IsAllowedContainer
  <2> QED
    BY <2>1
<1>7. ASSUME n.allowBlocks, Last(chain) \notin StatementsAround
      PROVE  \E i \in blocks : i = 1 \/ chain[i - 1] \notin FunctionLike \cup {"static block", "block"}
  <2>1. Len(chain) # 0 /\ Last(chain) = chain[Len(chain)]
    BY <1>1, <1>6, EmptySeq DEF Last
  <2>2. chain[Len(chain)] \notin {"namespace", "export"}
    BY <1>5 DEF IsAllowedContainer
  <2>3. chain[Len(chain)] = "block"
    BY <1>6, <1>7, <2>1, <2>2 DEF IsPlacedDeclaration
  <2>4. Len(chain) \in blocks
    BY <1>1, <2>1, <2>3 DEF BareBlocks
  <2>5. Min(blocks) \in blocks /\ \A i \in blocks : Min(blocks) <= i
    <3>1. blocks \subseteq Nat /\ blocks # {}
      BY <1>1, <2>4 DEF BareBlocks
    <3> HIDE DEF blocks
    <3> QED
      BY <3>1, FirstPosition
  <2>6. CASE Min(blocks) = 1
    BY <2>5, <2>6
  <2>7. CASE Min(blocks) # 1
    <3>1. Min(blocks) \in 1..Len(chain) /\ Min(blocks) > 1
      BY <1>1, <2>5, <2>7 DEF BareBlocks
    <3>2. chain[Min(blocks) - 1] \notin FunctionLike \cup {"static block"}
      BY <1>5, <1>7, <2>4, <3>1 DEF IsAllowedContainer
    <3>3. chain[Min(blocks) - 1] # "block"
      <4>1. SUFFICES ASSUME chain[Min(blocks) - 1] = "block"
                     PROVE  FALSE
        OBVIOUS
      <4>2. Min(blocks) - 1 \in 1..Len(chain)
        BY <3>1
      <4>3. \A j \in Min(blocks)..Len(chain) : chain[j] = "block"
        BY <2>5 DEF BareBlocks
      <4>4. \A j \in (Min(blocks) - 1)..Len(chain) : chain[j] = "block"
        BY <3>1, <4>1, <4>3
      <4>5. Min(blocks) - 1 \in blocks
        BY <1>1, <4>2, <4>4 DEF BareBlocks
      <4>6. Min(blocks) <= Min(blocks) - 1
        BY <2>5, <4>5
      <4> QED
        BY <3>1, <4>6
    <3> QED
      BY <2>5, <3>2, <3>3
  <2> QED
    BY <2>6, <2>7
<1> QED
  BY <1>4, <1>6, <1>7

-----------------------------------------------------------------------------
(* no-redeclare.                                                           *)
LEMMA SecondElements ==
    ASSUME NEW N \in Nat, NEW S, S \subseteq 1..N
    PROVE  /\ (\E i, j \in S : i # j) => Second(S) # {}
           /\ \A i \in Second(S) : i \in S /\ \E j \in S : j < i
<1>1. S \subseteq Nat /\ IsFiniteSet(S)
  <2>1. IsFiniteSet(1..N)
    BY FS_Interval
  <2>2. IsFiniteSet(S)
    BY <2>1, FS_Subset
  <2> QED
    BY <2>2
<1>2. ASSUME NEW i \in S, NEW j \in S, i # j
      PROVE  Second(S) # {}
  <2>1. IsFiniteSet({i}) /\ Cardinality({i}) = 1 /\ j \notin {i} /\ {i} \cup {j} = {i, j}
    BY <1>2, FS_Singleton
  <2>2. Cardinality({i, j}) = 2
    <3>1. Cardinality({i} \cup {j}) = Cardinality({i}) + 1
      BY <2>1, FS_AddElement
    <3> QED
      BY <2>1, <3>1
  <2>3. Cardinality(S) >= 2
    BY <1>1, <2>2, FS_Subset
  <2>4. ~(Cardinality(S) < 2)
    BY <1>1, <2>3, FS_CardinalityType
  <2> QED
    BY <2>4 DEF Second
<1>3. ASSUME NEW i \in Second(S)
      PROVE  i \in S /\ \E j \in S : j < i
  <2>1. ~(Cardinality(S) < 2) /\ i = Min(S \ {Min(S)})
    BY <1>3 DEF Second
  <2>2. S # {}
    BY <2>1, FS_EmptySet
  <2>3. Min(S) \in S /\ \A m \in S : Min(S) <= m
    BY <1>1, <2>2, FirstPosition
  <2>4. S \ {Min(S)} # {}
    <3>1. SUFFICES ASSUME S \ {Min(S)} = {}
                   PROVE  FALSE
      OBVIOUS
    <3>2. S = {Min(S)}
      BY <2>3, <3>1
    <3>3. Cardinality(S) = 1
      BY <3>2, FS_Singleton
    <3> QED
      BY <2>1, <3>3
  <2>5. Min(S \ {Min(S)}) \in S \ {Min(S)}
    BY <1>1, <2>4, FirstPosition
  <2>6. i \in S /\ i # Min(S)
    BY <2>1, <2>5
  <2>7. Min(S) < i
    <3>1. i \in Nat /\ Min(S) \in Nat /\ Min(S) <= i
      BY <1>1, <2>3, <2>6
    <3> QED
      BY <2>6, <3>1
  <2> QED
    BY <2>3, <2>6, <2>7
<1> QED
  BY <1>2, <1>3

(* Of the declarations in order, there are some that exclude no later one  *)
(* of theirs and exclude every other one.                                  *)
Admits(S, D, R) == \A i \in D : i \in S <=> \A j \in S : j < i => <<i, j>> \notin R
LEMMA JoiningDeclarationsExist ==
    ASSUME NEW N \in Nat, NEW D, D \subseteq 1..N, NEW R
    PROVE  \E S \in SUBSET D : Admits(S, D, R)
<1> DEFINE Joined(n, S) == \A i \in D \cap 1..n : i \in S <=> \A j \in S : j < i => <<i, j>> \notin R
           T == {n \in Nat : ~\E S \in SUBSET (D \cap 1..n) : Joined(n, S)}
<1>1. SUFFICES T = {}
  <2>1. ASSUME T = {}
        PROVE  \E S \in SUBSET (D \cap 1..N) : Joined(N, S)
    BY <2>1
  <2>2. D \cap 1..N = D
    OBVIOUS
  <2> QED
    BY <2>1, <2>2 DEF Admits
<1>2. SUFFICES ASSUME T # {}
               PROVE  FALSE
  OBVIOUS
<1>3. PICK n \in T : \A m \in T : n <= m
  BY <1>2, LeastElement
<1>4. n \in Nat /\ ~\E S \in SUBSET (D \cap 1..n) : Joined(n, S)
  BY <1>3
<1>5. n # 0
  <2>1. Joined(0, {})
    OBVIOUS
  <2> QED
    BY <1>4, <2>1
<1>6. n - 1 \in Nat /\ n - 1 \notin T
  BY <1>3, <1>4, <1>5
<1>7. PICK S \in SUBSET (D \cap 1..(n - 1)) : Joined(n - 1, S)
  BY <1>6
<1>8. \A j \in S : j \in Nat /\ j < n
  BY <1>4
<1> DEFINE full == IF n \in D /\ (\A j \in S : <<n, j>> \notin R) THEN S \cup {n} ELSE S
<1>9. full \in SUBSET (D \cap 1..n)
  BY <1>4, <1>5
<1>10. \A i \in D \cap 1..n : i < n \/ i = n
  BY <1>4
<1>11. ASSUME NEW i \in D \cap 1..n, i < n
       PROVE  i \in full <=> \A j \in full : j < i => <<i, j>> \notin R
  <2>1. i \in D \cap 1..(n - 1)
    BY <1>4, <1>11
  <2>2. i \in full <=> i \in S
    BY <1>11
  <2>3. \A j : j \in full /\ j < i <=> j \in S /\ j < i
    BY <1>4, <1>11
  <2> QED
    BY <1>7, <2>1, <2>2, <2>3
<1>12. n \in D => (n \in full <=> \A j \in full : j < n => <<n, j>> \notin R)
  BY <1>4, <1>8
<1>13. Joined(n, full)
  BY <1>10, <1>11, <1>12
<1> QED
  BY <1>4, <1>9, <1>13

(* The declarations that share a symbol: those no declaration at all       *)
(* excludes are among them.                                                *)
LEMMA JoiningDeclarations ==
    ASSUME NEW decls, AreDeclarations(decls)
    PROVE  /\ Joins(decls) \subseteq InScope(decls)
           /\ \A i \in InScope(decls) :
                (\A j \in DOMAIN decls : decls[j].kind \notin Excludes[decls[i].kind]) => i \in Joins(decls)
<1> DEFINE D == InScope(decls)
           R == {p \in D \X D : decls[p[2]].kind \in Excludes[decls[p[1]].kind]}
           Joined(S) == \A i \in D : i \in S <=> \A j \in S : j < i => decls[j].kind \notin Excludes[decls[i].kind]
<1>1. PICK N \in Nat : D \subseteq 1..N
  <2>1. decls \in Seq([kind : DOMAIN Excludes, nested : BOOLEAN])
    BY DEF AreDeclarations
  <2>2. DOMAIN decls = 1..Len(decls) /\ Len(decls) \in Nat
    BY <2>1, LenProperties
  <2> QED
    BY <2>2 DEF InScope
<1>2. PICK S \in SUBSET D : Admits(S, D, R)
  <2> HIDE DEF D, R
  <2> QED
    BY <1>1, JoiningDeclarationsExist
<1>3. Joined(S)
  <2>1. \A i, j \in D : <<i, j>> \in R <=> decls[j].kind \in Excludes[decls[i].kind]
    OBVIOUS
  <2> HIDE DEF D, R
  <2> QED
    BY <1>2, <2>1 DEF Admits
<1>4. Joins(decls) = CHOOSE J \in SUBSET D : Joined(J)
  BY DEF Joins
<1>5. Joins(decls) \in SUBSET D /\ Joined(Joins(decls))
  <2> HIDE DEF D, Joined
  <2> QED
    BY <1>2, <1>3, <1>4
<1>6. D \subseteq DOMAIN decls
  BY DEF InScope
<1> QED
  BY <1>5, <1>6

(* What the two tables say of values and functions.                        *)
LEMMA TablesOfKinds ==
    /\ Bindings \cup Functions \subseteq DOMAIN Excludes
    /\ \A k \in Functions : Excludes[k] \cap Functions = {}
    /\ \A k \in Functions : ConflictsWith[k] \cap Functions = IF k = "function" THEN {"function"} ELSE {}
    /\ \A k \in Bindings : Excludes[k] = Functions \cup {"class", "enum", "namespace"}
    /\ \A k \in {"var", "binding"} : Bindings \subseteq ConflictsWith[k]
<1>1. Bindings \cup Functions \subseteq DOMAIN Excludes
  BY DEF Excludes, Bindings, Functions
<1>2. \A k \in Functions : Excludes[k] = Bindings \cup {"enum"}
  BY DEF Excludes, Bindings, Functions
<1>3. \A k \in Bindings : Excludes[k] = Functions \cup {"class", "enum", "namespace"}
  BY DEF Excludes, Bindings, Functions
<1>4. /\ ConflictsWith["var"] = Bindings \cup Functions \cup {"class", "enum"}
      /\ ConflictsWith["binding"] = Bindings \cup Functions \cup {"class", "enum"}
      /\ ConflictsWith["function"] = Bindings \cup {"function", "class", "enum"}
      /\ ConflictsWith["overload"] = {"var", "binding", "class", "enum"}
  <2>1. {"var", "binding", "function", "overload"} \subseteq DOMAIN Excludes
    BY <1>1 DEF Bindings, Functions
  <2> QED
    BY <2>1 DEF ConflictsWith
<1>5. \A k \in Functions : ConflictsWith[k] \cap Functions = IF k = "function" THEN {"function"} ELSE {}
  BY <1>4 DEF Functions, Bindings
<1>6. \A k \in Functions : Excludes[k] \cap Functions = {}
  BY <1>2 DEF Functions, Bindings
<1> QED
  BY <1>1, <1>3, <1>4, <1>5, <1>6

Kinds(decls) == {decls[i].kind : i \in DOMAIN decls}
Own(decls, strict) ==
    {i \in DOMAIN decls : decls[i].kind \in {"var", "binding", "param", "function"}
                          /\ ~(strict /\ decls[i].nested /\ decls[i].kind = "function")}

(* A name is bound again when one of its own declarations is not the first.*)
LEMMA RebindingsAreTwo ==
    ASSUME NEW decls, NEW strict, AreDeclarations(decls)
    PROVE  /\ Rebinds(decls, strict) <=> \E i, j \in Own(decls, strict) : j < i
           /\ \E N \in Nat : DOMAIN decls = 1..N
<1> DEFINE own == Own(decls, strict)
<1>1. PICK N \in Nat : DOMAIN decls = 1..N
  <2>1. decls \in Seq([kind : DOMAIN Excludes, nested : BOOLEAN])
    BY DEF AreDeclarations
  <2> QED
    BY <2>1, LenProperties
<1>2. Rebinds(decls, strict) <=> own # {} /\ \E i \in own : i # Min(own)
  BY DEF Rebinds, Own
<1>3. own \subseteq 1..N
  BY <1>1 DEF Own
<1> HIDE DEF own
<1>4. own # {} => Min(own) \in own /\ \A m \in own : Min(own) <= m
  <2>1. own \subseteq Nat
    BY <1>3
  <2> QED
    BY <2>1, FirstPosition
<1>5. ASSUME own # {}, NEW i \in own, i # Min(own)
      PROVE  Min(own) \in own /\ Min(own) < i
  <2>1. Min(own) \in own /\ Min(own) <= i
    BY <1>4, <1>5
  <2>2. Min(own) \in 1..N /\ i \in 1..N
    BY <1>3, <2>1
  <2> QED
    BY <1>5, <2>1, <2>2
<1>6. ASSUME NEW i \in own, NEW j \in own, j < i
      PROVE  own # {} /\ i # Min(own)
  <2>1. Min(own) <= j
    BY <1>4
  <2>2. i \in 1..N /\ j \in 1..N
    BY <1>3
  <2> QED
    BY <1>6, <2>1, <2>2
<1>7. Rebinds(decls, strict) <=> \E i, j \in own : j < i
  BY <1>2, <1>5, <1>6
<1> QED
  BY <1>1, <1>7 DEF own

(* The last of two kinds of declarations comes after one of them.          *)
LEMMA LastOfTwoKinds ==
    ASSUME NEW N \in Nat, NEW A, NEW B, A \subseteq 1..N, B \subseteq 1..N, A \cap B = {}, A # {}, B # {}
    PROVE  \E j \in A \cup B : j < Max(A \cup B)
<1> DEFINE C == A \cup B
<1>1. C \subseteq 0..N /\ C # {}
  OBVIOUS
<1>2. Max(C) \in C /\ \A m \in C : Max(C) >= m
  <2> HIDE DEF C
  <2> QED
    BY <1>1, LastPosition
<1>3. PICK j \in C : j # Max(C)
  <2>1. PICK a \in A, b \in B : a # b
    OBVIOUS
  <2>2. a # Max(C) \/ b # Max(C)
    BY <2>1
  <2> QED
    BY <2>2
<1>4. j \in 0..N /\ Max(C) \in 0..N /\ Max(C) >= j
  BY <1>1, <1>2, <1>3
<1>5. j < Max(C)
  BY <1>3, <1>4
<1> QED
  BY <1>3, <1>5

(* The declarations of the hoisted kinds, as the second pass takes them.   *)
Hoisted(decls, strict, kinds) ==
    {i \in DOMAIN decls : decls[i].kind \in kinds /\ ~(strict /\ decls[i].nested /\ decls[i].kind \in Functions)}

(* What each of the two passes reports, in terms of positions.             *)
LEMMA TheTwoPasses ==
    ASSUME NEW n, AreDeclarations(n.decls)
    PROVE  LET decls == n.decls
               of(kinds) == Hoisted(decls, n.strict, kinds)
           IN  /\ \A i \in FindRedeclare(decls) :
                    i \in Joins(decls) /\ \E j \in Joins(decls) : j < i /\ decls[j].kind \in ConflictsWith[decls[i].kind]
               /\ (\E i, j \in Joins(decls) : j < i /\ decls[j].kind \in ConflictsWith[decls[i].kind]) => FindRedeclare(decls) # {}
               /\ HoistPass(decls, n.strict) =
                    Second(of({"var"})) \cup Second(of({"function"}))
                    \cup (IF of({"var"}) # {} /\ of(Functions) # {} THEN {Max(of({"var"}) \cup of(Functions))} ELSE {})
                    \cup (IF of({"var"}) # {} /\ of({"param"}) # {} THEN {Min(of({"var"}))} ELSE {})
<1> DEFINE decls == n.decls
           later == {i \in Joins(decls) : \E j \in Joins(decls) : j < i /\ decls[j].kind \in ConflictsWith[decls[i].kind]}
<1>1. later \subseteq Nat
  <2>1. PICK N \in Nat : DOMAIN decls = 1..N
    BY RebindingsAreTwo
  <2> QED
    BY <2>1, JoiningDeclarations DEF InScope
<1>2. FindRedeclare(decls) = IF later = {} THEN {} ELSE {Min(later)}
  BY DEF FindRedeclare
<1>3. later # {} => Min(later) \in later
  <2> HIDE DEF later
  <2> QED
    BY <1>1, FirstPosition
<1>4. \A i \in FindRedeclare(decls) : i \in later
  <2> HIDE DEF later
  <2> QED
    BY <1>2, <1>3
<1>5. HoistPass(decls, n.strict) =
        Second(Hoisted(decls, n.strict, {"var"})) \cup Second(Hoisted(decls, n.strict, {"function"}))
        \cup (IF Hoisted(decls, n.strict, {"var"}) # {} /\ Hoisted(decls, n.strict, Functions) # {}
              THEN {Max(Hoisted(decls, n.strict, {"var"}) \cup Hoisted(decls, n.strict, Functions))} ELSE {})
        \cup (IF Hoisted(decls, n.strict, {"var"}) # {} /\ Hoisted(decls, n.strict, {"param"}) # {}
              THEN {Min(Hoisted(decls, n.strict, {"var"}))} ELSE {})
  BY DEF HoistPass, Hoisted
<1> QED
  BY <1>2, <1>4, <1>5

(* A reported declaration comes after one it conflicts with, or after a    *)
(* value or function of the same name.                                     *)
LEMMA ReportedDeclarationsHaveAnEarlier ==
    ASSUME NEW n, AreDeclarations(n.decls), NEW i \in VisitRedeclare(n)
    PROVE  \E j \in 1..(i - 1) : n.decls[j].kind \in ConflictsWith[n.decls[i].kind] \cup Functions \cup Bindings
<1> DEFINE decls == n.decls
           of(kinds) == Hoisted(decls, n.strict, kinds)
<1>1. PICK N \in Nat : DOMAIN decls = 1..N
  BY RebindingsAreTwo
<1>2. \A kinds : of(kinds) \subseteq 1..N /\ \A j \in of(kinds) : decls[j].kind \in kinds
  BY <1>1 DEF Hoisted
<1>3. \A j, k \in 1..N : j < k => j \in 1..(k - 1)
  OBVIOUS
<1>4. CASE i \in FindRedeclare(decls)
  <2>1. i \in Joins(decls) /\ \E j \in Joins(decls) : j < i /\ decls[j].kind \in ConflictsWith[decls[i].kind]
    BY <1>4, TheTwoPasses
  <2>2. Joins(decls) \subseteq 1..N
    BY <1>1, JoiningDeclarations DEF InScope
  <2> QED
    BY <1>3, <2>1, <2>2
<1>5. CASE i \in Second(of({"var"}))
  <2>1. i \in of({"var"}) /\ \E j \in of({"var"}) : j < i
    BY <1>2, <1>5, SecondElements
  <2> QED
    BY <1>2, <1>3, <2>1 DEF Bindings
<1>6. CASE i \in Second(of({"function"}))
  <2>1. i \in of({"function"}) /\ \E j \in of({"function"}) : j < i
    BY <1>2, <1>6, SecondElements
  <2> QED
    BY <1>2, <1>3, <2>1 DEF Functions
<1>7. CASE of({"var"}) # {} /\ of(Functions) # {} /\ i = Max(of({"var"}) \cup of(Functions))
  <2> DEFINE A == of({"var"})
             B == of(Functions)
  <2>1. A \subseteq 1..N /\ B \subseteq 1..N /\ \A j \in A \cup B : decls[j].kind \in Functions \cup Bindings
    BY <1>2 DEF Bindings
  <2>2. A \cap B = {}
    BY <1>2 DEF Functions
  <2>3. \E j \in A \cup B : j < i
    BY <1>7, <2>1, <2>2, LastOfTwoKinds
  <2>4. i \in A \cup B
    <3>1. A \cup B \subseteq 0..N /\ A \cup B # {}
      BY <1>7, <2>1
    <3> HIDE DEF A, B
    <3>2. Max(A \cup B) \in A \cup B
      BY <3>1, LastPosition
    <3> QED
      BY <1>7, <3>2 DEF A, B
  <2> QED
    BY <1>3, <2>1, <2>3, <2>4
<1>8. CASE of({"var"}) # {} /\ of({"param"}) # {} /\ i = Min(of({"var"}))
  <2>1. i \in of({"var"})
    <3>1. of({"var"}) \subseteq Nat
      BY <1>2
    <3> QED
      BY <1>8, <3>1, FirstPosition
  <2>2. PICK j \in of({"param"}) : decls[j].kind = "param"
    BY <1>2, <1>8
  <2>3. j \in DOMAIN decls
    BY <2>2 DEF Hoisted
  <2>4. j = 1
    BY <2>2, <2>3 DEF AreDeclarations
  <2>5. decls[i].kind = "var" /\ i \in 1..N
    BY <1>2, <2>1
  <2>6. 1 \in 1..(i - 1)
    BY <2>2, <2>4, <2>5
  <2> QED
    BY <2>2, <2>4, <2>6 DEF Bindings
<1> QED
  BY <1>4, <1>5, <1>6, <1>7, <1>8, TheTwoPasses DEF VisitRedeclare

(* Among functions alone the report and the second binding coincide.       *)
LEMMA FunctionsRedeclared ==
    ASSUME NEW n, AreDeclarations(n.decls), Kinds(n.decls) \subseteq {"function", "overload"}
    PROVE  VisitRedeclare(n) # {} <=> Rebinds(n.decls, n.strict)
<1> DEFINE decls == n.decls
           of(kinds) == Hoisted(decls, n.strict, kinds)
           own == Own(decls, n.strict)
<1>1. PICK N \in Nat : DOMAIN decls = 1..N
  BY RebindingsAreTwo
<1>2. \A i \in DOMAIN decls : decls[i].kind \in Functions
  BY DEF Kinds, Functions
<1>3. of({"function"}) = own /\ own \subseteq 1..N
  BY <1>1, <1>2 DEF Hoisted, Own, Functions
<1>4. of({"var"}) = {} /\ of({"var"}) \subseteq 1..N
  BY <1>2 DEF Hoisted, Functions
<1>5. Second(of({"var"})) = {}
  BY <1>4, SecondElements
<1>6. Second(own) # {} <=> \E i, j \in own : j < i
  <2>1. \A i, j \in own : j < i => i # j
    BY <1>3
  <2>2. (\E i, j \in own : j < i) => Second(own) # {}
    BY <1>3, <2>1, SecondElements
  <2>3. Second(own) # {} => \E i, j \in own : j < i
    BY <1>3, SecondElements
  <2> QED
    BY <2>2, <2>3
<1>7. HoistPass(decls, n.strict) = Second(own)
  BY <1>3, <1>4, <1>5, TheTwoPasses
<1>8. FindRedeclare(decls) # {} => \E i, j \in own : j < i
  <2>1. SUFFICES ASSUME FindRedeclare(decls) # {}
                 PROVE  \E i, j \in own : j < i
    OBVIOUS
  <2>2. PICK i \in Joins(decls), j \in Joins(decls) : j < i /\ decls[j].kind \in ConflictsWith[decls[i].kind]
    BY <2>1, TheTwoPasses
  <2>3. i \in InScope(decls) /\ j \in InScope(decls)
    BY <2>2, JoiningDeclarations
  <2>4. decls[i].kind = "function" /\ decls[j].kind = "function"
    BY <1>2, <2>2, <2>3, TablesOfKinds DEF InScope
  <2>5. i \in own /\ j \in own
    BY <2>3, <2>4 DEF InScope, Own, Functions
  <2> QED
    BY <2>2, <2>5
<1> QED
  BY <1>6, <1>7, <1>8, RebindingsAreTwo DEF VisitRedeclare

(* A second binding goes unreported only if a parameter or a pattern is    *)
(* there, and something it cannot share a symbol with.                     *)
LEMMA HiddenRedeclarations ==
    ASSUME NEW n, AreDeclarations(n.decls), Rebinds(n.decls, n.strict), VisitRedeclare(n) = {}
    PROVE  /\ Kinds(n.decls) \cap {"binding", "param"} # {}
           /\ Kinds(n.decls) \cap (Functions \cup {"class", "enum", "namespace"}) # {}
<1> DEFINE decls == n.decls
           of(kinds) == Hoisted(decls, n.strict, kinds)
           own == Own(decls, n.strict)
<1>1. PICK N \in Nat : DOMAIN decls = 1..N
  BY RebindingsAreTwo
<1>2. PICK i \in own, j \in own : j < i
  BY RebindingsAreTwo
<1>3. i \in DOMAIN decls /\ j \in DOMAIN decls /\ i \in 1..N /\ j \in 1..N
  BY <1>1, <1>2 DEF Own
<1>4. \A kinds : of(kinds) \subseteq 1..N
  BY <1>1 DEF Hoisted
<1>5. HoistPass(decls, n.strict) = {} /\ FindRedeclare(decls) = {}
  BY DEF VisitRedeclare
<1>6. ASSUME Kinds(decls) \cap {"binding", "param"} = {}
      PROVE  FALSE
  <2>1. \A k \in own : k \in of({"var"}) \/ k \in of({"function"})
    <3>1. \A k \in own : decls[k].kind \in {"var", "function"}
      BY <1>6 DEF Own, Kinds
    <3> QED
      BY <3>1 DEF Own, Hoisted, Functions
  <2>2. of({"function"}) \subseteq of(Functions)
    BY DEF Hoisted, Functions
  <2>3. CASE i \in of({"var"}) /\ j \in of({"var"})
    <3> DEFINE S == of({"var"})
    <3>1. S \subseteq 1..N
      BY <1>4
    <3>2. i \in S /\ j \in S /\ j < i
      BY <1>2, <2>3
    <3>3. i # j
      BY <1>3, <3>2
    <3>4. Second(S) # {}
      <4> HIDE DEF S
      <4> QED
        BY <3>1, <3>2, <3>3, SecondElements
    <3> QED
      BY <1>5, <3>4, <2>3, TheTwoPasses
  <2>4. CASE i \in of({"function"}) /\ j \in of({"function"})
    <3> DEFINE S == of({"function"})
    <3>1. S \subseteq 1..N
      BY <1>4
    <3>2. i \in S /\ j \in S /\ j < i
      BY <1>2, <2>4
    <3>3. i # j
      BY <1>3, <3>2
    <3>4. Second(S) # {}
      <4> HIDE DEF S
      <4> QED
        BY <3>1, <3>2, <3>3, SecondElements
    <3> QED
      BY <1>5, <3>4, <2>4, TheTwoPasses
  <2>5. CASE of({"var"}) # {} /\ of(Functions) # {}
    BY <1>5, <2>5, TheTwoPasses
  <2> QED
    BY <1>2, <2>1, <2>2, <2>3, <2>4, <2>5
<1>7. ASSUME Kinds(decls) \cap (Functions \cup {"class", "enum", "namespace"}) = {}
      PROVE  FALSE
  <2>1. \A k \in DOMAIN decls : decls[k].kind \notin Functions \cup {"class", "enum", "namespace"}
    BY <1>7 DEF Kinds
  <2>2. decls[i].kind \in Bindings /\ decls[j].kind \in Bindings
    BY <1>2, <2>1 DEF Own, Bindings, Functions
  <2>3. i \in InScope(decls) /\ j \in InScope(decls)
    BY <1>3, <2>1 DEF InScope
  <2>4. i \in Joins(decls) /\ j \in Joins(decls)
    <3>1. /\ Excludes[decls[i].kind] = Functions \cup {"class", "enum", "namespace"}
          /\ Excludes[decls[j].kind] = Functions \cup {"class", "enum", "namespace"}
      BY <2>2, TablesOfKinds
    <3> QED
      BY <2>1, <2>3, <3>1, JoiningDeclarations
  <2>5. decls[i].kind # "param"
    <3>1. SUFFICES ASSUME decls[i].kind = "param"
                   PROVE  FALSE
      OBVIOUS
    <3>2. i = 1
      BY <1>3, <3>1 DEF AreDeclarations
    <3> QED
      BY <1>2, <1>3, <3>2
  <2>6. decls[j].kind \in ConflictsWith[decls[i].kind]
    BY <2>2, <2>5, TablesOfKinds DEF Bindings
  <2> QED
    BY <1>2, <1>5, <2>4, <2>6, TheTwoPasses
<1> QED
  BY <1>6, <1>7

-----------------------------------------------------------------------------
(* no-unused-vars.                                                         *)
LEMMA UnusedNamesAreJudged ==
    ASSUME NEW items, AreItems(items), NEW p \in Recorded(items),
           items[p[1]].declares[p[2]].role = "name", items[p[1]].declares[p[2]].name # "_a"
    PROVE  LET name == items[p[1]].declares[p[2]].name
               unused == name \notin Exported(items) \cup References(items)
               parts == {d \in UNION {Range(items[i].declares) : i \in DOMAIN items} : d.role # "name"}
               oneScope == \A i, j \in DOMAIN items : items[i].scope = items[j].scope
               read == IsRead(items, items[p[1]].scope, name)
           IN  /\ unused => ~read \/ Declare(name, "default") \in parts
               /\ ~unused /\ oneScope => read \/ name \in Exported(items)
<1> DEFINE name == items[p[1]].declares[p[2]].name
           parts == {d \in UNION {Range(items[i].declares) : i \in DOMAIN items} : d.role # "name"}
           scope == items[p[1]].scope
           Names == [name : STRING, role : {"name", "property", "default"}]
<1>1. \A i \in DOMAIN items : items[i].declares \in Seq(Names)
  <2>1. items \in Seq([declares : Seq(Names), reads : SUBSET STRING, exported : BOOLEAN, scope : {"outer", "inner"}])
    BY DEF AreItems
  <2>2. \A i \in 1..Len(items) : items[i] \in [declares : Seq(Names), reads : SUBSET STRING, exported : BOOLEAN, scope : {"outer", "inner"}]
    BY <2>1, ElementOfSeq
  <2>3. DOMAIN items = 1..Len(items)
    BY <2>1, LenProperties
  <2> QED
    BY <2>2, <2>3
<1>2. \A i \in DOMAIN items : \A j \in DOMAIN items[i].declares : items[i].declares[j] \in Names
  <2>1. SUFFICES ASSUME NEW i \in DOMAIN items, NEW j \in DOMAIN items[i].declares
                 PROVE  items[i].declares[j] \in Names
    OBVIOUS
  <2>2. items[i].declares \in Seq(Names)
    BY <1>1
  <2>3. DOMAIN items[i].declares = 1..Len(items[i].declares)
    BY <2>2, LenProperties
  <2> QED
    BY <2>2, <2>3, ElementOfSeq
<1>3. ASSUME NEW i \in DOMAIN items, name \in Reads(items[i]), name \notin References(items)
      PROVE  Declare(name, "default") \in parts
  <2>1. name \notin items[i].reads
    BY <1>3 DEF References
  <2>2. PICK j \in DOMAIN items[i].declares : items[i].declares[j].role = "default" /\ items[i].declares[j].name = name
    BY <1>3, <2>1 DEF Reads
  <2>3. items[i].declares[j] = Declare(name, "default")
    BY <1>2, <2>2 DEF Declare
  <2>4. items[i].declares[j] \in Range(items[i].declares)
    BY <2>2 DEF Range
  <2> QED
    BY <2>2, <2>3, <2>4
<1>4. ASSUME NEW i \in DOMAIN items, name \in items[i].reads, items[i].scope = scope
      PROVE  IsRead(items, scope, name)
  BY <1>4 DEF IsRead, Reads
<1>5. p[1] \in DOMAIN items
  BY DEF Recorded, DeclaredNames
<1>6. name \in References(items) => \E i \in DOMAIN items : name \in items[i].reads
  BY DEF References
<1>7. IsRead(items, scope, name) => \E i \in DOMAIN items : name \in Reads(items[i])
  BY DEF IsRead
<1> QED
  BY <1>3, <1>4, <1>5, <1>6, <1>7

-----------------------------------------------------------------------------
(* Once the handler of a rule has run, the reports are what it says of the *)
(* node; this is what the seven handlers report.                             *)
ScopeReports(r, n) ==
    IF r = UseBeforeDefineId THEN VisitUse(n)
    ELSE IF r = UndefId THEN VisitUndef(n)
    ELSE IF r = FunctionAssignId THEN VisitAssignment(n)
    ELSE IF r = ImportAssignId THEN VisitImport(n)
    ELSE IF r = InnerDeclarationsId THEN VisitInner(n)
    ELSE IF r = RedeclareId THEN VisitRedeclare(n) ELSE VisitUnused(n)

ScopesAreVisited ==
    /\ rule \in ScopeRuleIds
    /\ IsScopeNode(rule, node)
    /\ visited \in BOOLEAN
    /\ visited => reports = ScopeReports(rule, node)

(* The rules are told apart by their names.                                *)
LEMMA ScopeRuleNames ==
    /\ UseBeforeDefineId \notin {UndefId, FunctionAssignId, ImportAssignId, InnerDeclarationsId, RedeclareId, UnusedVarsId}
    /\ UndefId \notin {FunctionAssignId, ImportAssignId, InnerDeclarationsId, RedeclareId, UnusedVarsId}
    /\ FunctionAssignId \notin {ImportAssignId, InnerDeclarationsId, RedeclareId, UnusedVarsId}
    /\ ImportAssignId \notin {InnerDeclarationsId, RedeclareId, UnusedVarsId}
    /\ InnerDeclarationsId \notin {RedeclareId, UnusedVarsId}
    /\ RedeclareId # UnusedVarsId
BY DEF UseBeforeDefineId, UndefId, FunctionAssignId, ImportAssignId, InnerDeclarationsId, RedeclareId, UnusedVarsId

(* The handlers keep the invariant, one case for each rule.                *)
LEMMA ScopesStayVisited == ScopesAreVisited /\ [ScopeNext]_vars => ScopesAreVisited'
<1>1. SUFFICES ASSUME ScopesAreVisited, [ScopeNext]_vars
               PROVE  ScopesAreVisited'
  OBVIOUS
<1>3. CASE Dispatch(UseBeforeDefineId, VisitUse)
  <2>1. reports' = ScopeReports(rule, node)
    BY <1>3, ScopeRuleNames DEF Dispatch, ScopeReports
  <2> QED
    BY <1>1, <1>3, <2>1 DEF Dispatch, ScopesAreVisited
<1>4. CASE Dispatch(UndefId, VisitUndef)
  <2>1. reports' = ScopeReports(rule, node)
    BY <1>4, ScopeRuleNames DEF Dispatch, ScopeReports
  <2> QED
    BY <1>1, <1>4, <2>1 DEF Dispatch, ScopesAreVisited
<1>5. CASE Dispatch(RedeclareId, VisitRedeclare)
  <2>1. reports' = ScopeReports(rule, node)
    BY <1>5, ScopeRuleNames DEF Dispatch, ScopeReports
  <2> QED
    BY <1>1, <1>5, <2>1 DEF Dispatch, ScopesAreVisited
<1>6. CASE Dispatch(UnusedVarsId, VisitUnused)
  <2>1. reports' = ScopeReports(rule, node)
    BY <1>6, ScopeRuleNames DEF Dispatch, ScopeReports
  <2> QED
    BY <1>1, <1>6, <2>1 DEF Dispatch, ScopesAreVisited
<1>7. CASE Dispatch(FunctionAssignId, VisitAssignment)
  <2>1. reports' = ScopeReports(rule, node)
    BY <1>7, ScopeRuleNames DEF Dispatch, ScopeReports
  <2> QED
    BY <1>1, <1>7, <2>1 DEF Dispatch, ScopesAreVisited
<1>8. CASE Dispatch(ImportAssignId, VisitImport)
  <2>1. reports' = ScopeReports(rule, node)
    BY <1>8, ScopeRuleNames DEF Dispatch, ScopeReports
  <2> QED
    BY <1>1, <1>8, <2>1 DEF Dispatch, ScopesAreVisited
<1>9. CASE Dispatch(InnerDeclarationsId, VisitInner)
  <2>1. reports' = ScopeReports(rule, node)
    BY <1>9, ScopeRuleNames DEF Dispatch, ScopeReports
  <2> QED
    BY <1>1, <1>9, <2>1 DEF Dispatch, ScopesAreVisited
<1>10. CASE UNCHANGED vars
  BY <1>1, <1>10 DEF vars, ScopesAreVisited
<1> QED
  BY <1>1, <1>3, <1>4, <1>5, <1>6, <1>7, <1>8, <1>9, <1>10 DEF ScopeNext

(* Each property under the name of its rule.                               *)
LEMMA VisitedScopesAreJudged ==
    ASSUME ScopesAreVisited
    PROVE  NamesMeanTheirBindings
<1>1. UsesBeforeDefinition
  <2>1. SUFFICES ASSUME rule = UseBeforeDefineId, visited, ~Has(node.chain, {"with"}), node.form \in {"plain", "new"}
                 PROVE  /\ reports # {} /\ IsQuiet(node) => TooEarly(node) \/ (node.decl = "var" /\ Has(Between(node), {"field"}))
                        /\ node.where = "within" /\ reports = {} /\ TooEarly(node) =>
                                node.decl = "class" /\ Has(From(node.chain, node.depth + 3), {"heritage"})
                        /\ node.where = "before" /\ node.decl \in {"let", "const", "class"} /\ reports = {} =>
                                ~TooEarly(node) \/ (IsQuiet(node) /\ (ReferenceInDeferredBody(node.chain) \/ node.decl = "class"))
    BY DEF UsesBeforeDefinition, Visited
  <2>2. IsPlacedUse(node) /\ reports = VisitUse(node)
    BY <2>1 DEF ScopesAreVisited, IsScopeNode, ScopeReports
  <2> QED
    BY <2>1, <2>2, UsesAreJudged
<1>2. UndefinedNamesAreUnbound
  <2>1. SUFFICES ASSUME rule = UndefId, visited, ~Overlooked(node.frames, {"{x}", "nested var", "import", "enum"})
                 PROVE  reports # {} <=> Binding(node.frames) = "none" /\ IsFreeReference(node.form)
                          /\ node.form \notin {"type", "exported"} /\ (node.form = "typeof" => node.typeof)
    BY DEF UndefinedNamesAreUnbound, Visited
  <2>2. AreFrames(node.frames) /\ reports = VisitUndef(node)
    BY <2>1, ScopeRuleNames DEF ScopesAreVisited, IsScopeNode, ScopeReports
  <2> QED
    BY <2>1, <2>2, UndefinedNamesAreJudged
<1>3. AssignedFunctionsAreFunctions
  <2>1. ASSUME rule = FunctionAssignId, visited
        PROVE  AreFrames(node.frames) /\ reports = VisitAssignment(node)
    BY <2>1, ScopeRuleNames DEF ScopesAreVisited, IsScopeNode, ScopeReports
  <2> QED
    BY <2>1, AssignmentsAreJudged DEF AssignedFunctionsAreFunctions, Visited
<1>4. MutatedNamespacesAreReported
  <2>1. ASSUME rule = ImportAssignId, visited
        PROVE  AreFrames(node.frames) /\ reports = VisitImport(node)
    BY <2>1, ScopeRuleNames DEF ScopesAreVisited, IsScopeNode, ScopeReports
  <2> QED
    BY <2>1, MutationsAreJudged DEF MutatedNamespacesAreReported, Visited
<1>5. InnerFunctionsAreSloppy
  <2>1. ASSUME rule = InnerDeclarationsId, visited
        PROVE  IsPlacedDeclaration(node) /\ reports = VisitInner(node)
    BY <2>1, ScopeRuleNames DEF ScopesAreVisited, IsScopeNode, ScopeReports
  <2> QED
    BY <2>1, InnerFunctionsAreJudged DEF InnerFunctionsAreSloppy, Visited
<1>6. RedeclarationsAreRebindings
  <2>1. SUFFICES ASSUME rule = RedeclareId, visited
                 PROVE  /\ \A i \in reports : \E j \in 1..(i - 1) :
                                node.decls[j].kind \in ConflictsWith[node.decls[i].kind] \cup Functions \cup Bindings
                        /\ Kinds(node.decls) \subseteq {"function", "overload"} =>
                                (reports # {} <=> Rebinds(node.decls, node.strict))
                        /\ Rebinds(node.decls, node.strict) /\ reports = {} =>
                                /\ Kinds(node.decls) \cap {"binding", "param"} # {}
                                /\ Kinds(node.decls) \cap (Functions \cup {"class", "enum", "namespace"}) # {}
    BY DEF RedeclarationsAreRebindings, Visited, Kinds
  <2>2. AreDeclarations(node.decls) /\ reports = VisitRedeclare(node)
    BY <2>1, ScopeRuleNames DEF ScopesAreVisited, IsScopeNode, ScopeReports
  <2> QED
    BY <2>1, <2>2, ReportedDeclarationsHaveAnEarlier, FunctionsRedeclared, HiddenRedeclarations
<1>7. UnusedNamesAreUnread
  <2> DEFINE items == node.items
             d(p) == items[p[1]].declares[p[2]]
             oneScope == \A i, j \in DOMAIN items : items[i].scope = items[j].scope
             parts == {e \in UNION {Range(items[i].declares) : i \in DOMAIN items} : e.role # "name"}
             read(p) == IsRead(items, items[p[1]].scope, d(p).name)
  <2>1. SUFFICES ASSUME rule = UnusedVarsId, visited
                 PROVE  \A p \in Recorded(items) : d(p).role = "name" /\ d(p).name # "_a" =>
                            /\ p \in reports => ~read(p) \/ Declare(d(p).name, "default") \in parts
                            /\ p \notin reports /\ oneScope => read(p) \/ d(p).name \in Exported(items)
    BY DEF UnusedNamesAreUnread, Visited
  <2>2. AreItems(items) /\ reports = VisitUnused(node)
    BY <2>1, ScopeRuleNames DEF ScopesAreVisited, IsScopeNode, ScopeReports
  <2>3. SUFFICES ASSUME NEW p \in Recorded(items), d(p).role = "name", d(p).name # "_a"
                 PROVE  /\ p \in reports => ~read(p) \/ Declare(d(p).name, "default") \in parts
                        /\ p \notin reports /\ oneScope => read(p) \/ d(p).name \in Exported(items)
    OBVIOUS
  <2>4. p \in reports <=> d(p).name \notin Exported(items) \cup References(items)
    BY <2>2, <2>3 DEF VisitUnused
  <2> QED
    BY <2>2, <2>3, <2>4, UnusedNamesAreJudged
<1> QED
  BY <1>1, <1>2, <1>3, <1>4, <1>5, <1>6, <1>7 DEF NamesMeanTheirBindings

(* The promise of the seven rules on scopes, whatever uses, frames,        *)
(* declarations and items a program contains: a rule is right about the    *)
(* scopes of the language except where it is known to overlook one.        *)
THEOREM NamesAreJudged ==
    ASSUME NEW nodes, \A r \in ScopeRuleIds : \A n \in nodes[r] : IsScopeNode(r, n)
    PROVE  ScopeSpec(nodes) => []NamesMeanTheirBindings
<1> DEFINE Init == \E r \in ScopeRuleIds : Start(r, nodes[r])
<1>1. Init => ScopesAreVisited
  BY DEF Start, ScopesAreVisited
<1>2. ScopesAreVisited => NamesMeanTheirBindings
  BY VisitedScopesAreJudged
<1> QED
  BY <1>1, <1>2, ScopesStayVisited, PTL DEF ScopeSpec
=============================================================================
