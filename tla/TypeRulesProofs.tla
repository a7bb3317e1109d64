-------------------------- MODULE TypeRulesProofs --------------------------
(***************************************************************************)
(* Four groups of rules that ask the checker, for whatever nodes they are  *)
(* shown: assertions, places for void functions, uses of deprecated names, *)
(* and the bodies of asynchronous functions and executors.                 *)
(*                                                                         *)
(* What a handler reports is a function of the node, so each invariant     *)
(* only says that once it has run the reports are that function's value.   *)
(* The work is in the lemmas that compare the value with the program.      *)
(***************************************************************************)
EXTENDS Assertions, VoidReturns, Deprecated, AsyncFunctions,
    TLAPS, FiniteSetTheorems, SequenceTheorems, WellFoundedInduction

(* Every set of naturals that is not empty has a least element.            *)
LEMMA LeastElement ==
    ASSUME NEW T, T \subseteq Nat, T # {}
    PROVE  \E n \in T : \A m \in T : n <= m
<1>1. PICK n \in T : \A m \in T : <<m, n>> \notin OpToRel(<, Nat)
  BY WFMin, NatLessThanWellFounded
<1>2. \A m \in T : ~(m < n)
  BY <1>1 DEF OpToRel
<1> QED
  BY <1>2

-----------------------------------------------------------------------------
(* no-unnecessary-type-assertion.                                          *)
(* Null and undefined go only where a type may be nullish, unless one of   *)
(* the two types is not checked at all.                                    *)
LEMMA NullishTypesGoToNullishTypes ==
    ASSUME NEW s, NEW t, Assignable(s, t), MayBeNullish(s), ~MayBeNullish(t)
    PROVE  "any" \in s \cup t
<1> SUFFICES ASSUME ~Unchecked(s, t)
             PROVE  FALSE
  BY DEF Unchecked, MayBeNullish, NotSurelyThere
<1>1. \A m \in NotSurelyThere : ~TakesMember(t, m)
  BY DEF TakesMember, MayBeNullish, NotSurelyThere, NullishTypes, Literals
<1>2. PICK m \in s : \/ m \in NotSurelyThere
                     \/ m \in DOMAIN ParameterConstraint /\ ParameterConstraint[m] \intersect NotSurelyThere # {}
  BY DEF MayBeNullish
<1>3. \/ TakesMember(t, m)
      \/ m \in DOMAIN ParameterConstraint /\ Fits(ParameterConstraint[m], t)
      \/ m \in DOMAIN Shapes
  BY DEF Assignable
<1>4. CASE m \in NotSurelyThere
  BY <1>1, <1>3, <1>4 DEF NotSurelyThere, NullishTypes, ParameterConstraint, Shapes
<1>5. CASE m \in DOMAIN ParameterConstraint /\ ParameterConstraint[m] \intersect NotSurelyThere # {}
  <2>1. m = "T<undefined>" /\ ParameterConstraint[m] = {"string", "undefined"}
    BY <1>5 DEF ParameterConstraint, NotSurelyThere, NullishTypes
  <2>2. m \notin t
    BY <1>5 DEF MayBeNullish
  <2>3. ~TakesMember(t, m)
    BY <2>1, <2>2 DEF TakesMember, NullishTypes, Literals, ParameterConstraint
  <2>4. ~Fits(ParameterConstraint[m], t)
    BY <1>1, <2>1 DEF Fits, Unchecked, NotSurelyThere, NullishTypes
  <2> QED
    BY <1>3, <2>1, <2>3, <2>4 DEF Shapes
<1> QED
  BY <1>2, <1>4, <1>5

(* What is judged by its context either only has to fit there or is one of *)
(* the calls whose signature the rule takes for chosen.                    *)
LEMMA ContextsOnlyCheck ==
    ASSUME NEW n, n.place.expected # {}, n.nonNull \/ FitsTheContext(n)
    PROVE  OnlyChecked(n) \/ ExpectedAsInferred(n)
  BY DEF OnlyChecked, ExpectedAsInferred, FitsTheContext, InGenericCall, ShouldSkipContextual, IsArgument

(* A reported `as` can go: the expression has the type anyhow, or its place*)
(* only checks it.                                                         *)
LEMMA ReportedAssertionsCanGo ==
    ASSUME IsAssertion(node), ~node.nonNull, reports = VisitTypeAssertion(node)
    PROVE  ReportedAssertionsChangeNothing
<1> SUFFICES ASSUME VisitAs(node) # {}
             PROVE  \/ node.target = {"const"} /\ (TypeAlone(node) = node.constType \/ node.source = "array")
                    \/ TypeAlone(node) = node.target \/ SourceType(node) \cup node.target = {"T<string>", "T<string>&{}"}
                    \/ SourceKind(node) = "object literal" /\ HasSameProperties(SourceType(node), node.target)
                    \/ (OnlyChecked(node) \/ ExpectedAsInferred(node)) /\ Assignable(TypeAlone(node), node.place.expected)
  BY DEF ReportedAssertionsChangeNothing, VisitTypeAssertion
<1>1. CASE node.target = {"const"}
  <2>1. IsAlreadyConst(node)
    BY <1>1 DEF VisitAs
  <2>2. TypeAlone(node) = node.type
    BY <1>1, <2>1 DEF IsAlreadyConst, IsAssertion, TypeAlone, SourceType
  <2> QED
    BY <1>1, <2>2 DEF IsAssertion
<1>2. CASE node.target # {"const"}
  <2>1. ~IsKept(node) /\ (SameType(node) \/ FitsTheContext(node))
    BY <1>2 DEF VisitAs
  <2>2. CASE SourceType(node) = node.target
    <3>1. SUFFICES ASSUME SourceKind(node) = "literal", IsInWideningPosition(node.place)
                   PROVE  FALSE
      BY <2>2 DEF TypeAlone
    <3>2. node.source = "literal" /\ SourceType(node) = node.type
      BY <3>1 DEF SourceKind, SourceType
    <3>3. IsLiteralOrTuple(node.target)
      BY <2>2, <3>2 DEF IsAssertion, IsLiteralOrTuple
    <3> QED
      BY <2>1, <3>1, <3>3 DEF IsKept
  <2>3. CASE IsIntersectedWithEmptyObject(SourceType(node), node.target)
    BY <2>3 DEF IsIntersectedWithEmptyObject
  <2>4. CASE FitsTheContext(node)
    <3>1. node.place.expected # {} /\ Assignable(SourceType(node), node.place.expected)
      BY <2>4 DEF FitsTheContext
    <3>2. TypeAlone(node) = SourceType(node)
      BY <3>1 DEF TypeAlone
    <3> QED
      BY <2>4, <3>1, <3>2, ContextsOnlyCheck
  <2> QED
    BY <2>1, <2>2, <2>3, <2>4 DEF SameType
<1> QED
  BY <1>1, <1>2

(* A reported `!` changes nothing, and one that changes nothing is reported*)
(* where nothing is left unchecked.                                        *)
LEMMA NonNullAssertionsAreJudged ==
    ASSUME node.nonNull, reports = VisitTypeAssertion(node)
    PROVE  NonNullAssertionsAreNeeded
<1>1. reports = VisitNonNull(node)
  BY DEF VisitTypeAssertion
<1>2. ASSUME reports # {}
      PROVE  \/ node.place.kind = "left of =" \/ ~MayBeNullish(node.type)
             \/ (OnlyChecked(node) \/ ExpectedAsInferred(node)) /\ Assignable(node.type, node.place.expected)
  BY <1>1, <1>2, ContextsOnlyCheck DEF VisitNonNull, AcceptsNull
<1>3. ASSUME reports = {}, node.place.kind \notin {"=", "= in an expression"}, ~PossiblyUnassigned(node),
             "any" \notin node.type \cup node.place.expected
      PROVE  MayBeNullish(node.type) /\ (node.place.expected = {} \/ ~Assignable(node.type, node.place.expected))
  <2>1. ~AcceptsNull(node) /\ (node.type \in {{"any"}, {"unknown"}, {"void"}} \/ MayBeNullish(node.type))
    BY <1>1, <1>3 DEF VisitNonNull
  <2>2. MayBeNullish(node.type)
    BY <1>3, <2>1 DEF MayBeNullish, NotSurelyThere, NullishTypes
  <2> QED
    BY <1>3, <2>1, <2>2, NullishTypesGoToNullishTypes DEF AcceptsNull
<1> QED
  BY <1>2, <1>3 DEF NonNullAssertionsAreNeeded

(* The promise of no-unnecessary-type-assertion, for every set of          *)
(* assertions a program can contain: what it would remove is not needed.   *)
THEOREM AssertionsAreJudged ==
    ASSUME NEW assertions, \A n \in assertions : IsAssertion(n)
    PROVE  AssertionsSpec(assertions) => []AssertionsAreNeeded
<1> DEFINE Inv == /\ rule = AssertionId /\ node \in assertions
                  /\ visited => reports = VisitTypeAssertion(node)
<1>1. Start(AssertionId, assertions) => Inv
  BY DEF Start
<1>2. Inv /\ [Dispatch(AssertionId, VisitTypeAssertion)]_vars => Inv'
  BY DEF Dispatch, vars
<1>3. Inv => AssertionsAreNeeded
  <2>1. CASE Inv /\ visited /\ node.nonNull
    BY <2>1, NonNullAssertionsAreJudged DEF AssertionsAreNeeded, ReportedAssertionsChangeNothing
  <2>2. CASE Inv /\ visited /\ ~node.nonNull
    BY <2>2, ReportedAssertionsCanGo DEF AssertionsAreNeeded, NonNullAssertionsAreNeeded
  <2>3. CASE ~visited
    BY <2>3 DEF AssertionsAreNeeded, ReportedAssertionsChangeNothing, NonNullAssertionsAreNeeded, Visited
  <2> QED
    BY <2>1, <2>2, <2>3
<1> QED
  BY <1>1, <1>2, <1>3, PTL DEF AssertionsSpec

-----------------------------------------------------------------------------
(* strict-void-return.                                                     *)
(* A function the checker has signatures for may lose a value just when    *)
(* one of them is not allowed.                                             *)
LEMMA LosingFunctionsAreNotAllowed ==
    ASSUME NEW f, NEW allowAny, CallSignatures(f.type) # {}
    PROVE  MayLose(f, allowAny) <=> ~AllowedReturn(f.type, allowAny)
<1> DEFINE all == UNION UNION {m.results : m \in f.type}
<1>1. \A m \in f.type : m.results # {}
  BY DEF CallSignatures
<1>2. CASE CallSignatures(f.type) = UNION {m.results : m \in f.type}
  BY <1>2 DEF MayLose, AllowedReturn
<1>3. CASE CallSignatures(f.type) = {all}
  <2>1. Lost(all, allowAny) <=> \E m \in f.type : \E r \in m.results : Lost(r, allowAny)
    BY DEF Lost
  <2> QED
    BY <1>3, <2>1 DEF MayLose, AllowedReturn
<1> QED
  BY <1>1, <1>2, <1>3 DEF CallSignatures

(* What is reported about a function: it may lose a value.                 *)
LEMMA ReportedFunctionsLose ==
    ASSUME NEW f, NEW allowAny, f.written = "other" \/ IsFunctionExpression(f), ReportIfNonVoid(f, allowAny) # {}
    PROVE  MayLose(f, allowAny)
<1>1. ~AllowedReturn(f.type, allowAny)
  BY DEF ReportIfNonVoid
<1>2. CallSignatures(f.type) # {}
  <2>1. CASE f.written = "other"
    BY <1>1, <2>1 DEF ReportIfNonVoid
  <2>2. CASE IsFunctionExpression(f)
    <3>1. PICK m \in f.type : \E r \in m.results : f.type = {m} /\ m.results = {r}
      BY <2>2 DEF IsFunctionExpression
    <3>2. m.results # {} /\ UNION {k.results : k \in f.type} # {} /\ Cardinality(f.type) = 1
      BY <3>1, FS_Singleton
    <3> QED
      BY <3>1, <3>2 DEF CallSignatures
  <2> QED
    BY <2>1, <2>2
<1> QED
  BY <1>1, <1>2, LosingFunctionsAreNotAllowed

(* The values of a function expression account for what it may lose.       *)
LEMMA ExpressionsLoseByTheirValues ==
    ASSUME NEW f, NEW allowAny, IsFunctionExpression(f), MayLose(f, allowAny),
           f.written = "function", ~f.async, f.annotation \in {{}, {"void"}}
    PROVE  ReturnsLost(f, allowAny) # {}
<1>1. PICK m \in f.type : \E r \in m.results :
             /\ f.type = {m} /\ m.results = {r}
             /\ IF f.annotation = {} THEN r \subseteq {"void"} \cup UNION f.values ELSE r = f.annotation
  BY DEF IsFunctionExpression
<1>2. PICK r \in m.results :
             /\ f.type = {m} /\ m.results = {r}
             /\ IF f.annotation = {} THEN r \subseteq {"void"} \cup UNION f.values ELSE r = f.annotation
  BY <1>1
<1>3. Lost(r, allowAny)
  BY <1>2 DEF MayLose
<1>4. PICK x \in r : x \notin {"void", "undefined", "never"} \cup (IF allowAny THEN {"any"} ELSE {})
  BY <1>3 DEF Lost
<1>5. PICK v \in f.values : x \in v
  BY <1>2, <1>4
<1>6. ~AllowedValue(v, allowAny)
  BY <1>4, <1>5 DEF AllowedValue, Lost
<1>7. <<"value", v>> \in ReturnsLost(f, allowAny)
  BY <1>5, <1>6 DEF ReturnsLost
<1> QED
  BY <1>7

(* What passes where a value may be lost is not known to be a function.    *)
LEMMA QuietFunctionsLoseNothing ==
    ASSUME NEW f, NEW allowAny, f.written = "other" \/ IsFunctionExpression(f),
           ReportIfNonVoid(f, allowAny) = {}, MayLose(f, allowAny)
    PROVE  CallSignatures(f.type) = {}
<1> SUFFICES ASSUME CallSignatures(f.type) # {}
             PROVE  FALSE
  OBVIOUS
<1>1. ~AllowedReturn(f.type, allowAny)
  BY LosingFunctionsAreNotAllowed
<1>2. ~IsNullishOrAny(f.type)
  BY DEF IsNullishOrAny, NoFunction, MayLose
<1>3. /\ f.written # "other" /\ f.written # "generator" /\ ~f.async
      /\ f.annotation \in {{}, {"void"}} /\ ReturnsLost(f, allowAny) = {}
  BY <1>1, <1>2 DEF ReportIfNonVoid
<1>4. IsFunctionExpression(f) /\ f.written = "function"
  BY <1>3 DEF IsFunctionExpression
<1> QED
  BY <1>3, <1>4, ExpressionsLoseByTheirValues

(* What is reported is a function that may return a value where void is    *)
(* expected.                                                               *)
LEMMA ReportedResultsAreLost ==
    ASSUME IsVoidPlace(node), reports = VisitVoidReturn(node)
    PROVE  ReportedValuesAreLost
<1> SUFFICES ASSUME node.place \notin {"method", "getter"}, reports # {}
             PROVE  /\ MayLose(node.function, node.allowAny)
                    /\ \/ IsVoidFunction(node.expected)
                       \/ node.place = "argument" /\ "void" \in ArgReturns(node) /\ ArgReturns(node) \subseteq NullishOrAny
  BY DEF ReportedValuesAreLost
<1>1. /\ ReportIfNonVoid(node.function, node.allowAny) # {}
      /\ \/ IsVoidFunction(node.expected)
         \/ node.place = "argument" /\ "void" \in ArgReturns(node) /\ ArgReturns(node) \subseteq NullishOrAny
  BY DEF VisitVoidReturn, VisitArgument, VisitField, CheckExpression
<1> QED
  BY <1>1, ReportedFunctionsLose DEF IsVoidPlace

(* An expected void function has a result, so its overload returns void.   *)
LEMMA VoidFunctionsReturn ==
    ASSUME NEW n, OverloadsAreTypes(n), IsVoidFunction(n.expected)
    PROVE  ArgReturns(n) # {}
<1>1. PICK m \in n.expected : IsVoidFunctionMember(m)
  BY DEF IsVoidFunction
<1>2. PICK r \in m.results : r # {}
  BY <1>1 DEF IsVoidFunctionMember, OverloadsAreTypes
<1> QED
  BY <1>1, <1>2 DEF ArgReturns, OverloadsAreTypes

(* A function that may lose a value is reported, except in the places the  *)
(* rule does not look at and behind overloads.                             *)
LEMMA LostResultsAreReported ==
    ASSUME IsVoidPlace(node), reports = VisitVoidReturn(node)
    PROVE  LostValuesAreReported
<1> SUFFICES ASSUME node.place \notin {"method", "getter"}, IsVoidFunction(node.expected),
                    MayLose(node.function, node.allowAny), VisitVoidReturn(node) = {}, node.place \notin Unlooked,
                    ~(node.place = "attribute" /\ node.function.identifier), CallSignatures(node.function.type) # {}
             PROVE  node.place = "argument" /\ ~AllVoidLike(ArgReturns(node)) /\ Cardinality(node.overloads) > 1
  BY DEF LostValuesAreReported
<1>1. ReportIfNonVoid(node.function, node.allowAny) # {}
  BY QuietFunctionsLoseNothing DEF IsVoidPlace
<1>2. node.place = "argument"
  <2>1. SUFFICES ASSUME node.place \in CheckedPlaces
                 PROVE  FALSE
    BY DEF IsVoidPlace
  <2> QED
    BY <1>1, <2>1 DEF VisitVoidReturn, CheckExpression, CheckedPlaces
<1>3. VisitArgument(node) = {} /\ OverloadsAreTypes(node)
  BY <1>2 DEF VisitVoidReturn, IsVoidPlace
<1>4. ~AllVoidLike(ArgReturns(node)) /\ Cardinality(node.overloads) # 1
  BY <1>1, <1>3, VoidFunctionsReturn DEF VisitArgument
<1>5. Cardinality(node.overloads) \in Nat /\ Cardinality(node.overloads) # 0
  BY <1>3, FS_CardinalityType, FS_EmptySet DEF OverloadsAreTypes
<1> QED
  BY <1>2, <1>4, <1>5

(* A method is compared with the one it inherits.                          *)
LEMMA MethodsAreCompared ==
    ASSUME IsVoidPlace(node), reports = VisitVoidReturn(node)
    PROVE  MethodsAreJudged
<1> DEFINE void == {i \in DOMAIN node.inherited : AllVoid(node.inherited[i])}
           loses == node.function.async \/ node.function.written = "generator" \/ ReturnsLost(node.function, node.allowAny) # {}
<1> SUFFICES ASSUME node.place = "method", node.in = "class", node.function.annotation = {}
             PROVE  /\ reports # {} => loses /\ (void = DOMAIN node.inherited \/ 1 \in void)
                    /\ (loses /\ void = DOMAIN node.inherited /\ void # {}) => reports # {}
  BY DEF MethodsAreJudged
<1>1. reports = VisitMethod(node) /\ node.inherited \in Seq(SUBSET STRING)
  BY DEF VisitVoidReturn, IsVoidPlace
<1>2. MethodIsVoid(node) <=> 1 \in void
  BY <1>1 DEF MethodIsVoid
<1>3. VisitMethod(node) # {} <=> MethodIsVoid(node) /\ loses
  BY DEF VisitMethod
<1>4. void = DOMAIN node.inherited /\ void # {} => 1 \in void
  BY <1>1
<1> QED
  BY <1>1, <1>2, <1>3, <1>4

(* The promise of strict-void-return, for every place a program can put a  *)
(* function in: no result is lost unseen, and none reported is kept.       *)
THEOREM ResultsAreJudged ==
    ASSUME NEW nodes, \A n \in nodes : IsVoidPlace(n)
    PROVE  VoidSpec(nodes) => []ResultsAreNotLost
<1> DEFINE Inv == /\ rule = VoidReturnId /\ node \in nodes
                  /\ visited => reports = VisitVoidReturn(node)
<1>1. Start(VoidReturnId, nodes) => Inv
  BY DEF Start
<1>2. Inv /\ [Dispatch(VoidReturnId, VisitVoidReturn)]_vars => Inv'
  BY DEF Dispatch, vars
<1>3. Inv => ResultsAreNotLost
  <2>1. CASE Inv /\ visited
    BY <2>1, ReportedResultsAreLost, LostResultsAreReported, MethodsAreCompared DEF ResultsAreNotLost
  <2>2. CASE ~visited
    BY <2>2 DEF ResultsAreNotLost, ReportedValuesAreLost, LostValuesAreReported, MethodsAreJudged, Visited
  <2> QED
    BY <2>1, <2>2
<1> QED
  BY <1>1, <1>2, <1>3, PTL DEF VoidSpec

-----------------------------------------------------------------------------
(* no-deprecated.                                                          *)
Bindings(n) == {i \in DOMAIN n.decls : n.decls[i].kind \notin Overloads \cup {"this specifier"}}
OverloadsOf(n) == {i \in DOMAIN n.decls : n.decls[i].kind \in Overloads}

(* A path has a first step.                                                *)
LEMMA PathsStartSomewhere ==
    ASSUME NEW p \in Seq(STRING), p # <<>>
    PROVE  1 \in DOMAIN p
  BY LenProperties

(* The first deprecated declaration is one of the deprecated ones.         *)
LEMMA FirstDeprecated ==
    ASSUME NEW n, IsUse(n), SymbolIsDeprecated(n.decls)
    PROVE  \E i \in DeprecatedIn(n.decls) : FirstDeprecatedDeclaration(n.decls) = n.decls[i]
<1>1. n.decls \in Seq([kind : STRING, deprecated : BOOLEAN])
  BY DEF IsUse
<1>2. DOMAIN n.decls \subseteq Nat
  BY <1>1, LenProperties
<1>3. DeprecatedIn(n.decls) \subseteq Nat /\ DeprecatedIn(n.decls) # {}
  BY <1>2 DEF DeprecatedIn, SymbolIsDeprecated
<1>4. \E k \in DeprecatedIn(n.decls) : \A j \in DeprecatedIn(n.decls) : k <= j
  BY <1>3, LeastElement
<1>5. (CHOOSE k \in DeprecatedIn(n.decls) : \A j \in DeprecatedIn(n.decls) : k <= j) \in DeprecatedIn(n.decls)
  BY <1>4
<1> QED
  BY <1>5 DEF FirstDeprecatedDeclaration

(* A declaration is a binding's or an overload's unless it is an export.   *)
LEMMA DeclarationsOfUses ==
    ASSUME NEW n, IsUse(n), ~(n.kind = "identifier" /\ n.path[1] = "export")
    PROVE  DOMAIN n.decls = Bindings(n) \cup OverloadsOf(n)
  BY DEF IsUse, Bindings, OverloadsOf

(* UsesDeprecated, by the two sets.                                        *)
LEMMA DeprecatedUse ==
    ASSUME NEW n
    PROVE  UsesDeprecated(n) <=>
             \/ Bindings(n) \cap DeprecatedIn(n.decls) # {}
             \/ IF SelectsOverload(n) THEN n.selected \in DeprecatedIn(n.decls)
                ELSE OverloadsOf(n) # {} /\ OverloadsOf(n) \subseteq DeprecatedIn(n.decls)
  BY DEF UsesDeprecated, Bindings, OverloadsOf

(* Without a call the deprecation of any declaration counts, unless another
   overload has none.                                                      *)
LEMMA UnselectedUse ==
    ASSUME NEW n, IsUse(n), ~(n.kind = "identifier" /\ n.path[1] = "export"), ~OneOverload(n),
           ~SelectsOverload(n), ~(n.kind = "identifier" /\ GetCallLikeNode(n))
    PROVE  UsesDeprecated(n) <=> SymbolIsDeprecated(n.decls)
<1>1. DeprecatedIn(n.decls) \subseteq Bindings(n) \cup OverloadsOf(n)
  BY DeclarationsOfUses DEF DeprecatedIn
<1>2. SymbolIsDeprecated(n.decls) => OverloadsOf(n) \subseteq DeprecatedIn(n.decls)
  <2>1. n.path[1] # "export"
    BY DEF IsUse
  <2> QED
    BY <2>1 DEF OneOverload, OverloadsOf, DeprecatedIn
<1> QED
  BY <1>1, <1>2, DeprecatedUse DEF SymbolIsDeprecated

(* Only a call selects, and what is no callee and no member is not called. *)
LEMMA UncalledPlaces ==
    ASSUME NEW n, n.path \in Seq(STRING), n.path[1] \notin {"callee", "tag", "jsx"} \cup AroundCallee
    PROVE  ~GetCallLikeNode(n) /\ ~SelectsOverload(n)
<1>1. ASSUME NEW i \in DOMAIN n.path, n.path[i] \in {"callee", "tag", "jsx"}, \A j \in 1..(i - 1) : n.path[j] \in AroundCallee
      PROVE  FALSE
  <2>1. i \in Nat /\ i >= 1
    BY LenProperties
  <2>2. i # 1
    BY <1>1
  <2>3. 1 \in 1..(i - 1)
    BY <2>1, <2>2
  <2> QED
    BY <1>1, <2>3
<1> QED
  BY <1>1 DEF GetCallLikeNode, SelectsOverload, AroundCallee

(* A call whose overload the checker knows selects it.                     *)
LEMMA CallsSelect ==
    ASSUME NEW n, GetCallLikeNode(n), n.selected # 0
    PROVE  SelectsOverload(n)
  BY DEF GetCallLikeNode, SelectsOverload, AroundCallee

(* Once the package is known, only the options keep a report back.         *)
LEMMA AllowedUses ==
    ASSUME NEW n, IsUse(n), ~PackageUnknown(n)
    PROVE  /\ ReportSym(n) # {} <=> ~Suppressed(n)
           /\ n.path[1] \in {"binding", "attribute"} \/ n.kind # "identifier" => (Report(n) # {} <=> ~Suppressed(n))
  BY DEF IsUse, PackageUnknown, ReportSym, Report, IsAllowed, Suppressed

(* A super call.                                                           *)
LEMMA SuperUses ==
    ASSUME NEW n, IsUse(n), n.kind = "super", ~PackageUnknown(n)
    PROVE  (VisitSuperKeyword(n) # {}) = (~DeclaresName(n) /\ UsesDeprecated(n) /\ ~Suppressed(n))
<1>1. CASE n.path[1] # "callee"
  BY <1>1 DEF VisitSuperKeyword, DeclaresName
<1>2. CASE n.path[1] = "callee"
  <2>1. ~DeclaresName(n)
    BY <1>2 DEF DeclaresName, NamedDeclarations, IsUse
  <2>2. Bindings(n) = {}
    BY DEF IsUse, Bindings, Overloads
  <2>3. SelectsOverload(n)
    <3>1. 1 \in DOMAIN n.path
      <4>1. n.path \in Seq(STRING) /\ n.path # <<>>
        BY DEF IsUse
      <4> QED
        BY <4>1, PathsStartSomewhere
    <3>2. n.selected # 0
      BY DEF IsUse
    <3> QED
      BY <1>2, <3>1, <3>2 DEF SelectsOverload
  <2>4. UsesDeprecated(n) <=> SignatureIsDeprecated(n)
    BY <2>2, <2>3, DeprecatedUse DEF SignatureIsDeprecated
  <2> QED
    BY <1>2, <2>1, <2>4, AllowedUses DEF VisitSuperKeyword
<1> QED
  BY <1>1, <1>2

(* A member named by a string in brackets.                                 *)
LEMMA ElementUses ==
    ASSUME NEW n, IsUse(n), n.kind = "element access", ~PackageUnknown(n), ~OneOverload(n)
    PROVE  (VisitElementAccess(n) # {}) = (~DeclaresName(n) /\ UsesDeprecated(n) /\ ~Suppressed(n))
<1>1. n.slot \in {"literal", "open"} /\ n.selected = 0 /\ n.path[1] \in {"reference", "callee"}
  BY DEF IsUse
<1>2. CASE n.slot = "open"
  BY <1>2 DEF VisitElementAccess, DeclaresName
<1>3. CASE n.slot = "literal"
  <2>1. ~DeclaresName(n)
    BY <1>1, <1>3 DEF DeclaresName, NamedDeclarations
  <2>2. ~SelectsOverload(n)
    BY <1>1 DEF SelectsOverload
  <2> QED
    BY <1>3, <2>1, <2>2, UnselectedUse, AllowedUses DEF VisitElementAccess
<1> QED
  BY <1>1, <1>2, <1>3

-----------------------------------------------------------------------------
(* The known differences that concern identifiers, by what they are.       *)
KnownMisreading(n) ==
    \/ OneOverload(n) \/ FirstHidesOthers(n) \/ ValueTakenForName(n) \/ AliasesUnread(n)
    \/ PatternsUnread(n) \/ RestByName(n) \/ StaticOfComponent(n) \/ PackageUnknown(n)

(* A property taken by a pattern.                                          *)
LEMMA PatternUses ==
    ASSUME NEW n, IsUse(n), n.kind = "identifier", ~KnownMisreading(n), n.path[1] = "binding", n.slot # "default"
    PROVE  (CheckDestructuringPropertyUse(n) # {}) = (~DeclaresName(n) /\ UsesDeprecated(n) /\ ~Suppressed(n))
<1>1. n.slot \in {"name", "key", "renamed"}
  BY DEF IsUse, SlotsAt, NamedDeclarations, KnownMisreading, RestByName, PatternsUnread
<1>2. CASE n.slot = "renamed"
  BY <1>2 DEF CheckDestructuringPropertyUse, DeclaresName
<1>3. CASE n.slot \in {"name", "key"}
  <2>1. DestructuringSourceType(n)
    BY <1>3 DEF KnownMisreading, PatternsUnread
  <2>2. ~DeclaresName(n)
    BY <1>3 DEF DeclaresName, NamedDeclarations
  <2>3. ~GetCallLikeNode(n) /\ ~SelectsOverload(n)
    BY UncalledPlaces DEF IsUse, AroundCallee
  <2>4. UsesDeprecated(n) <=> SymbolIsDeprecated(n.decls)
    BY <2>3, UnselectedUse DEF KnownMisreading
  <2> QED
    BY <1>3, <2>1, <2>2, <2>4, AllowedUses DEF CheckDestructuringPropertyUse, KnownMisreading
<1> QED
  BY <1>1, <1>2, <1>3

(* An attribute of a component.                                            *)
LEMMA AttributeUses ==
    ASSUME NEW n, IsUse(n), n.kind = "identifier", ~KnownMisreading(n), n.path[1] = "attribute"
    PROVE  (CheckJsxAttributeUse(n) # {}) = (~DeclaresName(n) /\ UsesDeprecated(n) /\ ~Suppressed(n))
<1>1. n.slot \in {"", "static"}
  BY DEF IsUse, SlotsAt, NamedDeclarations
<1>2. ~(n.slot = "static" /\ n.first)
  BY DEF KnownMisreading, StaticOfComponent
<1>3. ~DeclaresName(n)
  BY <1>1 DEF DeclaresName, NamedDeclarations
<1>4. ~GetCallLikeNode(n) /\ ~SelectsOverload(n)
  BY UncalledPlaces DEF IsUse, AroundCallee
<1>5. UsesDeprecated(n) <=> SymbolIsDeprecated(n.decls)
  BY <1>4, UnselectedUse DEF KnownMisreading
<1> QED
  BY <1>2, <1>3, <1>5, AllowedUses DEF CheckJsxAttributeUse, KnownMisreading

(* The names that are not reported are those that declare something.       *)
LEMMA DeclarationSites ==
    ASSUME NEW n, IsUse(n), n.kind = "identifier", ~KnownMisreading(n), n.path[1] \notin {"attribute", "import equals"},
           ~(n.path[1] = "binding" /\ n.slot # "default")
    PROVE  DeclaresName(n) <=> IsInsideImport(n) \/ IsDeclarationSite(n) \/ n.path[1] = "closing tag"
<1>1. n.slot \in SlotsAt(n.path[1]) /\ (n.slot = "name" => n.path[1] = "binding" \/ n.first)
  BY DEF IsUse
<1>2. CASE n.path[1] \in NamedDeclarations
  <2>1. n.slot \in {"name", "value"}
    BY <1>1, <1>2 DEF SlotsAt, NamedDeclarations, KnownMisreading, PatternsUnread
  <2>2. n.slot = "value" => ~n.first
    BY <1>2 DEF KnownMisreading, ValueTakenForName
  <2> QED
    BY <1>1, <1>2, <2>1, <2>2 DEF DeclaresName, IsInsideImport, IsDeclarationSite, NamedDeclarations
<1>3. CASE n.path[1] = "export"
  <2>1. n.slot \in {"exported", "exported as"}
    BY <1>1, <1>3 DEF SlotsAt, NamedDeclarations, KnownMisreading, AliasesUnread
  <2> QED
    BY <1>3, <2>1 DEF DeclaresName, IsInsideImport, IsDeclarationSite, NamedDeclarations
<1>4. CASE n.path[1] \notin NamedDeclarations \cup {"export"}
  <2>1. n.slot \in {"", "default"}
    BY <1>1, <1>4 DEF SlotsAt
  <2> QED
    BY <1>4, <2>1 DEF DeclaresName, IsInsideImport, IsDeclarationSite
<1> QED
  BY <1>2, <1>3, <1>4

(* The name of an export that declares no other: a call selects nothing.   *)
LEMMA ExportUses ==
    ASSUME NEW n, IsUse(n), n.kind = "identifier", ~KnownMisreading(n), n.path[1] = "export"
    PROVE  (ReportIfDeprecatedExceptOwnSpecifier(n) # {}) = (UsesDeprecated(n) /\ ~Suppressed(n))
<1> DEFINE first == FirstDeprecatedDeclaration(n.decls)
           own == SymbolIsDeprecated(n.decls) /\ first.kind # "this specifier" /\ SymbolDeprecationAppliesToUnselectedUse(n.decls)
<1>1. ~SelectsOverload(n)
  BY UncalledPlaces DEF IsUse, AroundCallee
<1>2. UsesDeprecated(n) <=> \/ Bindings(n) \cap DeprecatedIn(n.decls) # {}
                            \/ OverloadsOf(n) # {} /\ OverloadsOf(n) \subseteq DeprecatedIn(n.decls)
  BY <1>1, DeprecatedUse
<1>3. ASSUME SymbolIsDeprecated(n.decls)
      PROVE  UsesDeprecated(n) <=> own
  <2>1. PICK i \in DeprecatedIn(n.decls) : first = n.decls[i]
    BY <1>3, FirstDeprecated
  <2>2. i \in DOMAIN n.decls
    BY DEF DeprecatedIn
  <2>3. first.kind \in Overloads \cup {"this specifier"} =>
          \A j \in DeprecatedIn(n.decls) : n.decls[j].kind = first.kind
    BY <1>3 DEF KnownMisreading, FirstHidesOthers
  <2>4. own <=> \/ first.kind \notin Overloads \cup {"this specifier"}
                \/ first.kind # "this specifier" /\ OverloadsOf(n) # {} /\ OverloadsOf(n) \subseteq DeprecatedIn(n.decls)
    BY <1>3 DEF SymbolDeprecationAppliesToUnselectedUse, SymbolHasBindingLevelDeprecation, OverloadsOf
  <2>5. CASE first.kind \notin Overloads \cup {"this specifier"}
    <3>1. i \in Bindings(n)
      BY <2>1, <2>2, <2>5 DEF Bindings
    <3> QED
      BY <1>2, <2>4, <2>5, <3>1
  <2>6. CASE first.kind \in Overloads \cup {"this specifier"}
    <3>1. Bindings(n) \cap DeprecatedIn(n.decls) = {}
      BY <2>3, <2>6 DEF Bindings
    <3>2. first.kind = "this specifier" => OverloadsOf(n) \cap DeprecatedIn(n.decls) = {}
      BY <2>3, <2>6 DEF OverloadsOf, Overloads
    <3> QED
      BY <1>2, <2>4, <2>6, <3>1, <3>2
  <2> QED
    BY <2>5, <2>6
<1>4. UsesDeprecated(n) => SymbolIsDeprecated(n.decls)
  BY <1>2 DEF SymbolIsDeprecated
<1>5. UsesDeprecated(n) <=> own
  BY <1>3, <1>4
<1>6. ReportSym(n) # {} <=> ~Suppressed(n)
  BY AllowedUses DEF KnownMisreading
<1> QED
  BY <1>5, <1>6 DEF ReportIfDeprecatedExceptOwnSpecifier

(* Any other name: what a call selects, or any declaration.                *)
LEMMA OtherUses ==
    ASSUME NEW n, IsUse(n), n.kind = "identifier", ~KnownMisreading(n), n.path[1] # "export"
    PROVE  (ReportIfDeprecated(n) # {}) = (UsesDeprecated(n) /\ ~Suppressed(n))
<1> DEFINE dep == DeprecatedIn(n.decls)
<1>1. dep \subseteq Bindings(n) \cup OverloadsOf(n)
  BY DeclarationsOfUses DEF DeprecatedIn
<1>2. n.selected = 0 \/ n.selected \in OverloadsOf(n)
  BY DEF IsUse, SelectsOneOfItsOverloads, OverloadsOf
<1>3. CASE GetCallLikeNode(n) /\ n.selected # 0
  <2>1. SelectsOverload(n)
    BY <1>3, CallsSelect
  <2>2. UsesDeprecated(n) <=> Bindings(n) \cap dep # {} \/ n.selected \in dep
    BY <2>1, DeprecatedUse
  <2>3. SymbolHasBindingLevelDeprecation(n.decls) <=> Bindings(n) \cap dep # {}
    <3>1. ASSUME SymbolIsDeprecated(n.decls)
          PROVE  FirstDeprecatedDeclaration(n.decls).kind \notin Overloads <=> Bindings(n) \cap dep # {}
      <4>1. PICK i \in dep : FirstDeprecatedDeclaration(n.decls) = n.decls[i]
        BY <3>1, FirstDeprecated
      <4>2. i \in Bindings(n) \cup OverloadsOf(n)
        BY <1>1
      <4>3. FirstDeprecatedDeclaration(n.decls).kind \in Overloads =>
              \A j \in dep : n.decls[j].kind = FirstDeprecatedDeclaration(n.decls).kind
        BY <3>1 DEF KnownMisreading, FirstHidesOthers
      <4> QED
        BY <4>1, <4>2, <4>3 DEF Bindings, OverloadsOf
    <3> QED
      BY <3>1 DEF SymbolHasBindingLevelDeprecation, SymbolIsDeprecated
  <2> QED
    BY <1>3, <2>2, <2>3, AllowedUses DEF ReportIfDeprecated, SignatureIsDeprecated, KnownMisreading
<1>4. CASE ~(GetCallLikeNode(n) /\ n.selected # 0)
  <2>1. ReportIfDeprecated(n) # {} <=> SymbolIsDeprecated(n.decls) /\ ~Suppressed(n)
    BY <1>4, AllowedUses DEF ReportIfDeprecated, KnownMisreading
  <2>2. CASE GetCallLikeNode(n)
    <3>1. OverloadsOf(n) = {} /\ n.selected = 0
      BY <1>4, <2>2 DEF IsUse, SelectsOneOfItsOverloads, OverloadsOf
    <3>2. ~SelectsOverload(n)
      BY <3>1 DEF SelectsOverload
    <3> QED
      BY <1>1, <2>1, <3>1, <3>2, DeprecatedUse DEF SymbolIsDeprecated
  <2>3. CASE ~GetCallLikeNode(n)
    <3>1. CASE ~SelectsOverload(n)
      BY <2>1, <2>3, <3>1, UnselectedUse DEF KnownMisreading
    <3>2. CASE SelectsOverload(n)
      <4>1. n.selected \in OverloadsOf(n)
        BY <1>2, <3>2 DEF SelectsOverload
      <4>2. SymbolIsDeprecated(n.decls) => n.selected \in dep
        BY <2>3, <4>1 DEF KnownMisreading, OneOverload, OverloadsOf, DeprecatedIn
      <4> QED
        BY <2>1, <3>2, <4>2, DeprecatedUse DEF SymbolIsDeprecated
    <3> QED
      BY <3>1, <3>2
  <2> QED
    BY <2>2, <2>3
<1> QED
  BY <1>3, <1>4

(* Every identifier, by the place it stands in.                            *)
LEMMA IdentifierUses ==
    ASSUME NEW n, IsUse(n), n.kind = "identifier", ~KnownMisreading(n)
    PROVE  (VisitIdentifier(n) # {}) = (~DeclaresName(n) /\ UsesDeprecated(n) /\ ~Suppressed(n))
<1>1. n.path[1] # "import equals"
  BY DEF KnownMisreading, AliasesUnread
<1>2. CASE n.path[1] = "binding" /\ n.slot # "default"
  BY <1>2, PatternUses DEF VisitIdentifier, IsInsideImport
<1>3. CASE n.path[1] = "attribute"
  BY <1>3, AttributeUses DEF VisitIdentifier, IsInsideImport
<1>4. CASE n.path[1] # "attribute" /\ ~(n.path[1] = "binding" /\ n.slot # "default")
  <2>1. DeclaresName(n) <=> IsInsideImport(n) \/ IsDeclarationSite(n) \/ n.path[1] = "closing tag"
    BY <1>1, <1>4, DeclarationSites
  <2> QED
    BY <1>4, <2>1, ExportUses, OtherUses DEF VisitIdentifier
<1> QED
  BY <1>2, <1>3, <1>4

(* The promise of no-deprecated, for every use a program can contain: a use*)
(* of something deprecated is found, and nothing else is, except in the    *)
(* misreadings the property names.                                         *)
THEOREM DeprecationsAreFound ==
    ASSUME NEW uses, \A n \in uses : IsUse(n)
    PROVE  DeprecatedSpec(uses) => []DeprecatedUsesAreFound
<1> DEFINE Inv == /\ rule = DeprecatedId /\ node \in uses
                  /\ visited => reports = VisitDeprecated(node)
<1>1. Start(DeprecatedId, uses) => Inv
  BY DEF Start
<1>2. Inv /\ [Dispatch(DeprecatedId, VisitDeprecated)]_vars => Inv'
  BY DEF Dispatch, vars
<1>3. Inv => DeprecatedUsesAreFound
  <2>1. SUFFICES ASSUME Inv, visited, ~KnownMisreading(node)
                 PROVE  (reports # {}) = (~DeclaresName(node) /\ UsesDeprecated(node) /\ ~Suppressed(node))
    BY DEF DeprecatedUsesAreFound, Visited, KnownMisreading
  <2>2. IsUse(node) /\ reports = VisitDeprecated(node)
    BY <2>1
  <2>3. CASE node.kind = "identifier"
    BY <2>1, <2>2, <2>3, IdentifierUses DEF VisitDeprecated
  <2>4. CASE node.kind = "element access"
    BY <2>1, <2>2, <2>4, ElementUses DEF VisitDeprecated, KnownMisreading
  <2>5. CASE node.kind = "super"
    BY <2>1, <2>2, <2>5, SuperUses DEF VisitDeprecated, KnownMisreading
  <2> QED
    BY <2>2, <2>3, <2>4, <2>5 DEF IsUse
<1> QED
  BY <1>1, <1>2, <1>3, PTL DEF DeprecatedSpec

-----------------------------------------------------------------------------
(* return-await, require-await and executors of promises.                  *)
ReturnSteps == [kind : STRING, finally : BOOLEAN, using : BOOLEAN, async : BOOLEAN]
StepsOf(path, kinds) == {i \in 1..Len(path) : path[i].kind \in kinds}

(* What SelectInSeq finds.                                                 *)
LEMMA FirstStep ==
    ASSUME NEW S, NEW path \in Seq(S), NEW kinds, StepsOf(path, kinds) # {}
    PROVE  /\ FirstOf(path, kinds) \in StepsOf(path, kinds)
           /\ \A i \in StepsOf(path, kinds) : FirstOf(path, kinds) <= i
<1> DEFINE steps == StepsOf(path, kinds)
<1>0. steps \subseteq Nat
  BY DEF StepsOf
<1>1. \E least \in steps : \A i \in steps : least <= i
  BY <1>0, LeastElement
<1>2. FirstOf(path, kinds) = Min(StepsOf(path, kinds))
  BY DEF FirstOf, SelectInSeq, StepsOf
<1>3. Min(steps) \in steps /\ \A i \in steps : Min(steps) <= i
  BY <1>1 DEF Min
<1> QED
  BY <1>2, <1>3

(* The function around a return, when it is no accessor: the first step    *)
(* out of a function-like node is one that may be async.                   *)
LEMMA OwnersAreTheirOwn ==
    ASSUME NEW n, IsReturn(n), Own(n.path).kind # "accessor"
    PROVE  Own(n.path) = Owner(n.path)
<1> DEFINE p == n.path
           own == FirstOf(p, FunctionBoundary)
           owner == FirstOf(p, Owners)
<1>1. p \in Seq(ReturnSteps)
  BY DEF IsReturn, ReturnSteps
<1>2. StepsOf(p, Owners) # {} /\ StepsOf(p, Owners) \subseteq StepsOf(p, FunctionBoundary)
  BY LenProperties DEF IsReturn, StepsOf, Owners
<1>3. Own(p) = p[own] /\ Owner(p) = p[owner]
  BY DEF Own, Owner, FirstOf
<1>4. /\ own \in StepsOf(p, FunctionBoundary) /\ \A i \in StepsOf(p, FunctionBoundary) : own <= i
      /\ owner \in StepsOf(p, Owners) /\ \A i \in StepsOf(p, Owners) : owner <= i
  BY <1>1, <1>2, FirstStep
<1>5. own \in StepsOf(p, Owners)
  BY <1>3, <1>4 DEF StepsOf, Owners
<1>6. own <= owner /\ owner <= own /\ own \in Int /\ owner \in Int
  BY <1>2, <1>4, <1>5 DEF StepsOf
<1> QED
  BY <1>3, <1>6

(* The steps inside that function are those before it.                     *)
LEMMA InsideSteps ==
    ASSUME NEW S, NEW path \in Seq(S), NEW kinds, StepsOf(path, kinds) # {}
    PROVE  /\ DOMAIN UpTo(path, kinds) \subseteq DOMAIN path
           /\ \A i \in DOMAIN UpTo(path, kinds) : UpTo(path, kinds)[i] = path[i]
<1> DEFINE at == FirstOf(path, kinds)
<1>1. at \in 1..Len(path)
  BY FirstStep DEF StepsOf
<1>2. UpTo(path, kinds) = SubSeq(path, 1, at - 1)
  BY <1>1 DEF UpTo
<1> HIDE DEF at
<1>3. /\ DOMAIN SubSeq(path, 1, at - 1) = 1..(at - 1)
      /\ \A i \in 1..(at - 1) : SubSeq(path, 1, at - 1)[i] = path[i]
  BY <1>1, SubSeqProperties
<1> QED
  BY <1>1, <1>2, <1>3, LenProperties

Observed(n) == \E i \in DOMAIN UpTo(n.path, FunctionBoundary) : RunsAfter(n.path[i])
Unseen(n) == \E i \in DOMAIN n.path : n.path[i].kind \in {"for", "case clause"} /\ n.path[i].using

(* The rule sees what runs after the return, but for the `using` of loops  *)
(* and cases.                                                              *)
LEMMA ErrorHandlingIsObserved ==
    ASSUME NEW n, IsReturn(n)
    PROVE  /\ AffectsErrorHandling(n.path) => Observed(n)
           /\ Observed(n) => AffectsErrorHandling(n.path) \/ Unseen(n)
<1> DEFINE inside == UpTo(n.path, FunctionBoundary)
<1>1. n.path \in Seq(ReturnSteps) /\ StepsOf(n.path, FunctionBoundary) # {}
  BY LenProperties DEF IsReturn, StepsOf, Owners, ReturnSteps
<1>2. DOMAIN inside \subseteq DOMAIN n.path /\ \A i \in DOMAIN inside : inside[i] = n.path[i]
  BY <1>1, InsideSteps
<1> HIDE DEF inside
<1>3. AffectsExplicitErrorHandling(n.path) <=>
        \E i \in DOMAIN inside : inside[i].kind = "try" \/ (inside[i].kind = "catch" /\ inside[i].finally)
  BY DEF AffectsExplicitErrorHandling, inside
<1>4. AffectsResourceManagement(n.path) <=> \E i \in DOMAIN inside : inside[i].kind = "block" /\ inside[i].using
  BY DEF AffectsResourceManagement, inside
<1>5. Observed(n) <=> \E i \in DOMAIN inside : RunsAfter(n.path[i])
  BY DEF Observed, inside
<1>6. ASSUME NEW i \in DOMAIN inside
      PROVE  /\ inside[i] = n.path[i] /\ i \in DOMAIN n.path
             /\ RunsAfter(n.path[i]) <=>
                  \/ n.path[i].kind = "try" \/ (n.path[i].kind = "catch" /\ n.path[i].finally)
                  \/ n.path[i].kind = "block" /\ n.path[i].using
                  \/ n.path[i].kind \in {"for", "case clause"} /\ n.path[i].using
  BY <1>2 DEF RunsAfter
<1>7. AffectsErrorHandling(n.path) => Observed(n)
  BY <1>3, <1>4, <1>5, <1>6, Zenon DEF AffectsErrorHandling
<1>8. Observed(n) => AffectsErrorHandling(n.path) \/ Unseen(n)
  BY <1>3, <1>4, <1>5, <1>6, Zenon DEF AffectsErrorHandling, Unseen
<1> QED
  BY <1>7, <1>8

(* What is reported of one returned expression.                            *)
LEMMA ReturnedExpressions ==
    ASSUME NEW n, NEW e
    PROVE  /\ TestReturned(n, e) = {} \/ \E kind : TestReturned(n, e) = {<<kind, e>>}
           /\ <<"await", e>> \in TestReturned(n, e) => ~e.awaited
           /\ <<"no await", e>> \in TestReturned(n, e) => Wanted(n) = "no await"
           /\ (NeedsToBeAwaited(e.type) = "always" /\ Wanted(n) = "await" /\ ~e.awaited) =>
                 <<"await", e>> \in TestReturned(n, e)
<1> DEFINE needs == NeedsToBeAwaited(e.type)
           wait == Wanted(n) = "await" /\ ~e.awaited
           settle == Wanted(n) = "no await" /\ e.awaited
<1>1. CASE needs # "always"
  <2>1. TestReturned(n, e) = {} \/ TestReturned(n, e) = {<<"no promise", e>>}
    BY <1>1, Zenon DEF TestReturned
  <2>2. <<"await", e>> \notin TestReturned(n, e) /\ <<"no await", e>> \notin TestReturned(n, e)
    BY <2>1
  <2> QED
    BY <1>1, <2>1, <2>2
<1>2. CASE needs = "always" /\ wait
  <2>1. TestReturned(n, e) = {<<"await", e>>}
    BY <1>2, Zenon DEF TestReturned
  <2>2. <<"no await", e>> \notin TestReturned(n, e)
    BY <2>1
  <2> QED
    BY <1>2, <2>1, <2>2, Zenon
<1>3. CASE needs = "always" /\ ~wait /\ settle
  <2>1. TestReturned(n, e) = {<<"no await", e>>}
    BY <1>3, Zenon DEF TestReturned
  <2>2. <<"await", e>> \notin TestReturned(n, e)
    BY <2>1
  <2> QED
    BY <1>3, <2>1, <2>2, Zenon
<1>4. CASE needs = "always" /\ ~wait /\ ~settle
  <2>1. TestReturned(n, e) = {}
    BY <1>4, Zenon DEF TestReturned
  <2> QED
    BY <1>4, <2>1, Zenon
<1> QED
  BY <1>1, <1>2, <1>3, <1>4, Zenon

(* Every report is about one returned expression of an async function.     *)
LEMMA ReportsByExpression ==
    ASSUME NEW n, NEW r \in VisitReturned(n)
    PROVE  Owner(n.path).async /\ r \in TestReturned(n, r[2])
<1>1. Owner(n.path).async
  BY DEF VisitReturned
<1>2. PICK e \in PossiblyReturned(n) : r \in TestReturned(n, e)
  BY <1>1 DEF VisitReturned
<1>3. PICK kind : TestReturned(n, e) = {<<kind, e>>}
  BY <1>2, ReturnedExpressions
<1>4. r[2] = e
  BY <1>2, <1>3
<1> QED
  BY <1>1, <1>2, <1>4

(* return-await: an await is asked for only where the order is observed,   *)
(* and is asked for there.                                                 *)
LEMMA ReturnsAreOrdered ==
    ASSUME IsReturn(node), reports = VisitReturned(node)
    PROVE  ReturnsSettleInOrder
<1> SUFFICES ASSUME Own(node.path).kind # "accessor", NEW e \in PossiblyReturned(node)
             PROVE  /\ <<"no await", e>> \in reports => node.mode = "never" \/ ~Observed(node) \/ Unseen(node)
                    /\ <<"await", e>> \in reports => ~e.awaited /\ Own(node.path).async
                    /\ (Owner(node.path).async /\ Observed(node) /\ node.mode # "never"
                          /\ NeedsToBeAwaited(e.type) = "always" /\ ~e.awaited)
                          => <<"await", e>> \in reports \/ Unseen(node)
                    /\ Cardinality({r \in reports : r[2] = e}) <= 1
  BY DEF ReturnsSettleInOrder, Observed, Unseen
<1>1. Own(node.path) = Owner(node.path)
  BY OwnersAreTheirOwn
<1>2. \A kind \in {"await", "no await"} : <<kind, e>> \in reports =>
        Owner(node.path).async /\ <<kind, e>> \in TestReturned(node, e)
  <2>1. ASSUME NEW kind, <<kind, e>> \in reports
        PROVE  Owner(node.path).async /\ <<kind, e>> \in TestReturned(node, <<kind, e>>[2])
    BY <2>1, ReportsByExpression, Zenon
  <2> QED
    BY <2>1
<1>3. /\ AffectsErrorHandling(node.path) /\ node.mode # "never" => Wanted(node) = "await"
      /\ Observed(node) => AffectsErrorHandling(node.path) \/ Unseen(node)
  BY ErrorHandlingIsObserved DEF Wanted, Returning
<1>4. <<"no await", e>> \in reports => node.mode = "never" \/ ~Observed(node) \/ Unseen(node)
  BY <1>2, <1>3, ReturnedExpressions
<1>5. <<"await", e>> \in reports => ~e.awaited /\ Own(node.path).async
  BY <1>1, <1>2, ReturnedExpressions
<1>6. ASSUME Owner(node.path).async, Observed(node), node.mode # "never",
             NeedsToBeAwaited(e.type) = "always", ~e.awaited, ~Unseen(node)
      PROVE  <<"await", e>> \in reports
  <2>1. <<"await", e>> \in TestReturned(node, e)
    BY <1>3, <1>6, ReturnedExpressions
  <2> QED
    BY <1>6, <2>1 DEF VisitReturned
<1>7. Cardinality({r \in reports : r[2] = e}) <= 1
  <2> DEFINE about == {r \in reports : r[2] = e}
  <2>1. about \subseteq TestReturned(node, e)
    <3>1. ASSUME NEW r \in about
          PROVE  r \in TestReturned(node, r[2]) /\ r[2] = e
      BY ReportsByExpression
    <3> QED
      BY <3>1
  <2>2. \E r : about \subseteq {r}
    <3>1. \E r : TestReturned(node, e) \subseteq {r}
      BY ReturnedExpressions
    <3> QED
      BY <2>1, <3>1
  <2>3. Cardinality(about) \in {0, 1}
    <3>1. PICK r : about \subseteq {r}
      BY <2>2
    <3>2. about = {} \/ about = {r}
      BY <3>1
    <3> QED
      BY <3>2, FS_EmptySet, FS_Singleton
  <2> QED
    BY <2>3
<1> QED
  BY <1>4, <1>5, <1>6, <1>7

(* require-await: a reported function has nothing to wait for.             *)
LEMMA BodiesAreJudged ==
    ASSUME IsFunctionBody(node), reports = VisitAsyncFunction(node), rule = RequireAwaitId
    PROVE  ReportedFunctionsNeverWait
<1>1. ASSUME reports # {}, NEW item \in node.items, Waits(item)
      PROVE  item.place = "computed name"
  <2>1. SUFFICES ASSUME item.place = "body"
                 PROVE  FALSE
    BY <1>1 DEF Waits
  <2>2. ~(item.kind \in {"await", "for await", "await using"} \/ (item.kind \in {"yield", "yield*"} /\ IsAsyncYield(item)))
    BY <1>1, <2>1 DEF VisitAsyncFunction, UsesAwait, Entered
  <2>3. item.kind = "yield*" => item.type \in Iterables
    BY DEF IsFunctionBody
  <2> QED
    BY <1>1, <2>2, <2>3 DEF Waits, IsAsyncYield, IsPromiseType, Iterables
<1>2. ASSUME reports = {}, node.async
      PROVE  \E item \in node.items : Waits(item) \/ (item.kind = "return" /\ IsPromiseType(item.type))
  <2>1. UsesAwait(node) \/ ReturnsPromise(node)
    BY <1>2 DEF VisitAsyncFunction
  <2>2. CASE ReturnsPromise(node)
    BY <2>2 DEF ReturnsPromise
  <2>3. CASE UsesAwait(node)
    <3>1. PICK item \in node.items : Entered(item.place) /\
             (item.kind \in {"await", "for await", "await using"} \/ (item.kind \in {"yield", "yield*"} /\ IsAsyncYield(item)))
      BY <2>3 DEF UsesAwait
    <3>2. item.place = "body"
      BY <3>1 DEF Entered, IsFunctionBody
    <3>3. item.kind = "yield*" => item.type \in Iterables
      BY DEF IsFunctionBody
    <3> QED
      BY <3>1, <3>2, <3>3 DEF Waits, IsAsyncYield, IsPromiseType, Iterables
  <2> QED
    BY <2>1, <2>2, <2>3
<1> QED
  BY <1>1, <1>2 DEF ReportedFunctionsNeverWait

(* no-promise-executor-return: what is reported is a value returned to     *)
(* nobody.                                                                 *)
LEMMA ExecutorsAreJudged ==
    ASSUME IsNewPromise(node), reports = VisitNewPromise(node)
    PROVE  ExecutorsReturnNothing
<1> SUFFICES ASSUME ~Misbound(node), ~node.typeArgument
             PROVE  IF ~IsGlobalPromise(node) THEN reports = {}
                    ELSE /\ node.executor = "arrow expression" => reports # {}
                         /\ node.executor \in {"arrow", "function"} => reports = ReturnsValue(node)
  BY DEF ExecutorsReturnNothing, ReturnsValue
<1>1. CASE ~IsGlobalPromise(node)
  <2>1. PICK i \in DOMAIN node.scopes : node.scopes[i].does # "nothing"
    BY <1>1 DEF IsGlobalPromise
  <2>2. node.scopes[i].kind \in ScopeNodes /\ node.scopes[i].does \in BindsByText
    BY <2>1 DEF IsNewPromise, Misbound
  <2>3. HasEnclosingBinding(node)
    BY <2>2 DEF HasEnclosingBinding
  <2> QED
    BY <1>1, <2>3 DEF VisitNewPromise
<1>2. CASE IsGlobalPromise(node)
  <2>1. ~HasEnclosingBinding(node)
    BY <1>2 DEF IsGlobalPromise, HasEnclosingBinding, BindsByText
  <2> QED
    BY <1>2, <2>1 DEF VisitNewPromise, FirstArgument
<1> QED
  BY <1>1, <1>2

(* The errors are among what the rule takes for one, and little else is.   *)
LEMMA ErrorsAreAcceptable ==
    ASSUME NEW type
    PROVE  /\ type # {} /\ (\A m \in type : IsError(m)) => IsAcceptableError(type)
           /\ IsAcceptableError(type) =>
                 \A m \in type : IsError(m) \/ m \in {"interface TypeError", "any&B", "T<any>", "any", "unknown"}
<1> DEFINE Taken(m) == \/ m \in ErrorNames \cup {"any", "unknown"}
                       \/ m \in DOMAIN Parts /\ Parts[m] \intersect (ErrorNames \cup {"any"}) # {}
                       \/ m \in DOMAIN Bound /\ Bound[m] \in ErrorNames \cup {"any"}
<1>1. ASSUME NEW m
      PROVE  /\ IsError(m) => Taken(m)
             /\ Taken(m) => IsError(m) \/ m \in {"interface TypeError", "any&B", "T<any>", "any", "unknown"}
  <2>1. DOMAIN Parts = {"MyError&B", "string&B", "any&B"} /\ DOMAIN Bound = {"T<Error>", "T<string>", "T<any>"}
    BY DEF Parts, Bound
  <2>2. /\ Parts["MyError&B"] = {"MyError", "B"} /\ Parts["string&B"] = {"string", "B"}
        /\ Bound["T<Error>"] = "Error" /\ Bound["T<string>"] = "string"
    BY DEF Parts, Bound
  <2> QED
    BY <2>1, <2>2 DEF IsError, ErrorNames
<1> QED
  BY <1>1 DEF IsAcceptableError

(* prefer-promise-reject-errors: a rejection with no error is reported.    *)
LEMMA RejectionsAreJudged ==
    ASSUME IsRejection(node), reports = VisitRejection(node)
    PROVE  RejectionsAreErrors
<1> DEFINE rejection == IsPromiseRejectCallee(node) \/ IsExecutorRejectParam(node)
<1>1. rejection => Rejects(node) \/ node.receiver \in {"own Promise", "union"} \/ (node.index = 1 /\ node.name = "reject")
  BY DEF IsPromiseRejectCallee, IsExecutorRejectParam, ReceiverIsPromise, Rejects
<1>2. Rejects(node) => rejection \/ node.of = "new ()" \/ node.written = "[template]"
  BY DEF IsPromiseRejectCallee, IsExecutorRejectParam, ReceiverIsPromise, Rejects, IsRejection
<1>3. ASSUME ~Accepted(node), node.argument
      PROVE  node.type = {} \/ \E m \in node.type : ~IsError(m)
  BY <1>3, ErrorsAreAcceptable DEF Accepted, IsError
<1>4. ASSUME Accepted(node), node.argument
      PROVE  \/ \A m \in node.type : IsError(m) \/ m \in {"interface TypeError", "any&B", "T<any>"}
             \/ node.type = {"any"} /\ node.allowAny
             \/ node.type = {"unknown"} /\ node.allowUnknown
  <2>1. CASE MatchesAllow(node)
    BY <2>1 DEF MatchesAllow, IsError
  <2>2. CASE node.type \in {{"any"}, {"unknown"}}
    BY <1>4, <2>2 DEF Accepted, MatchesAllow
  <2>3. CASE ~MatchesAllow(node) /\ node.type \notin {{"any"}, {"unknown"}}
    <3>1. IsAcceptableError(node.type) /\ "any" \notin node.type /\ "unknown" \notin node.type
      BY <1>4, <2>3 DEF Accepted, IsRejection
    <3> QED
      BY <3>1, ErrorsAreAcceptable
  <2> QED
    BY <2>1, <2>2, <2>3
<1>5. reports # {} <=> rejection /\ ~Accepted(node)
  BY DEF VisitRejection
<1> QED
  BY <1>1, <1>2, <1>3, <1>4, <1>5 DEF RejectionsAreErrors

(* The promise of the four rules on asynchronous functions, for every set  *)
(* of returns, bodies, executors and rejections a program can contain.     *)
THEOREM PromisesAreJudged ==
    ASSUME NEW returns, \A n \in returns : IsReturn(n),
           NEW bodies, \A n \in bodies : IsFunctionBody(n),
           NEW executors, \A n \in executors : IsNewPromise(n),
           NEW rejections, \A n \in rejections : IsRejection(n)
    PROVE  AsyncSpec(returns, bodies, executors, rejections) => []PromisesSettleAsExpected
<1> DEFINE Inv == /\ \/ rule = ReturnAwaitId /\ node \in returns
                     \/ rule = RequireAwaitId /\ node \in bodies
                     \/ rule = ExecutorReturnId /\ node \in executors
                     \/ rule = RejectErrorsId /\ node \in rejections
                  /\ Visited(ReturnAwaitId) => reports = VisitReturned(node)
                  /\ Visited(RequireAwaitId) => reports = VisitAsyncFunction(node)
                  /\ Visited(ExecutorReturnId) => reports = VisitNewPromise(node)
                  /\ Visited(RejectErrorsId) => reports = VisitRejection(node)
           Init == \/ Start(ReturnAwaitId, returns) \/ Start(RequireAwaitId, bodies)
                   \/ Start(ExecutorReturnId, executors) \/ Start(RejectErrorsId, rejections)
<1> USE DEF ReturnAwaitId, RequireAwaitId, ExecutorReturnId, RejectErrorsId
<1>1. Init => Inv
  BY DEF Start, Visited
<1>2. Inv /\ [AsyncNext]_vars => Inv'
  <2>1. SUFFICES ASSUME Inv, [AsyncNext]_vars
                 PROVE  Inv'
    OBVIOUS
  <2>2. CASE Dispatch(ReturnAwaitId, VisitReturned)
    BY <2>1, <2>2 DEF Dispatch, Visited
  <2>3. CASE Dispatch(RequireAwaitId, VisitAsyncFunction)
    BY <2>1, <2>3 DEF Dispatch, Visited
  <2>4. CASE Dispatch(ExecutorReturnId, VisitNewPromise)
    BY <2>1, <2>4 DEF Dispatch, Visited
  <2>5. CASE Dispatch(RejectErrorsId, VisitRejection)
    BY <2>1, <2>5 DEF Dispatch, Visited
  <2>6. CASE UNCHANGED vars
    BY <2>1, <2>6 DEF vars, Visited
  <2> QED
    BY <2>1, <2>2, <2>3, <2>4, <2>5, <2>6 DEF AsyncNext
<1>3. Inv => PromisesSettleAsExpected
  <2>1. SUFFICES ASSUME Inv
                 PROVE  PromisesSettleAsExpected
    OBVIOUS
  <2>2. ReturnsSettleInOrder
    <3>1. CASE Visited(ReturnAwaitId)
      BY <2>1, <3>1, ReturnsAreOrdered DEF Visited
    <3> QED
      BY <3>1 DEF ReturnsSettleInOrder
  <2>3. ReportedFunctionsNeverWait
    <3>1. CASE Visited(RequireAwaitId)
      BY <2>1, <3>1, BodiesAreJudged DEF Visited
    <3> QED
      BY <3>1 DEF ReportedFunctionsNeverWait
  <2>4. ExecutorsReturnNothing
    <3>1. CASE Visited(ExecutorReturnId)
      BY <2>1, <3>1, ExecutorsAreJudged DEF Visited
    <3> QED
      BY <3>1 DEF ExecutorsReturnNothing
  <2>5. RejectionsAreErrors
    <3>1. CASE Visited(RejectErrorsId)
      BY <2>1, <3>1, RejectionsAreJudged DEF Visited
    <3> QED
      BY <3>1 DEF RejectionsAreErrors
  <2> QED
    BY <2>2, <2>3, <2>4, <2>5 DEF PromisesSettleAsExpected
<1> QED
  BY <1>1, <1>2, <1>3, PTL DEF AsyncSpec
=============================================================================
