---------------------------- MODULE LintRunProofs ----------------------------
(***************************************************************************)
(* What runLint finds, prints and returns, for programs, configurations    *)
(* and bounds of any size.  IInv counts: while lint walks, the diagnostics *)
(* in every set S are as many as the findings in S of the calls made       *)
(* (AllAreThere), errorCount being those at error severity (CapInv); after *)
(* the filter, as many as those in the files that are not ignored          *)
(* (VisibleAreThere).  What one call adds to both sides is FindingsGrow    *)
(* and CountConcat; that filtering and sorting neither lose nor double is  *)
(* ArrangedKeepsAll, from the ranks of a strict total order.               *)
(***************************************************************************)
EXTENDS LintRun, FiniteSetTheorems, SequenceTheorems, TLAPS

(* The steps that come before the engine.                                  *)
LEMMA ToolingRange ==
    /\ Range(Tooling) = {"seed", "tsconfig", "cascade", "paths", "daemon", "program", "only", "rules"}
    /\ DOMAIN Tooling = 1..8
    /\ Len(Tooling) = 8
  BY DEF Tooling, Range

(* Two sets that a function matches one to one are of the same size.       *)
LEMMA Matched ==
    ASSUME NEW S, NEW T, IsFiniteSet(S), NEW f \in [S -> T],
           \A x, y \in S : f[x] = f[y] => x = y,
           \A y \in T : \E x \in S : f[x] = y
    PROVE  IsFiniteSet(T) /\ Cardinality(T) = Cardinality(S)
<1>1. f \in Bijection(S, T)
  BY DEF Bijection, Injection, Surjection, IsInjective
<1> QED
  BY <1>1, FS_Bijection DEF ExistsBijection

(* What a sequence holds of a set can be counted.                          *)
LEMMA CountTypes ==
    ASSUME NEW X, NEW d \in Seq(X), NEW S
    PROVE  /\ IsFiniteSet({i \in DOMAIN d : d[i] \in S})
           /\ CountOf(d, S) \in Nat
<1>1. DOMAIN d = 1..Len(d) /\ Len(d) \in Nat
  BY LenProperties
<1>2. IsFiniteSet(DOMAIN d)
  BY <1>1, FS_Interval
<1> QED
  BY <1>2, FS_Subset, FS_CardinalityType DEF CountOf

(* Appending a sequence adds up what both hold.                            *)
LEMMA CountConcat ==
    ASSUME NEW X, NEW d \in Seq(X), NEW e \in Seq(X), NEW S
    PROVE  CountOf(d \o e, S) = CountOf(d, S) + CountOf(e, S)
<1> DEFINE A == {i \in DOMAIN d : d[i] \in S}
           B == {i \in DOMAIN e : e[i] \in S}
           C == {i \in DOMAIN (d \o e) : (d \o e)[i] \in S}
           D == {i \in C : i > Len(d)}
           f == [i \in B |-> Len(d) + i]
<1>1. /\ DOMAIN d = 1..Len(d) /\ Len(d) \in Nat
      /\ DOMAIN e = 1..Len(e) /\ Len(e) \in Nat
      /\ DOMAIN (d \o e) = 1..Len(d) + Len(e)
      /\ \A i \in 1..Len(d) : (d \o e)[i] = d[i]
      /\ \A i \in 1..Len(e) : Len(d) + i \in DOMAIN (d \o e) /\ (d \o e)[Len(d) + i] = e[i]
  <2>1. /\ d \o e \in Seq(X)
        /\ Len(d \o e) = Len(d) + Len(e)
        /\ \A i \in 1..Len(d) + Len(e) : (d \o e)[i] = IF i <= Len(d) THEN d[i] ELSE e[i - Len(d)]
    BY ConcatProperties
  <2>2. Len(d) \in Nat /\ Len(e) \in Nat /\ DOMAIN d = 1..Len(d) /\ DOMAIN e = 1..Len(e)
    BY LenProperties
  <2>3. DOMAIN (d \o e) = 1..Len(d) + Len(e)
    BY <2>1, LenProperties
  <2>4. \A i \in 1..Len(d) : i \in 1..Len(d) + Len(e) /\ i <= Len(d)
    BY <2>2
  <2>5. \A i \in 1..Len(e) : Len(d) + i \in 1..Len(d) + Len(e) /\ ~(Len(d) + i <= Len(d)) /\ (Len(d) + i) - Len(d) = i
    BY <2>2
  <2> QED
    BY <2>1, <2>2, <2>3, <2>4, <2>5
<1>2. IsFiniteSet(A) /\ IsFiniteSet(B)
  BY CountTypes
<1>3. IsFiniteSet(D) /\ Cardinality(D) = Cardinality(B)
  <2>1. \A i \in B : Len(d) + i \in D
    BY <1>1
  <2>2. \A x, y \in B : f[x] = f[y] => x = y
    BY <1>1
  <2>3. \A y \in D : \E x \in B : f[x] = y
    <3> TAKE y \in D
    <3>1. y - Len(d) \in 1..Len(e) /\ Len(d) + (y - Len(d)) = y
      BY <1>1
    <3>2. y - Len(d) \in B
      BY <1>1, <3>1
    <3> QED
      BY <3>1, <3>2
  <2>4. f \in [B -> D]
    BY <2>1
  <2> HIDE DEF B, D, f
  <2> QED
    BY <1>2, <2>2, <2>3, <2>4, Matched
<1>4. C = A \cup D /\ A \cap D = {}
  <2>1. A \cap D = {}
    BY <1>1
  <2>2. \A i \in C : i \in A \/ i \in D
    BY <1>1
  <2>3. \A i \in A : i \in C
    BY <1>1
  <2> QED
    BY <2>1, <2>2, <2>3
<1>5. Cardinality(A) \in Nat /\ Cardinality(B) \in Nat
  BY <1>2, FS_CardinalityType
<1>6. Cardinality(A \cup D) = Cardinality(A) + Cardinality(D) - Cardinality(A \cap D)
  BY <1>2, <1>3, FS_Union
<1>7. Cardinality(A \cap D) = 0
  BY <1>4, FS_EmptySet
<1>8. Cardinality(C) = Cardinality(A) + Cardinality(B)
  <2> HIDE DEF A, B, C, D
  <2> QED
    BY <1>3, <1>4, <1>5, <1>6, <1>7
<1> QED
  BY <1>8 DEF CountOf

(* A strict total order on the positions K.                                *)
Arranges(R, K) ==
    /\ \A i \in K : <<i, i>> \notin R
    /\ \A i, j, k \in K : <<i, j>> \in R /\ <<j, k>> \in R => <<i, k>> \in R
    /\ \A i, j \in K : i # j => <<i, j>> \in R \/ <<j, i>> \in R

(* Each position has a rank of its own, and no rank is left over.          *)
LEMMA RanksMatch ==
    ASSUME NEW K, IsFiniteSet(K), NEW R, Arranges(R, K)
    PROVE  /\ Cardinality(K) \in Nat
           /\ \A i \in K : Rank(i, K, R) \in Nat /\ Rank(i, K, R) + 1 \in 1..Cardinality(K)
           /\ \A i, j \in K : Rank(i, K, R) = Rank(j, K, R) => i = j
           /\ \A n \in 1..Cardinality(K) : \E i \in K : Rank(i, K, R) = n - 1
<1> DEFINE Below(i) == {j \in K : <<j, i>> \in R}
           place == [i \in K |-> Rank(i, K, R) + 1]
           N == Cardinality(K)
<1>1. N \in Nat
  BY FS_CardinalityType
<1>2. \A i \in K : IsFiniteSet(Below(i)) /\ Rank(i, K, R) \in Nat
  BY FS_Subset, FS_CardinalityType DEF Rank
<1>3. \A i \in K : Rank(i, K, R) + 1 \in 1..N
  <2> TAKE i \in K
  <2>1. Below(i) \subseteq K /\ i \notin Below(i)
    BY DEF Arranges
  <2>2. Cardinality(Below(i)) <= N /\ Cardinality(Below(i)) # N
    BY <2>1, FS_Subset
  <2>3. Rank(i, K, R) <= N /\ Rank(i, K, R) # N /\ Rank(i, K, R) \in Nat
    BY <1>2, <2>2 DEF Rank
  <2> QED
    BY <1>1, <2>3
<1>4. ASSUME NEW i \in K, NEW j \in K, <<i, j>> \in R
      PROVE  Rank(i, K, R) # Rank(j, K, R)
  <2>1. Below(i) \subseteq Below(j)
    BY <1>4 DEF Arranges
  <2>2. i \in Below(j) /\ i \notin Below(i)
    BY <1>4 DEF Arranges
  <2>3. Cardinality(Below(j)) # Cardinality(Below(i))
    BY <1>2, <2>1, <2>2, FS_Subset
  <2> QED
    BY <2>3 DEF Rank
<1>5. \A i, j \in K : Rank(i, K, R) = Rank(j, K, R) => i = j
  BY <1>4 DEF Arranges
<1>6. place \in Injection(K, 1..N)
  <2>1. ASSUME NEW i \in K, NEW j \in K, place[i] = place[j]
        PROVE  Rank(i, K, R) = Rank(j, K, R)
    <3>1. Rank(i, K, R) + 1 = Rank(j, K, R) + 1
      BY <2>1
    <3>2. Rank(i, K, R) \in Nat /\ Rank(j, K, R) \in Nat
      BY <1>2
    <3>3. \A a, b \in Nat : a + 1 = b + 1 => a = b
      OBVIOUS
    <3> QED
      BY <3>1, <3>2, <3>3
  <2>2. place \in [K -> 1..N]
    BY <1>3
  <2> HIDE DEF place
  <2>3. \A i, j \in K : place[i] = place[j] => i = j
    BY <1>5, <2>1
  <2> QED
    BY <2>2, <2>3 DEF Injection, IsInjective
<1>7. IsFiniteSet(1..N) /\ Cardinality(1..N) = N
  BY <1>1, FS_Interval
<1>8. place \in Surjection(K, 1..N)
  BY <1>6, <1>7, FS_Injection
<1>9. \A n \in 1..N : \E i \in K : Rank(i, K, R) = n - 1
  <2> TAKE n \in 1..N
  <2>1. PICK i \in K : place[i] = n
    BY <1>8 DEF Surjection
  <2>2. Rank(i, K, R) + 1 = n /\ Rank(i, K, R) \in Nat
    BY <1>2, <2>1
  <2>3. Rank(i, K, R) = n - 1
    BY <1>1, <2>2
  <2> QED
    BY <2>3
<1> QED
  BY <1>1, <1>2, <1>3, <1>5, <1>9

(* Arranging the elements at some positions keeps them and their number.   *)
LEMMA ArrangedKeepsAll ==
    ASSUME NEW X, NEW s \in Seq(X), NEW K \in SUBSET (DOMAIN s), NEW R, Arranges(R, K)
    PROVE  /\ InOrder(s, K, R) \in Seq(X)
           /\ \A S : CountOf(InOrder(s, K, R), S) = Cardinality({i \in K : s[i] \in S})
<1> DEFINE N == Cardinality(K)
           at(n) == CHOOSE i \in K : Rank(i, K, R) = n - 1
           t == InOrder(s, K, R)
<1>1. DOMAIN s = 1..Len(s) /\ Len(s) \in Nat /\ \A i \in DOMAIN s : s[i] \in X
  BY LenProperties
<1>2. IsFiniteSet(K)
  <2>1. IsFiniteSet(DOMAIN s)
    BY <1>1, FS_Interval
  <2> QED
    BY <2>1, FS_Subset
<1>3. /\ N \in Nat
      /\ \A i \in K : Rank(i, K, R) \in Nat /\ Rank(i, K, R) + 1 \in 1..N
      /\ \A i, j \in K : Rank(i, K, R) = Rank(j, K, R) => i = j
      /\ \A n \in 1..N : \E i \in K : Rank(i, K, R) = n - 1
  BY <1>2, RanksMatch
<1>4. t = [n \in 1..N |-> s[at(n)]]
  BY DEF InOrder
<1> HIDE DEF t
<1>5. \A n \in 1..N : at(n) \in K /\ Rank(at(n), K, R) = n - 1
  <2> TAKE n \in 1..N
  <2>1. \E i \in K : Rank(i, K, R) = n - 1
    BY <1>3
  <2> HIDE <1>3
  <2> QED
    BY <2>1
<1> HIDE DEF at
<1>6. t \in [1..N -> X]
  <2>1. \A n \in 1..N : s[at(n)] \in X
    BY <1>1, <1>5
  <2> QED
    BY <1>4, <2>1
<1>7. t \in Seq(X)
  <2>1. \A n \in Nat : [1..n -> X] \subseteq Seq(X)
    OBVIOUS
  <2> QED
    BY <1>3, <1>6, <2>1
<1>8. DOMAIN t = 1..N
  BY <1>4
<1>9. ASSUME NEW S
      PROVE  CountOf(t, S) = Cardinality({i \in K : s[i] \in S})
  <2> DEFINE A == {n \in DOMAIN t : t[n] \in S}
             B == {i \in K : s[i] \in S}
             f == [n \in A |-> at(n)]
  <2>1. IsFiniteSet(A)
    BY <1>7, CountTypes
  <2>2. \A n \in A : n \in 1..N /\ at(n) \in B
    BY <1>4, <1>5, <1>8
  <2>3. f \in [A -> B]
    BY <2>2
  <2>4. \A m, n \in A : f[m] = f[n] => m = n
    <3> SUFFICES ASSUME NEW m \in A, NEW n \in A, at(m) = at(n)
                 PROVE  m = n
      OBVIOUS
    <3>1. m - 1 = n - 1 /\ m \in 1..N /\ n \in 1..N
      BY <1>5, <2>2
    <3> QED
      BY <1>3, <3>1
  <2>5. \A i \in B : \E n \in A : f[n] = i
    <3> TAKE i \in B
    <3> DEFINE r == Rank(i, K, R)
    <3>1. r + 1 \in 1..N /\ r \in Nat
      BY <1>3
    <3>2. Rank(at(r + 1), K, R) = r + 1 - 1 /\ at(r + 1) \in K
      BY <1>5, <3>1
    <3>3. at(r + 1) = i
      <4>1. r + 1 - 1 = r
        BY <3>1
      <4> QED
        BY <1>3, <3>2, <4>1
    <3>4. r + 1 \in A
      BY <1>4, <1>8, <3>1, <3>3
    <3> QED
      BY <3>3, <3>4
  <2>6. Cardinality(B) = Cardinality(A)
    <3> HIDE DEF A, B, f
    <3> QED
      BY <2>1, <2>3, <2>4, <2>5, Matched
  <2> QED
    BY <2>6 DEF CountOf
<1> QED
  BY <1>7, <1>9 DEF t

-----------------------------------------------------------------------------
(* What the calls of a program find.                                       *)

(* A call that is dispatched has a severity that is not off.               *)
LEMMA CallTypes ==
    ASSUME TypeOK, NEW n \in DOMAIN work
    PROVE  /\ work[n].file \in Files /\ work[n].panics \in BOOLEAN
           /\ work[n].reports \in Nat /\ work[n].reports <= MaxReports
           /\ Dispatched(work[n]) => EffectiveSeverity(work[n].rule) \in {"error", "warning"}
<1>1. work[n] \in Calls
  BY LenProperties DEF TypeOK
<1>2. work[n].rule \in Rules /\ severity[work[n].rule] \in Severities
  BY <1>1 DEF TypeOK, Calls
<1>3. EffectiveSeverity(work[n].rule) \in Severities
  BY <1>2 DEF EffectiveSeverity, Severities
<1> QED
  BY <1>1, <1>3, BoundsAssumption DEF Calls, Dispatched, Severities

(* A call appends its findings one after the other.                        *)
LEMMA OutcomeIsFound ==
    ASSUME TypeOK, NEW n \in DOMAIN work
    PROVE  /\ Outcome(work[n]) \in Seq(Diagnostics)
           /\ Len(Outcome(work[n])) = FoundBy(work[n])
           /\ FoundBy(work[n]) \in Nat /\ FoundBy(work[n]) <= MaxReports + 1
           /\ \A k \in 1..FoundBy(work[n]) : Outcome(work[n])[k] = Found(<<n, k>>)
<1> DEFINE c == work[n]
<1>1. /\ c.file \in Files /\ c.panics \in BOOLEAN /\ c.reports \in Nat
      /\ c.reports <= MaxReports /\ MaxReports \in Nat
      /\ Dispatched(c) => EffectiveSeverity(c.rule) \in {"error", "warning"}
  BY CallTypes, BoundsAssumption
<1>2. CASE ~Dispatched(c)
  BY <1>1, <1>2 DEF Outcome, FoundBy
<1>3. CASE Dispatched(c)
  <2> DEFINE r == Report(c)
             p == Panic(c)
             N == c.reports
  <2>1. /\ r \in Seq(Diagnostics) /\ Len(r) = N
        /\ \A k \in 1..N : r[k] = [file |-> c.file, severity |-> EffectiveSeverity(c.rule)]
    <3>1. r \in [1..N -> Diagnostics]
      BY <1>1, <1>3 DEF Report, Diagnostics
    <3>2. \A m \in Nat : [1..m -> Diagnostics] \subseteq Seq(Diagnostics)
      OBVIOUS
    <3>3. r \in Seq(Diagnostics) /\ DOMAIN r = 1..N
      BY <1>1, <3>1, <3>2
    <3>4. Len(r) = N
      BY <1>1, <3>3, LenProperties
    <3> QED
      BY <3>3, <3>4 DEF Report
  <2>2. /\ p \in Seq(Diagnostics) /\ Len(p) = IF c.panics THEN 1 ELSE 0
        /\ c.panics => p[1] = [file |-> c.file, severity |-> "warning"]
    <3> DEFINE w == [file |-> c.file, severity |-> "warning"]
    <3>1. w \in Diagnostics
      BY <1>1 DEF Diagnostics
    <3> HIDE DEF w
    <3>2. <<w>> \in Seq(Diagnostics) /\ Len(<<w>>) = 1 /\ <<w>>[1] = w
      BY <3>1
    <3>3. p = IF c.panics THEN <<w>> ELSE <<>>
      BY DEF Panic, w
    <3> HIDE DEF p
    <3>4. <<>> \in Seq(Diagnostics) /\ Len(<<>>) = 0
      OBVIOUS
    <3>5. c.panics => p[1] = w
      BY <3>2, <3>3
    <3> QED
      BY <1>1, <3>2, <3>3, <3>4, <3>5 DEF w
  <2> HIDE DEF r, p
  <2>3. /\ r \o p \in Seq(Diagnostics)
        /\ Len(r \o p) = Len(r) + Len(p)
        /\ \A k \in 1..Len(r) + Len(p) : (r \o p)[k] = IF k <= Len(r) THEN r[k] ELSE p[k - Len(r)]
    BY <2>1, <2>2, ConcatProperties
  <2>4. Outcome(c) = r \o p /\ FoundBy(c) = Len(r) + Len(p)
    BY <1>3, <2>1, <2>2 DEF Outcome, FoundBy, r, p
  <2>5. FoundBy(c) \in Nat /\ FoundBy(c) <= MaxReports + 1
    BY <1>1, <2>1, <2>2, <2>4
  <2>6. ASSUME NEW k \in 1..FoundBy(c)
        PROVE  (r \o p)[k] = Found(<<n, k>>)
    <3>1. CASE k <= N
      <4>1. k \in 1..N /\ k \in 1..Len(r) + Len(p)
        BY <1>1, <2>4, <3>1
      <4> QED
        BY <2>1, <2>3, <3>1, <4>1 DEF Found
    <3>2. CASE ~(k <= N)
      <4>1. c.panics /\ k = N + 1
        BY <1>1, <2>1, <2>2, <2>4, <3>2
      <4>2. k - N = 1 /\ k \in 1..Len(r) + Len(p)
        BY <1>1, <2>4, <4>1
      <4>3. (r \o p)[k] = p[1]
        BY <2>1, <2>3, <3>2, <4>2
      <4> QED
        BY <2>2, <3>2, <4>1, <4>3 DEF Found
    <3> QED
      BY <3>1, <3>2
  <2> QED
    BY <2>3, <2>4, <2>5, <2>6
<1> QED
  BY <1>2, <1>3

(* There are finitely many findings, and each is a diagnostic.             *)
LEMMA FindingsTypes ==
    ASSUME TypeOK, NEW n \in 0..Len(work), NEW S
    PROVE  /\ IsFiniteSet({x \in Findings(n) : Found(x) \in S})
           /\ Cardinality({x \in Findings(n) : Found(x) \in S}) \in Nat
           /\ \A x \in Findings(n) : Found(x) \in Diagnostics
<1>1. work \in Seq(Calls) /\ Len(work) \in Nat /\ DOMAIN work = 1..Len(work)
  BY LenProperties DEF TypeOK
<1>2. IsFiniteSet((1..n) \X (1..MaxReports + 1))
  <2>1. IsFiniteSet(1..n) /\ IsFiniteSet(1..MaxReports + 1)
    BY <1>1, BoundsAssumption, FS_Interval
  <2> QED
    BY <2>1, FS_Product
<1>3. IsFiniteSet({x \in Findings(n) : Found(x) \in S})
  <2>1. {x \in Findings(n) : Found(x) \in S} \subseteq (1..n) \X (1..MaxReports + 1)
    BY DEF Findings
  <2> QED
    BY <1>2, <2>1, FS_Subset
<1>4. ASSUME NEW x \in Findings(n)
      PROVE  Found(x) \in Diagnostics
  <2>1. x[1] \in DOMAIN work /\ x[2] \in 1..FoundBy(work[x[1]]) /\ x = <<x[1], x[2]>>
    BY <1>1, <1>4, BoundsAssumption, OutcomeIsFound DEF Findings
  <2>2. /\ Outcome(work[x[1]]) \in Seq(Diagnostics)
        /\ Len(Outcome(work[x[1]])) = FoundBy(work[x[1]])
        /\ Outcome(work[x[1]])[x[2]] = Found(x)
    BY <2>1, OutcomeIsFound
  <2> QED
    BY <2>1, <2>2, LenProperties
<1> QED
  BY <1>3, <1>4, FS_CardinalityType

(* The n-th call adds its own findings to those before it.                 *)
LEMMA FindingsGrow ==
    ASSUME TypeOK, NEW n \in 1..Len(work), NEW S
    PROVE  Cardinality({x \in Findings(n) : Found(x) \in S})
             = Cardinality({x \in Findings(n - 1) : Found(x) \in S}) + CountOf(Outcome(work[n]), S)
<1> DEFINE A == {x \in Findings(n - 1) : Found(x) \in S}
           C == {x \in Findings(n) : Found(x) \in S}
           o == Outcome(work[n])
           B == {k \in DOMAIN o : o[k] \in S}
           D == {x \in C : x[1] = n}
           f == [k \in B |-> <<n, k>>]
<1>1. work \in Seq(Calls) /\ Len(work) \in Nat /\ DOMAIN work = 1..Len(work)
  BY LenProperties DEF TypeOK
<1>2. n \in DOMAIN work /\ n - 1 \in 0..Len(work) /\ n \in Nat
  BY <1>1
<1>3. /\ o \in Seq(Diagnostics) /\ DOMAIN o = 1..FoundBy(work[n])
      /\ FoundBy(work[n]) \in Nat /\ FoundBy(work[n]) <= MaxReports + 1
      /\ \A k \in 1..FoundBy(work[n]) : o[k] = Found(<<n, k>>)
  BY <1>2, OutcomeIsFound, LenProperties
<1>4. IsFiniteSet(A) /\ Cardinality(A) \in Nat
  BY <1>2, FindingsTypes
<1>5. IsFiniteSet(B) /\ Cardinality(B) \in Nat
  BY <1>3, CountTypes DEF CountOf
<1>6. IsFiniteSet(D) /\ Cardinality(D) = Cardinality(B)
  <2>1. \A k \in B : <<n, k>> \in D
    <3> TAKE k \in B
    <3>1. k \in 1..FoundBy(work[n]) /\ k \in 1..MaxReports + 1
      BY <1>3, BoundsAssumption
    <3>2. <<n, k>> \in Findings(n)
      BY <1>2, <3>1 DEF Findings
    <3> QED
      BY <1>3, <3>1, <3>2
  <2>2. f \in [B -> D]
    BY <2>1
  <2>3. \A k, l \in B : f[k] = f[l] => k = l
    OBVIOUS
  <2>4. \A x \in D : \E k \in B : f[k] = x
    <3> TAKE x \in D
    <3>1. x = <<n, x[2]>> /\ x[2] \in 1..MaxReports + 1 /\ x[2] <= FoundBy(work[n])
      BY DEF Findings
    <3>2. x[2] \in 1..FoundBy(work[n])
      BY <1>3, <3>1
    <3>3. x[2] \in B
      BY <1>3, <3>1, <3>2
    <3> QED
      BY <3>1, <3>3
  <2> HIDE DEF f, B, D
  <2> QED
    BY <1>5, <2>2, <2>3, <2>4, Matched
<1>7. C = A \cup D /\ A \cap D = {}
  <2>1. \A x : x \in Findings(n) <=> x \in Findings(n - 1) \/ (x \in Findings(n) /\ x[1] = n)
    <3>1. \A i : i \in 1..n <=> i \in 1..n - 1 \/ i = n
      BY <1>2
    <3> QED
      BY <3>1 DEF Findings
  <2>2. \A x \in Findings(n - 1) : x[1] # n
    BY <1>2 DEF Findings
  <2> QED
    BY <2>1, <2>2
<1>8. Cardinality(A \cup D) = Cardinality(A) + Cardinality(D) - Cardinality(A \cap D)
  BY <1>4, <1>6, FS_Union
<1>9. Cardinality(A \cap D) = 0
  BY <1>7, FS_EmptySet
<1>10. Cardinality(C) = Cardinality(A) + Cardinality(B)
  <2> HIDE DEF A, B, C, D
  <2> QED
    BY <1>4, <1>5, <1>6, <1>7, <1>8, <1>9
<1> QED
  BY <1>10 DEF CountOf

(* Before the first call there is nothing.                                 *)
LEMMA NoFindings == Findings(0) = {}
  BY DEF Findings

(* The errors that hasError and the cap look at.                           *)
ErrorsOf == {d \in AllDiagnostics : d.severity = "error"}

LEMMA ErrorsAreCounted ==
    /\ \A d \in Seq(AllDiagnostics) : ErrorsIn(d) = CountOf(d, ErrorsOf)
    /\ TypeOK => \A n \in 0..Len(work) :
                    Errors(n) = Cardinality({x \in Findings(n) : Found(x) \in ErrorsOf})
<1>1. ASSUME NEW d \in Seq(AllDiagnostics)
      PROVE  ErrorsIn(d) = CountOf(d, ErrorsOf)
  <2>1. \A i \in DOMAIN d : d[i] \in AllDiagnostics
    BY LenProperties
  <2>2. {i \in DOMAIN d : d[i].severity = "error"} = {i \in DOMAIN d : d[i] \in ErrorsOf}
    BY <2>1 DEF ErrorsOf
  <2> QED
    BY <2>2 DEF ErrorsIn, CountOf
<1>2. ASSUME TypeOK, NEW n \in 0..Len(work)
      PROVE  Errors(n) = Cardinality({x \in Findings(n) : Found(x) \in ErrorsOf})
  <2>1. \A x \in Findings(n) : Found(x) \in Diagnostics
    BY <1>2, FindingsTypes
  <2>2. Diagnostics \subseteq AllDiagnostics
    BY DEF Diagnostics, AllDiagnostics
  <2>3. {x \in Findings(n) : Found(x).severity = "error"} = {x \in Findings(n) : Found(x) \in ErrorsOf}
    BY <2>1, <2>2 DEF ErrorsOf
  <2> QED
    BY <2>3 DEF Errors
<1> QED
  BY <1>1, <1>2

-----------------------------------------------------------------------------
(* The steps.                                                              *)

(* Taking the positions as they stand, and sorting by file, are both       *)
(* strict total orders.                                                    *)
LEMMA BothArrange ==
    ASSUME NEW d \in Seq(AllDiagnostics)
    PROVE  /\ \A K \in SUBSET (DOMAIN d) : Arranges(AsTheyStand, K)
           /\ Arranges(ByFile(d), DOMAIN d)
<1>1. DOMAIN d \subseteq Nat /\ \A i \in DOMAIN d : d[i].file \in Nat
  <2>1. DOMAIN d = 1..Len(d) /\ Len(d) \in Nat /\ \A i \in DOMAIN d : d[i] \in AllDiagnostics
    BY LenProperties
  <2>2. 1..Len(d) \subseteq Nat
    BY <2>1
  <2>3. \A x \in AllDiagnostics : x.file \in Nat
    BY FilesAssumption DEF AllDiagnostics
  <2> QED
    BY <2>1, <2>2, <2>3
<1>2. ASSUME NEW K \in SUBSET (DOMAIN d)
      PROVE  Arranges(AsTheyStand, K)
  <2>1. \A i, j \in K : <<i, j>> \in AsTheyStand <=> i < j
    BY <1>1 DEF AsTheyStand
  <2> QED
    BY <1>1, <2>1 DEF Arranges
<1>3. Arranges(ByFile(d), DOMAIN d)
  <2>1. \A i, j \in DOMAIN d : <<i, j>> \in ByFile(d) <=>
          d[i].file < d[j].file \/ (d[i].file = d[j].file /\ i < j)
    <3> TAKE i, j \in DOMAIN d
    <3>1. <<i, j>>[1] = i /\ <<i, j>>[2] = j /\ <<i, j>> \in (DOMAIN d) \X (DOMAIN d)
      OBVIOUS
    <3> QED
      BY <3>1 DEF ByFile
  <2>2. \A i \in DOMAIN d : <<i, i>> \notin ByFile(d)
    BY <1>1, <2>1
  <2>3. ASSUME NEW i \in DOMAIN d, NEW j \in DOMAIN d, NEW k \in DOMAIN d,
               <<i, j>> \in ByFile(d), <<j, k>> \in ByFile(d)
        PROVE  <<i, k>> \in ByFile(d)
    <3>1. /\ d[i].file < d[j].file \/ (d[i].file = d[j].file /\ i < j)
          /\ d[j].file < d[k].file \/ (d[j].file = d[k].file /\ j < k)
      BY <2>1, <2>3
    <3>2. \A a, b, c, x, y, z \in Nat :
            /\ a < b \/ (a = b /\ x < y)
            /\ b < c \/ (b = c /\ y < z)
            => a < c \/ (a = c /\ x < z)
      OBVIOUS
    <3>3. d[i].file < d[k].file \/ (d[i].file = d[k].file /\ i < k)
      BY <1>1, <3>1, <3>2
    <3> QED
      BY <2>1, <3>3
  <2>4. ASSUME NEW i \in DOMAIN d, NEW j \in DOMAIN d, i # j
        PROVE  <<i, j>> \in ByFile(d) \/ <<j, i>> \in ByFile(d)
    BY <1>1, <2>1, <2>4
  <2> HIDE <2>1
  <2> QED
    BY <2>2, <2>3, <2>4 DEF Arranges
<1> QED
  BY <1>2, <1>3

(* The tooling leads to lint, and what there is to find is settled then.   *)
LEMMA AdvanceStages ==
    ASSUME Advance
    PROVE  /\ stage \in Range(Tooling)
           /\ stage' \in Range(Tooling) \cup {"lint"}
           /\ stage' = "lint" => UNCHANGED input
           /\ stage # "program" => UNCHANGED work
           /\ stage = "program" => work' \in Works
<1>1. PICK i \in DOMAIN Tooling : /\ stage = Tooling[i]
                                 /\ stage' = IF i < Len(Tooling) THEN Tooling[i + 1] ELSE "lint"
  BY DEF Advance
<1>2. i \in 1..8 /\ Len(Tooling) = 8
  BY ToolingRange
<1>3. /\ stage \in Range(Tooling)
      /\ stage' \in Range(Tooling) \cup {"lint"}
      /\ stage' = "lint" => stage = "rules"
  BY <1>1, <1>2, ToolingRange DEF Tooling
<1> QED
  BY <1>3 DEF Advance, input

(* A call changes nothing but what it appends and counts.                  *)
LEMMA CallAppends ==
    ASSUME TypeOK, Call
    PROVE  /\ next \in 1..Len(work) /\ next \in Nat /\ next' - 1 = next
           /\ Outcome(work[next]) \in Seq(AllDiagnostics)
           /\ diagnostics' \in Seq(AllDiagnostics)
           /\ errorCount' = errorCount + CountOf(Outcome(work[next]), ErrorsOf)
           /\ \A S : CountOf(diagnostics', S) = CountOf(diagnostics, S) + CountOf(Outcome(work[next]), S)
<1>1. Len(work) \in Nat /\ DOMAIN work = 1..Len(work)
  BY LenProperties DEF TypeOK
<1>2. next \in 1..Len(work) /\ next \in Nat /\ next' - 1 = next
  BY <1>1 DEF TypeOK, Call
<1>3. Outcome(work[next]) \in Seq(AllDiagnostics)
  <2>1. Outcome(work[next]) \in Seq(Diagnostics)
    BY <1>1, <1>2, OutcomeIsFound
  <2>2. Diagnostics \subseteq AllDiagnostics
    BY DEF Diagnostics, AllDiagnostics
  <2> QED
    BY <2>1, <2>2
<1>4. diagnostics \in Seq(AllDiagnostics)
  BY DEF TypeOK
<1>5. diagnostics' = diagnostics \o Outcome(work[next])
  BY DEF Call
<1>6. diagnostics' \in Seq(AllDiagnostics)
  BY <1>3, <1>4, <1>5, ConcatProperties
<1>7. \A S : CountOf(diagnostics \o Outcome(work[next]), S)
               = CountOf(diagnostics, S) + CountOf(Outcome(work[next]), S)
  BY <1>3, <1>4, CountConcat
<1>8. errorCount' = errorCount + CountOf(Outcome(work[next]), ErrorsOf)
  BY <1>3, ErrorsAreCounted DEF Call
<1> QED
  BY <1>2, <1>3, <1>5, <1>6, <1>7, <1>8

(* The filter leaves what lies in the files that are not ignored.          *)
LEMMA FilterKeeps ==
    ASSUME TypeOK, Filter
    PROVE  /\ diagnostics' \in Seq(AllDiagnostics)
           /\ \A S : CountOf(diagnostics', S) = CountOf(diagnostics, {x \in S : x.file \notin ignored})
<1> DEFINE K == {i \in DOMAIN diagnostics : diagnostics[i].file \notin ignored}
<1>1. diagnostics \in Seq(AllDiagnostics)
  BY DEF TypeOK
<1>2. Arranges(AsTheyStand, K)
  BY <1>1, BothArrange
<1>3. diagnostics' = InOrder(diagnostics, K, AsTheyStand)
  BY DEF Filter
<1>4. ASSUME NEW S
      PROVE  {i \in K : diagnostics[i] \in S}
               = {i \in DOMAIN diagnostics : diagnostics[i] \in {x \in S : x.file \notin ignored}}
  OBVIOUS
<1>5. K \in SUBSET (DOMAIN diagnostics)
  OBVIOUS
<1> HIDE DEF K
<1>6. /\ InOrder(diagnostics, K, AsTheyStand) \in Seq(AllDiagnostics)
      /\ \A S : CountOf(InOrder(diagnostics, K, AsTheyStand), S)
                  = Cardinality({i \in K : diagnostics[i] \in S})
  BY <1>1, <1>2, <1>5, ArrangedKeepsAll
<1>7. ASSUME NEW S
      PROVE  CountOf(diagnostics', S) = CountOf(diagnostics, {x \in S : x.file \notin ignored})
  <2>1. CountOf(diagnostics', S) = Cardinality({i \in K : diagnostics[i] \in S})
    BY <1>3, <1>6
  <2> QED
    BY <1>4, <2>1 DEF CountOf
<1> QED
  BY <1>3, <1>6, <1>7

(* The warning about the program's type errors is about the tsconfig.      *)
LEMMA DegradeKeeps ==
    ASSUME TypeOK, Degrade
    PROVE  /\ diagnostics' \in Seq(AllDiagnostics)
           /\ \A S \in SUBSET (AllDiagnostics \ {[file |-> Tsconfig, severity |-> "warning"]}) :
                CountOf(diagnostics', S) = CountOf(diagnostics, S)
<1> DEFINE w == [file |-> Tsconfig, severity |-> "warning"]
<1>1. diagnostics \in Seq(AllDiagnostics)
  BY DEF TypeOK
<1>2. w \in AllDiagnostics
  BY DEF AllDiagnostics
<1>3. CASE diagnostics' = <<w>> \o diagnostics
  <2> HIDE DEF w
  <2>1. <<w>> \in Seq(AllDiagnostics) /\ DOMAIN <<w>> = {1} /\ <<w>>[1] = w
    BY <1>2
  <2>2. <<w>> \o diagnostics \in Seq(AllDiagnostics)
    BY <1>1, <2>1, ConcatProperties
  <2>3. ASSUME NEW S \in SUBSET (AllDiagnostics \ {w})
        PROVE  CountOf(<<w>> \o diagnostics, S) = CountOf(diagnostics, S)
    <3>1. {i \in DOMAIN <<w>> : <<w>>[i] \in S} = {}
      BY <2>1
    <3>2. CountOf(<<w>>, S) = 0
      BY <3>1, FS_EmptySet DEF CountOf
    <3>3. CountOf(diagnostics, S) \in Nat
      BY <1>1, CountTypes
    <3>4. CountOf(<<w>> \o diagnostics, S) = CountOf(<<w>>, S) + CountOf(diagnostics, S)
      BY <1>1, <2>1, CountConcat
    <3> QED
      BY <3>2, <3>3, <3>4
  <2> QED
    BY <1>3, <2>2, <2>3 DEF w
<1>4. CASE UNCHANGED diagnostics
  BY <1>1, <1>4
<1> QED
  BY <1>3, <1>4 DEF Degrade

(* What a program finds depends on nothing that lint itself changes.       *)
LEMMA FindingsStay ==
    ASSUME UNCHANGED input
    PROVE  /\ EngineCap' = EngineCap /\ MaxDiagnostics' = MaxDiagnostics
           /\ Findings(next - 1)' = Findings(next' - 1)
           /\ Errors(next - 1)' = Errors(next' - 1)
           /\ Errors(next - 2)' = Errors(next' - 2)
           /\ \A x : Found(x)' = Found(x)
<1>1. UNCHANGED <<work, severity, only, ignored, human, flag, max>>
  BY DEF input
<1>2. EngineCap' = EngineCap /\ MaxDiagnostics' = MaxDiagnostics
  BY <1>1 DEF EngineCap, MaxDiagnostics
<1>3. \A r : EffectiveSeverity(r)' = EffectiveSeverity(r)
  BY <1>1 DEF EffectiveSeverity
<1>4. \A n : FoundBy(work[n])' = FoundBy(work[n])
  BY <1>1, <1>3 DEF FoundBy, Dispatched
<1>5. \A x : Found(x)' = Found(x)
  BY <1>1, <1>3 DEF Found
<1>6. Findings(next - 1)' = Findings(next' - 1) /\ Findings(next - 2)' = Findings(next' - 2)
  BY <1>4 DEF Findings
<1>7. Errors(next - 1)' = Errors(next' - 1) /\ Errors(next - 2)' = Errors(next' - 2)
  BY <1>5, <1>6 DEF Errors
<1> QED
  BY <1>2, <1>5, <1>6, <1>7

-----------------------------------------------------------------------------
(* Every step keeps each part of IInv.                                     *)

(* The types.                                                              *)
LEMMA TypePreserved ==
    ASSUME TypeOK, NothingYet, [Next]_vars
    PROVE  TypeOK'
<1>1. CASE Advance
  <2>1. /\ severity' \in [Rules -> Severities] /\ ignored' \subseteq Files /\ max' \in 0..MaxCap
        /\ UNCHANGED <<human, flag, next, diagnostics, errorCount, stopped>>
    BY <1>1 DEF Advance, TypeOK
  <2>2. stage' \in Stages
    BY <1>1, AdvanceStages DEF Stages
  <2>3. work' \in Seq(Calls)
    <3>1. CASE stage = "program"
      <4>1. PICK m \in 0..MaxCalls : work' \in [1..m -> Calls]
        BY <1>1, <3>1, AdvanceStages DEF Works, SeqOf
      <4>2. \A n \in Nat : [1..n -> Calls] \subseteq Seq(Calls)
        OBVIOUS
      <4> QED
        BY <4>1, <4>2, BoundsAssumption
    <3> QED
      BY <1>1, <3>1, AdvanceStages DEF TypeOK
  <2>4. next' \in 1..Len(work') + 1
    <3>1. next = 1
      BY <1>1, AdvanceStages DEF NothingYet
    <3>2. Len(work') \in Nat
      BY <2>3, LenProperties
    <3> QED
      BY <2>1, <3>1, <3>2
  <2> QED
    BY <2>1, <2>2, <2>3, <2>4 DEF TypeOK
<1>2. CASE Call
  <2>1. /\ next \in 1..Len(work) /\ next' = next + 1
        /\ diagnostics' \in Seq(AllDiagnostics)
        /\ errorCount' = errorCount + CountOf(Outcome(work[next]), ErrorsOf)
        /\ Outcome(work[next]) \in Seq(AllDiagnostics)
    BY <1>2, CallAppends DEF Call
  <2>2. errorCount' \in Nat
    <3>1. CountOf(Outcome(work[next]), ErrorsOf) \in Nat
      BY <2>1, CountTypes
    <3>2. errorCount \in Nat
      BY DEF TypeOK
    <3> QED
      BY <2>1, <3>1, <3>2
  <2>3. next' \in 1..Len(work') + 1
    BY <1>2, <2>1 DEF Call, input
  <2>4. stopped' \in BOOLEAN
    BY <1>2 DEF Call
  <2> QED
    BY <1>2, <2>1, <2>2, <2>3, <2>4 DEF TypeOK, Call, input
<1>3. CASE ToolFailure \/ EndLint \/ Format \/ FormatFails
  <2>1. UNCHANGED <<input, next, diagnostics, errorCount, stopped>> /\ stage' \in {"done", "filter"}
    BY <1>3 DEF ToolFailure, EndLint, Format, FormatFails
  <2> QED
    BY <2>1 DEF TypeOK, Stages, input
<1>4. CASE Filter
  <2>1. UNCHANGED <<input, next, errorCount, stopped>> /\ stage' = "degrade"
    BY <1>4 DEF Filter
  <2>2. diagnostics' \in Seq(AllDiagnostics)
    BY <1>4, FilterKeeps
  <2> QED
    BY <2>1, <2>2 DEF TypeOK, Stages, input
<1>5. CASE Degrade
  <2>1. UNCHANGED <<input, next, errorCount, stopped>> /\ stage' = "format"
    BY <1>5 DEF Degrade
  <2>2. diagnostics' \in Seq(AllDiagnostics)
    BY <1>5, DegradeKeeps
  <2> QED
    BY <2>1, <2>2 DEF TypeOK, Stages, input
<1>6. CASE UNCHANGED vars
  BY <1>6 DEF TypeOK, vars, input
<1> QED
  BY <1>1, <1>2, <1>3, <1>4, <1>5, <1>6 DEF Next

(* The engine's own stages are none of the tooling's.                      *)
LEMMA StagesDiffer ==
    {"lint", "filter", "degrade", "format", "done"} \cap Range(Tooling) = {}
  BY ToolingRange

(* What follows the tooling, stage by stage.                               *)
LEMMA StageOrder ==
    ASSUME [Next]_vars
    PROVE  /\ Advance => stage' \notin {"filter", "degrade", "format", "done"}
           /\ ~Advance => UNCHANGED input
           /\ ~Advance => stage' \notin Range(Tooling) \/ UNCHANGED vars
           /\ ~Advance /\ ~Call => UNCHANGED <<next, errorCount, stopped>>
           /\ ~Advance /\ ~Call /\ ~UNCHANGED vars => stage' # "lint"
           /\ stage' = "filter" => EndLint \/ UNCHANGED vars
           /\ stage' = "degrade" => Filter \/ UNCHANGED vars
           /\ stage' = "format" => Degrade \/ UNCHANGED vars
           /\ Finished' => Format \/ UNCHANGED vars
<1>1. CASE Advance
  BY <1>1, AdvanceStages, StagesDiffer DEF Finished
<1>2. CASE ~Advance /\ UNCHANGED vars
  BY <1>2 DEF vars, input
<1>3. CASE ToolFailure \/ Call \/ EndLint \/ Filter \/ Degrade \/ Format \/ FormatFails
  <2>1. UNCHANGED input /\ (~Call => UNCHANGED <<next, errorCount, stopped>>)
    BY <1>3 DEF ToolFailure, Call, EndLint, Filter, Degrade, Format, FormatFails
  <2>2. /\ ToolFailure => stage' = "done" /\ exit' = 2
        /\ Call => stage' = "lint"
        /\ EndLint => stage' = "filter"
        /\ Filter => stage' = "degrade"
        /\ Degrade => stage' = "format"
        /\ Format => stage' = "done"
        /\ FormatFails => stage' = "done" /\ exit' = 2
    BY DEF ToolFailure, Call, EndLint, Filter, Degrade, Format, FormatFails
  <2>3. ~(Advance /\ (ToolFailure \/ Call \/ EndLint \/ Filter \/ Degrade \/ Format \/ FormatFails))
    <3>1. Advance => stage' \in Range(Tooling) \cup {"lint"} /\ stage \in Range(Tooling)
      BY AdvanceStages
    <3>2. Call => stage = "lint"
      BY DEF Call
    <3> QED
      BY <2>2, <3>1, <3>2, StagesDiffer
  <2> QED
    BY <1>3, <2>1, <2>2, <2>3, StagesDiffer DEF Finished
<1> QED
  BY <1>1, <1>2, <1>3 DEF Next

(* Until lint begins nothing has been found.                               *)
LEMMA NothingPreserved ==
    ASSUME NothingYet, [Next]_vars
    PROVE  NothingYet'
<1> SUFFICES ASSUME stage' \in Range(Tooling)'
             PROVE  next' = 1 /\ diagnostics' = <<>> /\ errorCount' = 0 /\ ~stopped' /\ exit' = -1
  BY DEF NothingYet
<1>1. Range(Tooling)' = Range(Tooling)
  BY DEF Range, Tooling
<1>2. CASE Advance
  BY <1>2, AdvanceStages DEF NothingYet, Advance
<1>3. CASE UNCHANGED vars
  BY <1>1, <1>3 DEF NothingYet, vars
<1> QED
  BY <1>1, <1>2, <1>3, StageOrder

(* When lint begins, no call has been made.                                *)
LEMMA LintBegins ==
    ASSUME NothingYet, Advance, stage' = "lint"
    PROVE  /\ UNCHANGED <<input, next, diagnostics, errorCount, stopped>>
           /\ next = 1 /\ diagnostics = <<>> /\ errorCount = 0 /\ ~stopped
  BY AdvanceStages DEF NothingYet, Advance

(* The cap: errorCount is the number of errors the calls made so far have  *)
(* found, and a call that reaches the cap is the last.                     *)
LEMMA CapPreserved ==
    ASSUME TypeOK, NothingYet, CapInv, [Next]_vars
    PROVE  CapInv'
<1> SUFFICES ASSUME stage' = "lint" \/ Linted'
             PROVE  /\ errorCount' = Errors(next - 1)'
                    /\ stopped' <=> EngineCap' > 0 /\ errorCount' >= EngineCap'
                    /\ next' > 1 /\ EngineCap' > 0 => Errors(next - 2)' < EngineCap'
                    /\ Linted' => stopped' \/ next' = Len(work') + 1
  BY DEF CapInv
<1>1. CASE Advance
  <2>1. stage' = "lint" /\ ~Linted'
    BY <1>1, StageOrder DEF Linted, Finished
  <2>2. UNCHANGED input /\ next' = 1 /\ errorCount' = 0 /\ ~stopped'
    BY <1>1, <2>1, LintBegins
  <2>3. next' - 1 = 0
    BY <2>2
  <2>4. Errors(next - 1)' = 0
    <3>1. {x \in Findings(0) : Found(x).severity = "error"} = {}
      BY NoFindings
    <3>2. Errors(0) = 0
      BY <3>1, FS_EmptySet DEF Errors
    <3> QED
      BY <2>2, <2>3, <3>2, FindingsStay
  <2>5. EngineCap' > 0 => ~(0 >= EngineCap')
    <3>1. EngineCap \in Int
      BY BoundsAssumption DEF TypeOK, EngineCap, MaxDiagnostics
    <3> QED
      BY <2>2, <3>1, FindingsStay
  <2> QED
    BY <2>1, <2>2, <2>4, <2>5
<1>2. CASE Call
  <2>1. UNCHANGED input /\ stage = "lint" /\ ~stopped /\ stage' = "lint"
    BY <1>2 DEF Call
  <2>2. /\ next \in 1..Len(work) /\ next \in Nat /\ next' = next + 1
        /\ next' - 1 = next /\ next' - 2 = next - 1
    BY <1>2, CallAppends DEF Call
  <2>3. errorCount' = errorCount + CountOf(Outcome(work[next]), ErrorsOf)
    BY <1>2, CallAppends
  <2>4. next \in 0..Len(work) /\ next - 1 \in 0..Len(work)
    BY <2>2
  <2>5. Errors(next) = Errors(next - 1) + CountOf(Outcome(work[next]), ErrorsOf)
    BY <2>2, <2>4, ErrorsAreCounted, FindingsGrow
  <2>6. errorCount = Errors(next - 1) /\ ~(EngineCap > 0 /\ errorCount >= EngineCap)
    BY <2>1 DEF CapInv
  <2>7. errorCount' = Errors(next - 1)'
    BY <2>1, <2>2, <2>3, <2>5, <2>6, FindingsStay
  <2>8. stopped' <=> EngineCap' > 0 /\ errorCount' >= EngineCap'
    <3>1. stopped' = (EngineCap > 0 /\ errorCount' >= EngineCap)
      BY <1>2 DEF Call
    <3> QED
      BY <2>1, <3>1, FindingsStay
  <2>9. EngineCap' > 0 => Errors(next - 2)' < EngineCap'
    <3>1. EngineCap \in Int /\ errorCount \in Nat
      BY BoundsAssumption DEF TypeOK, EngineCap, MaxDiagnostics
    <3>2. EngineCap > 0 => Errors(next - 1) < EngineCap
      BY <2>6, <3>1
    <3> QED
      BY <2>1, <2>2, <3>2, FindingsStay
  <2>10. ~Linted'
    BY <2>1 DEF Linted, Finished
  <2> QED
    BY <2>7, <2>8, <2>9, <2>10
<1>3. CASE ~Advance /\ ~Call
  <2>1. UNCHANGED <<input, next, errorCount, stopped>>
    BY <1>3, StageOrder
  <2>2. EndLint \/ Linted \/ (stage = "lint" /\ stage' = "lint")
    <3>1. CASE UNCHANGED vars
      BY <3>1 DEF vars, Linted, Finished
    <3>2. CASE ~UNCHANGED vars
      BY <1>3, <3>2, StageOrder DEF Linted, Filter, Degrade, Format
    <3> QED
      BY <3>1, <3>2
  <2>3. stage = "lint" \/ Linted
    BY <2>2 DEF EndLint
  <2>4. /\ errorCount = Errors(next - 1)
        /\ stopped <=> EngineCap > 0 /\ errorCount >= EngineCap
        /\ next > 1 /\ EngineCap > 0 => Errors(next - 2) < EngineCap
    BY <2>3 DEF CapInv
  <2>5. Linted' => stopped \/ next = Len(work) + 1
    <3>1. CASE EndLint
      <4>1. stopped \/ next > Len(work)
        BY <3>1 DEF EndLint
      <4>2. next \in 1..Len(work) + 1 /\ Len(work) \in Nat
        BY LenProperties DEF TypeOK
      <4> QED
        BY <4>1, <4>2
    <3>2. CASE Linted
      BY <3>2 DEF CapInv
    <3>3. CASE stage' = "lint"
      BY <3>3 DEF Linted, Finished
    <3> QED
      BY <2>2, <3>1, <3>2, <3>3
  <2>6. work' = work
    BY <2>1 DEF input
  <2> QED
    BY <2>1, <2>4, <2>5, <2>6, FindingsStay
<1> QED
  BY <1>1, <1>2, <1>3

(* No finding is lost or doubled on the way to the filter.                 *)
LEMMA AllPreserved ==
    ASSUME TypeOK, NothingYet, AllAreThere, [Next]_vars
    PROVE  AllAreThere'
<1> SUFFICES ASSUME stage' \in {"lint", "filter"}, NEW S \in SUBSET AllDiagnostics
             PROVE  CountOf(diagnostics', S)
                      = Cardinality({x \in Findings(next - 1)' : Found(x)' \in S})
  <2>1. AllDiagnostics' = AllDiagnostics
    BY DEF AllDiagnostics
  <2> QED
    BY <2>1 DEF AllAreThere, CountOf
<1>1. CASE Advance
  <2>1. stage' = "lint"
    BY <1>1, StageOrder
  <2>2. UNCHANGED input /\ next' - 1 = 0 /\ diagnostics' = <<>>
    BY <1>1, <2>1, LintBegins
  <2>3. {x \in Findings(next - 1)' : Found(x)' \in S} = {}
    BY <2>2, FindingsStay, NoFindings
  <2>4. {i \in DOMAIN diagnostics' : diagnostics'[i] \in S} = {}
    BY <2>2
  <2> QED
    BY <2>3, <2>4, FS_EmptySet DEF CountOf
<1>2. CASE Call
  <2>1. UNCHANGED input /\ stage = "lint"
    BY <1>2 DEF Call
  <2>2. next \in 1..Len(work) /\ next' - 1 = next
    BY <1>2, CallAppends
  <2>3. CountOf(diagnostics', S) = CountOf(diagnostics, S) + CountOf(Outcome(work[next]), S)
    BY <1>2, CallAppends
  <2>4. CountOf(diagnostics, S) = Cardinality({x \in Findings(next - 1) : Found(x) \in S})
    BY <2>1 DEF AllAreThere
  <2>5. CountOf(diagnostics', S) = Cardinality({x \in Findings(next) : Found(x) \in S})
    BY <2>2, <2>3, <2>4, FindingsGrow
  <2>6. {x \in Findings(next - 1)' : Found(x)' \in S} = {x \in Findings(next) : Found(x) \in S}
    BY <2>1, <2>2, FindingsStay
  <2> QED
    BY <2>5, <2>6
<1>3. CASE EndLint \/ UNCHANGED vars
  <2>1. stage \in {"lint", "filter"} /\ UNCHANGED <<input, next, diagnostics>>
    BY <1>3 DEF EndLint, vars
  <2>2. CountOf(diagnostics, S) = Cardinality({x \in Findings(next - 1) : Found(x) \in S})
    BY <2>1 DEF AllAreThere
  <2>3. {x \in Findings(next - 1)' : Found(x)' \in S} = {x \in Findings(next - 1) : Found(x) \in S}
    BY <2>1, FindingsStay
  <2> QED
    BY <2>1, <2>2, <2>3
<1> QED
  BY <1>1, <1>2, <1>3, StageOrder

(* From the filter on, every finding outside the ignored files is there.   *)
LEMMA VisiblePreserved ==
    ASSUME TypeOK, AllAreThere, VisibleAreThere, [Next]_vars
    PROVE  VisibleAreThere'
<1> DEFINE Plain == AllDiagnostics \ {[file |-> Tsconfig, severity |-> "warning"]}
<1> SUFFICES ASSUME stage' \in {"degrade", "format"} \/ Finished', NEW S \in SUBSET Plain
             PROVE  CountOf(diagnostics', S)
                      = Cardinality({x \in Findings(next - 1)' :
                                        Found(x)' \in S /\ Found(x).file' \notin ignored'})
  <2>1. AllDiagnostics' = AllDiagnostics
    BY DEF AllDiagnostics
  <2> QED
    BY <2>1 DEF VisibleAreThere, CountOf
<1>1. ~Advance /\ UNCHANGED input
  BY StageOrder DEF Finished
<1>2. UNCHANGED ignored
  BY <1>1 DEF input
<1>3. UNCHANGED next
  BY <1>1, StageOrder DEF Call, Finished
<1>4. {x \in Findings(next - 1)' : Found(x)' \in S /\ Found(x).file' \notin ignored'}
        = {x \in Findings(next - 1) : Found(x) \in S /\ Found(x).file \notin ignored}
  BY <1>1, <1>2, <1>3, FindingsStay
<1>5. CASE Filter
  <2> DEFINE V == {x \in S : x.file \notin ignored}
  <2>1. V \in SUBSET AllDiagnostics
    OBVIOUS
  <2>2. CountOf(diagnostics', S) = CountOf(diagnostics, V)
    BY <1>5, FilterKeeps
  <2>3. CountOf(diagnostics, V) = Cardinality({x \in Findings(next - 1) : Found(x) \in V})
    BY <1>5, <2>1 DEF Filter, AllAreThere
  <2>4. {x \in Findings(next - 1) : Found(x) \in V}
          = {x \in Findings(next - 1) : Found(x) \in S /\ Found(x).file \notin ignored}
    OBVIOUS
  <2> QED
    BY <1>4, <2>2, <2>3, <2>4
<1>6. CASE ~Filter
  <2>1. Degrade \/ Format \/ UNCHANGED vars
    BY <1>6, StageOrder
  <2>2. CountOf(diagnostics', S) = CountOf(diagnostics, S)
    BY <2>1, DegradeKeeps DEF Format, vars
  <2>3. stage \in {"degrade", "format"} \/ Finished
    BY <2>1 DEF Degrade, Format, vars, Finished
  <2>4. CountOf(diagnostics, S)
          = Cardinality({x \in Findings(next - 1) : Found(x) \in S /\ Found(x).file \notin ignored})
    BY <2>3 DEF VisibleAreThere
  <2> QED
    BY <1>4, <2>2, <2>4
<1> QED
  BY <1>5, <1>6

(* Printing and judging happen at once, and nothing changes afterwards.    *)
LEMMA JudgedPreserved ==
    ASSUME Judged, [Next]_vars
    PROVE  Judged'
<1> SUFFICES ASSUME Finished'
             PROVE  /\ shown' = Rendered(diagnostics)'
                    /\ exit' = IF ErrorsIn(diagnostics)' > 0 THEN 1 ELSE 0
  BY DEF Judged
<1>1. UNCHANGED input
  BY StageOrder DEF Finished
<1>2. UNCHANGED diagnostics
  BY StageOrder DEF Format, vars
<1>3. Rendered(diagnostics)' = Rendered(diagnostics)
  BY <1>1, <1>2, FindingsStay DEF Rendered, Sorted, ByFile, InOrder, Rank, input
<1>4. ErrorsIn(diagnostics)' = ErrorsIn(diagnostics)
  BY <1>2 DEF ErrorsIn
<1>5. CASE Format
  BY <1>3, <1>4, <1>5 DEF Format
<1>6. CASE UNCHANGED vars
  <2>1. Finished /\ UNCHANGED <<shown, exit>>
    BY <1>6 DEF Finished, vars
  <2> QED
    BY <1>3, <1>4, <2>1 DEF Judged
<1> QED
  BY <1>5, <1>6, StageOrder

-----------------------------------------------------------------------------
(* The theorems.                                                           *)

(* IInv holds at first.                                                    *)
LEMMA InitInvariant == Init => IInv
<1> SUFFICES ASSUME Init
             PROVE  IInv
  OBVIOUS
<1>1. TypeOK
  <2>1. /\ work \in Seq(Calls) /\ next \in 1..Len(work) + 1
        /\ diagnostics \in Seq(AllDiagnostics)
    BY DEF Init
  <2>2. severity \in [Rules -> Severities] /\ max \in 0..MaxCap
    BY BoundsAssumption DEF Init, Severities
  <2>3. stage \in Stages
    BY ToolingRange DEF Init, Stages
  <2>4. ignored \subseteq Files /\ human \in BOOLEAN /\ flag \in -1..MaxCap /\ errorCount \in Nat
        /\ stopped \in BOOLEAN
    BY DEF Init
  <2> QED
    BY <2>1, <2>2, <2>3, <2>4 DEF TypeOK
<1>2. NothingYet
  BY DEF Init, NothingYet
<1>3. stage = "seed"
  BY DEF Init
<1>4. CapInv /\ AllAreThere /\ VisibleAreThere /\ Judged
  BY <1>3 DEF CapInv, AllAreThere, VisibleAreThere, Judged, Linted, Finished
<1> QED
  BY <1>1, <1>2, <1>4 DEF IInv

(* Every step keeps it.                                                    *)
LEMMA NextInvariant == IInv /\ [Next]_vars => IInv'
  BY TypePreserved, NothingPreserved, CapPreserved, AllPreserved, VisiblePreserved,
     JudgedPreserved DEF IInv

(* In every state of a lint run, whatever the program, the configuration   *)
(* and the flags: the findings are counted rightly from the engine to the  *)
(* verdict.                                                                *)
THEOREM LintInvariant == Spec => []IInv
  BY InitInvariant, NextInvariant, PTL DEF Spec

(* The variables keep their types.                                         *)
THEOREM TypeCorrect == Spec => []TypeOK
<1>1. IInv => TypeOK
  BY DEF IInv
<1> QED
  BY <1>1, LintInvariant, PTL

(* engine.go:119-147: a handler's panic loses no diagnostic and doubles    *)
(* none, of that handler or of another.                                    *)
THEOREM PanicsAreContained == Spec => []PanicsLoseNothing
<1>1. ASSUME IInv
      PROVE  PanicsLoseNothing
  <2> SUFFICES ASSUME stage = "lint", NEW x \in Diagnostics
               PROVE  Occurrences(diagnostics, x)
                        = Cardinality({y \in Findings(next - 1) : Found(y) = x})
    BY DEF PanicsLoseNothing
  <2>1. {x} \in SUBSET AllDiagnostics
    BY DEF Diagnostics, AllDiagnostics
  <2>2. CountOf(diagnostics, {x}) = Cardinality({y \in Findings(next - 1) : Found(y) \in {x}})
    BY <1>1, <2>1 DEF IInv, AllAreThere
  <2>3. {y \in Findings(next - 1) : Found(y) \in {x}} = {y \in Findings(next - 1) : Found(y) = x}
    OBVIOUS
  <2>4. {i \in DOMAIN diagnostics : diagnostics[i] \in {x}} = {i \in DOMAIN diagnostics : diagnostics[i] = x}
    OBVIOUS
  <2> QED
    BY <2>2, <2>3, <2>4 DEF CountOf, Occurrences
<1> QED
  BY <1>1, LintInvariant, PTL

(* engine.go:104-112: the walk ends with the call that reaches the cap.    *)
THEOREM CapIsExact == Spec => []StopsAtTheCap
<1>1. ASSUME IInv
      PROVE  StopsAtTheCap
  BY <1>1 DEF IInv, CapInv, StopsAtTheCap
<1> QED
  BY <1>1, LintInvariant, PTL

(* A finished run has an error to report exactly when one of the calls     *)
(* made found one outside the ignored files.                               *)
LEMMA VerdictByFindings ==
    ASSUME IInv, Finished
    PROVE  exit = 1 <=> \E x \in Findings(next - 1) :
                            Found(x).severity = "error" /\ Found(x).file \notin ignored
<1> DEFINE E == {x \in Findings(next - 1) : Found(x) \in ErrorsOf /\ Found(x).file \notin ignored}
<1>1. next - 1 \in 0..Len(work)
  <2>1. next \in 1..Len(work) + 1 /\ Len(work) \in Nat
    BY LenProperties DEF IInv, TypeOK
  <2> QED
    BY <2>1
<1>2. diagnostics \in Seq(AllDiagnostics) /\ TypeOK
  BY DEF IInv, TypeOK
<1>3. ErrorsIn(diagnostics) = Cardinality(E)
  <2>1. ErrorsIn(diagnostics) = CountOf(diagnostics, ErrorsOf)
    BY <1>2, ErrorsAreCounted
  <2>2. ErrorsOf \in SUBSET (AllDiagnostics \ {[file |-> Tsconfig, severity |-> "warning"]})
    BY DEF ErrorsOf
  <2> QED
    BY <2>1, <2>2 DEF IInv, VisibleAreThere
<1>4. IsFiniteSet(E) /\ Cardinality(E) \in Nat
  <2>1. IsFiniteSet({x \in Findings(next - 1) : Found(x) \in ErrorsOf})
    BY <1>1, <1>2, FindingsTypes
  <2>2. E \subseteq {x \in Findings(next - 1) : Found(x) \in ErrorsOf}
    OBVIOUS
  <2> QED
    BY <2>1, <2>2, FS_Subset, FS_CardinalityType
<1>5. exit = 1 <=> Cardinality(E) > 0
  BY <1>3 DEF IInv, Judged
<1>6. Cardinality(E) > 0 <=> E # {}
  <2> HIDE DEF E
  <2> QED
    BY <1>4, FS_EmptySet
<1>7. \A x \in Findings(next - 1) : Found(x) \in ErrorsOf <=> Found(x).severity = "error"
  <2>1. \A x \in Findings(next - 1) : Found(x) \in Diagnostics
    BY <1>1, <1>2, FindingsTypes
  <2>2. Diagnostics \subseteq AllDiagnostics
    BY DEF Diagnostics, AllDiagnostics
  <2> QED
    BY <2>1, <2>2 DEF ErrorsOf
<1> QED
  BY <1>5, <1>6, <1>7

(* A call finds a visible error exactly if it reports in a file that is    *)
(* not ignored, under a rule at error severity.                            *)
LEMMA VisibleErrorIsFound ==
    ASSUME TypeOK
    PROVE  HasVisibleError <=> \E x \in Findings(Len(work)) :
                                   Found(x).severity = "error" /\ Found(x).file \notin ignored
<1>1. Len(work) \in Nat /\ DOMAIN work = 1..Len(work)
  BY LenProperties DEF TypeOK
<1>2. ASSUME HasVisibleError
      PROVE  \E x \in Findings(Len(work)) : Found(x).severity = "error" /\ Found(x).file \notin ignored
  <2>1. PICK n \in DOMAIN work : /\ work[n].file \notin ignored /\ work[n].reports > 0
                                /\ EffectiveSeverity(work[n].rule) = "error"
    BY <1>2 DEF HasVisibleError, Range
  <2>2. Dispatched(work[n])
    BY <2>1 DEF Dispatched
  <2>3. work[n].reports \in Nat /\ 1 <= work[n].reports /\ work[n].reports <= MaxReports
    BY <2>1, CallTypes
  <2>4. 1 <= FoundBy(work[n])
    BY <2>2, <2>3 DEF FoundBy
  <2>5. 1 \in 1..MaxReports + 1
    BY BoundsAssumption
  <2>6. <<n, 1>> \in Findings(Len(work))
    BY <1>1, <2>4, <2>5 DEF Findings
  <2>7. Found(<<n, 1>>) = [file |-> work[n].file, severity |-> "error"]
    BY <2>1, <2>3 DEF Found
  <2> QED
    BY <2>1, <2>6, <2>7
<1>3. ASSUME NEW x \in Findings(Len(work)), Found(x).severity = "error", Found(x).file \notin ignored
      PROVE  HasVisibleError
  <2> DEFINE c == work[x[1]]
  <2>1. x[1] \in DOMAIN work /\ x[2] \in 1..MaxReports + 1 /\ x[2] <= FoundBy(c)
    BY <1>1 DEF Findings
  <2>2. x[2] <= c.reports /\ EffectiveSeverity(c.rule) = "error" /\ c.file \notin ignored
    BY <1>3 DEF Found
  <2>3. c.reports > 0
    BY <2>1, <2>2, CallTypes, BoundsAssumption
  <2> QED
    BY <2>1, <2>2, <2>3 DEF HasVisibleError, Range
<1> QED
  BY <1>2, <1>3

(* Findings only grow, and stop at the last call.                          *)
LEMMA EarlierAreAmongAll ==
    ASSUME TypeOK
    PROVE  /\ Findings(next - 1) \subseteq Findings(Len(work))
           /\ next = Len(work) + 1 => Findings(next - 1) = Findings(Len(work))
<1>1. next \in 1..Len(work) + 1 /\ Len(work) \in Nat
  BY LenProperties DEF TypeOK
<1>2. \A i \in 1..next - 1 : i \in 1..Len(work)
  BY <1>1
<1>3. next = Len(work) + 1 => next - 1 = Len(work)
  BY <1>1
<1> QED
  BY <1>2, <1>3 DEF Findings

(* cli.go:742-756: the cap spares work and shortens what is printed, but    *)
(* does not change the exit code: a run that stopped at the cap has found  *)
(* an error, and if no file is ignored that error counts.                  *)
THEOREM VerdictIsKept == Spec => []VerdictSurvivesTheCap
<1>1. ASSUME IInv
      PROVE  VerdictSurvivesTheCap
  <2> SUFFICES ASSUME Finished, ignored = {} \/ ~human
               PROVE  exit = 1 <=> HasVisibleError
    BY DEF VerdictSurvivesTheCap
  <2> DEFINE Bad(x) == Found(x).severity = "error" /\ Found(x).file \notin ignored
  <2>1. TypeOK /\ Linted
    BY <1>1 DEF IInv, Linted
  <2>2. exit = 1 <=> \E x \in Findings(next - 1) : Bad(x)
    BY <1>1, VerdictByFindings
  <2>3. HasVisibleError <=> \E x \in Findings(Len(work)) : Bad(x)
    BY <2>1, VisibleErrorIsFound
  <2>4. CASE next = Len(work) + 1
    BY <2>1, <2>2, <2>3, <2>4, EarlierAreAmongAll
  <2>5. CASE next # Len(work) + 1
    <3>1. stopped /\ EngineCap > 0 /\ errorCount >= EngineCap /\ errorCount = Errors(next - 1)
      BY <1>1, <2>1, <2>5 DEF IInv, CapInv
    <3>2. ignored = {}
      BY <3>1 DEF EngineCap
    <3>3. {x \in Findings(next - 1) : Found(x).severity = "error"} # {}
      <4>1. EngineCap \in Int /\ errorCount \in Nat
        BY <2>1, BoundsAssumption DEF TypeOK, EngineCap, MaxDiagnostics
      <4>2. Errors(next - 1) # 0
        BY <3>1, <4>1
      <4> QED
        BY <4>2, FS_EmptySet DEF Errors
    <3>4. \E x \in Findings(next - 1) : Bad(x)
      BY <3>2, <3>3
    <3> QED
      BY <2>1, <2>2, <2>3, <3>4, EarlierAreAmongAll
  <2> QED
    BY <2>4, <2>5
<1> QED
  BY <1>1, LintInvariant, PTL

(* cli.go:687-689: a machine format gets every finding outside the ignored *)
(* files exactly once, in whatever order the sort leaves them.             *)
THEOREM MachineFormatsAreComplete == Spec => []MachineOutputIsComplete
<1>1. ASSUME IInv
      PROVE  MachineOutputIsComplete
  <2> SUFFICES ASSUME Finished, ~human, NEW x \in Diagnostics
               PROVE  Occurrences(shown, x) =
                        IF x.file \in ignored THEN 0
                        ELSE Cardinality({y \in Findings(Len(work)) : Found(y) = x})
    BY DEF MachineOutputIsComplete
  <2>1. diagnostics \in Seq(AllDiagnostics) /\ TypeOK /\ Linted
    BY <1>1 DEF IInv, TypeOK, Linted
  <2>2. Findings(next - 1) = Findings(Len(work))
    <3>1. ~stopped
      BY <1>1, <2>1 DEF IInv, CapInv, EngineCap
    <3> QED
      BY <1>1, <2>1, <3>1, EarlierAreAmongAll DEF IInv, CapInv
  <2>3. shown = InOrder(diagnostics, DOMAIN diagnostics, ByFile(diagnostics))
    BY <1>1 DEF IInv, Judged, Rendered, Sorted
  <2>4. \A S : CountOf(shown, S) = CountOf(diagnostics, S)
    <3>1. Arranges(ByFile(diagnostics), DOMAIN diagnostics)
      BY <2>1, BothArrange
    <3> DEFINE K == DOMAIN diagnostics
    <3>2. K \in SUBSET (DOMAIN diagnostics)
      OBVIOUS
    <3>3. \A S : CountOf(InOrder(diagnostics, K, ByFile(diagnostics)), S)
                   = Cardinality({i \in K : diagnostics[i] \in S})
      BY <2>1, <3>1, <3>2, ArrangedKeepsAll
    <3> QED
      BY <2>3, <3>3 DEF CountOf
  <2>5. {x} \in SUBSET (AllDiagnostics \ {[file |-> Tsconfig, severity |-> "warning"]})
    BY FilesAssumption DEF Diagnostics, AllDiagnostics
  <2>6. CountOf(diagnostics, {x})
          = Cardinality({y \in Findings(Len(work)) : Found(y) \in {x} /\ Found(y).file \notin ignored})
    BY <1>1, <2>2, <2>5 DEF IInv, VisibleAreThere
  <2>7. {y \in Findings(Len(work)) : Found(y) \in {x} /\ Found(y).file \notin ignored}
          = IF x.file \in ignored THEN {} ELSE {y \in Findings(Len(work)) : Found(y) = x}
    OBVIOUS
  <2>8. Occurrences(shown, x) = CountOf(shown, {x})
    <3>1. {i \in DOMAIN shown : shown[i] \in {x}} = {i \in DOMAIN shown : shown[i] = x}
      OBVIOUS
    <3> QED
      BY <3>1 DEF Occurrences, CountOf
  <2> QED
    BY <2>4, <2>6, <2>7, <2>8, FS_EmptySet
<1> QED
  BY <1>1, LintInvariant, PTL
=============================================================================
