-------------------------- MODULE ResolutionProofs --------------------------
(***************************************************************************)
(* What runLint resolves, for directories of any depth and files of any    *)
(* content.  IInv says of each phase how far the walk has come (WalkInOrder,*)
(* MergedInOrder) and that what is resolved so far is what the files merged*)
(* so far call for (RuleDecided, MaxDecided, IgnoreDecided).  A merge adds a*)
(* file further in than all before, which gives the first two; for the     *)
(* third, a theorem on the loop of IgnoreMatcher.Matches and one on the    *)
(* concatenation of rules.                                                 *)
(***************************************************************************)
EXTENDS Resolution, SequenceTheorems, WellFoundedInduction, TLAPS

(* The levels are numbers; none of them is NoLevel.                        *)
LEMMA LevelsAreNatural == Levels \subseteq Nat /\ NoLevel \notin Levels
  BY DepthAssumption DEF Levels, NoLevel

(* filepath.Dir leads from a target in the tree to a directory in the tree.*)
LEMMA StartIsALevel ==
    ASSUME TypeOK, NEW t \in Levels
    PROVE  CascadeStart(t) \in Levels
  BY DepthAssumption, InvocationsAssumption DEF TypeOK, CascadeStart, Levels, NoLevel

(* So does the directory the search for the tsconfig starts from.          *)
LEMMA SeedIsALevel ==
    ASSUME invocation \in Invocations
    PROVE  Seed \in Levels
  BY DepthAssumption, InvocationsAssumption DEF Seed, Levels, NoLevel

(* What a file says, field by field.                                       *)
LEMMA ConfigTypes ==
    ASSUME TypeOK, NEW l \in Levels
    PROVE  /\ config[l].kind \in {"absent", "unreadable", "broken", "valid"}
           /\ config[l].rule \in Severities \cup {"none"}
           /\ config[l].options \in BOOLEAN
           /\ config[l].max \in BOOLEAN
           /\ config[l].ignore \in Seq(Patterns)
  BY ConfigsAssumption DEF TypeOK

(* Anchoring the patterns of a file gives as many rules.                   *)
LEMMA AnchoredTypes ==
    ASSUME TypeOK, NEW l \in Levels, stack # <<>>
    PROVE  LET new == [i \in DOMAIN config[l].ignore |-> Anchored(config[l].ignore[i], l)]
           IN  /\ new \in Seq(Rules)
               /\ Len(new) = Len(config[l].ignore)
               /\ DOMAIN new = 1..Len(new)
<1> DEFINE I == config[l].ignore
           new == [i \in DOMAIN I |-> Anchored(I[i], l)]
<1>1. I \in Seq(Patterns)
  BY ConfigTypes
<1>2. DOMAIN I = 1..Len(I) /\ Len(I) \in Nat /\ \A i \in DOMAIN I : I[i] \in Patterns
  BY <1>1, LenProperties
<1>3. stack[1] \in Levels
  BY LenProperties DEF TypeOK
<1>4. \A i \in DOMAIN I : Anchored(I[i], l) \in Rules
  BY <1>2, <1>3 DEF Anchored, Rules, Patterns
<1>5. new \in [1..Len(I) -> Rules]
  BY <1>2, <1>4
<1>6. new \in Seq(Rules)
  BY <1>2, <1>5
<1>7. Len(new) = Len(I)
  BY <1>5, <1>2
<1> QED
  BY <1>2, <1>5, <1>6, <1>7

(* Every step keeps the types.                                             *)
LEMMA TypePreserved ==
    ASSUME TypeOK, [Next]_vars
    PROVE  TypeOK'
<1> USE LevelsAreNatural DEF TypeOK, input
<1>1. CASE Ascend
  <2>1. dir - 1 \in Levels
    BY <1>1, DepthAssumption DEF Ascend, Levels
  <2> QED
    BY <1>1, <2>1 DEF Ascend, resolved
<1>2. CASE FoundTsconfig
  <2>1. CascadeStart(dir) \in Levels
    BY StartIsALevel
  <2> QED
    BY <1>2, <2>1 DEF FoundTsconfig, resolved
<1>3. CASE Collect
  <2>1. <<dir>> \o stack \in Seq(Levels)
    BY ConcatProperties
  <2>2. dir # 0 => dir - 1 \in Levels
    BY DepthAssumption DEF Levels
  <2> QED
    BY <1>3, <2>1, <2>2 DEF Collect, resolved
<1>4. CASE Merge
  <2> DEFINE l == stack[next]
             new == [i \in DOMAIN config[l].ignore |-> Anchored(config[l].ignore[i], l)]
  <2>1. l \in Levels /\ stack # <<>>
    BY <1>4, LenProperties DEF Merge
  <2>2. ignore \o new \in Seq(Rules)
    BY <2>1, AnchoredTypes, ConcatProperties
  <2>3. ignore' = ignore \o new
    BY <1>4 DEF Merge
  <2> QED
    BY <1>4, <2>2, <2>3 DEF Merge
<1>5. CASE NoTsconfig \/ StatFails \/ LoadFails \/ Finish
  BY <1>5 DEF NoTsconfig, StatFails, LoadFails, Finish, resolved
<1>6. CASE UNCHANGED vars
  BY <1>6 DEF vars, resolved
<1> QED
  BY <1>1, <1>2, <1>3, <1>4, <1>5, <1>6 DEF Next

(* One more level collected, on top of those further in. *)
LEMMA CollectedOneMore ==
    ASSUME TypeOK, NEW lo \in Levels, Start \in Levels, lo <= Start, Collected(lo + 1),
           config[lo].kind # "unreadable",
           stack' = IF config[lo].kind = "absent" THEN stack ELSE <<lo>> \o stack,
           UNCHANGED <<input, tsconfig>>
    PROVE  Collected(lo)'
<1> USE DepthAssumption DEF Levels
<1>1. Start' = Start /\ config' = config
  BY DEF Start, CascadeStart, input
<1>2. stack \in Seq(Levels) /\ DOMAIN stack = 1..Len(stack) /\ Len(stack) \in Nat
      /\ \A i \in DOMAIN stack : stack[i] \in Levels
  BY LenProperties DEF TypeOK
<1>2a. Len(stack) \in Nat
  BY <1>2
<1>3. \A l \in lo..Start : config[l].kind # "unreadable"
  BY DEF Collected
<1>4. CASE config[lo].kind = "absent"
  BY <1>1, <1>3, <1>4 DEF Collected
<1>5. CASE config[lo].kind # "absent"
  <2>1. /\ Len(stack') = Len(stack) + 1
        /\ DOMAIN stack' = 1..Len(stack) + 1
        /\ stack'[1] = lo
        /\ \A i \in 1..Len(stack) : stack'[i + 1] = stack[i]
        /\ \A i \in 2..Len(stack) + 1 : i - 1 \in 1..Len(stack) /\ stack'[i] = stack[i - 1]
    <3>1. <<lo>> \in Seq(Levels) /\ Len(<<lo>>) = 1 /\ <<lo>>[1] = lo
      OBVIOUS
    <3>2. /\ stack' \in Seq(Levels)
          /\ Len(stack') = Len(stack) + 1
          /\ \A i \in 1..Len(stack) + 1 : stack'[i] = IF i <= 1 THEN <<lo>>[i] ELSE stack[i - 1]
      BY <1>2, <1>5, <3>1, ConcatProperties
    <3> QED
      BY <1>2, <3>1, <3>2, LenProperties
  <2>2. \A i \in DOMAIN stack : stack[i] > lo
    BY <1>2 DEF Collected
  <2>3. \A i, j \in DOMAIN stack' : i < j => stack'[i] < stack'[j]
    <3> SUFFICES ASSUME NEW i \in DOMAIN stack', NEW j \in DOMAIN stack', i < j
                 PROVE  stack'[i] < stack'[j]
      OBVIOUS
    <3>1. /\ i \in 1..Len(stack) + 1 /\ j \in 2..Len(stack) + 1
          /\ j - 1 \in 1..Len(stack) /\ stack'[j] = stack[j - 1]
      <4>1. i \in 1..Len(stack) + 1 /\ j \in 1..Len(stack) + 1
        BY <2>1
      <4>2. \A L \in Nat : \A a, b \in 1..L + 1 : a < b => b \in 2..L + 1
        OBVIOUS
      <4>3. j \in 2..Len(stack) + 1
        BY <1>2a, <4>1, <4>2
      <4> QED
        BY <2>1, <4>1, <4>3
    <3>2. CASE i = 1
      BY <1>2, <2>1, <2>2, <3>1, <3>2
    <3>3. CASE i # 1
      <4>1. i \in 2..Len(stack) + 1
        BY <1>2, <3>1, <3>3
      <4>2. i - 1 \in 1..Len(stack) /\ stack'[i] = stack[i - 1]
        BY <2>1, <4>1
      <4>3. i - 1 < j - 1
        BY <1>2, <3>1
      <4> QED
        BY <1>2, <3>1, <4>2, <4>3 DEF Collected
    <3> QED
      BY <3>2, <3>3
  <2>4. ASSUME NEW l \in Levels
        PROVE  (\E i \in DOMAIN stack' : stack'[i] = l)
               <=> l >= lo /\ l <= Start /\ config[l].kind # "absent"
    <3>1. (\E i \in DOMAIN stack' : stack'[i] = l) <=> l = lo \/ (\E i \in DOMAIN stack : stack[i] = l)
      <4>1. ASSUME NEW i \in DOMAIN stack', stack'[i] = l
            PROVE  l = lo \/ (\E k \in DOMAIN stack : stack[k] = l)
        <5>1. CASE i = 1
          BY <2>1, <4>1, <5>1
        <5>2. CASE i # 1
          <6>1. i \in 1..Len(stack) + 1
            BY <2>1
          <6>2. \A L \in Nat : \A a \in 1..L + 1 : a # 1 => a \in 2..L + 1
            OBVIOUS
          <6>3. i \in 2..Len(stack) + 1
            BY <1>2a, <5>2, <6>1, <6>2
          <6>4. i - 1 \in 1..Len(stack) /\ stack'[i] = stack[i - 1]
            BY <2>1, <6>3
          <6> QED
            BY <1>2, <4>1, <6>4
        <5> QED
          BY <5>1, <5>2
      <4>2. ASSUME NEW i \in DOMAIN stack, stack[i] = l
            PROVE  \E k \in DOMAIN stack' : stack'[k] = l
        <5>1. i \in 1..Len(stack)
          BY <1>2
        <5>2. \A L \in Nat : \A a \in 1..L : a + 1 \in 1..L + 1
          OBVIOUS
        <5>3. i + 1 \in 1..Len(stack) + 1
          BY <1>2a, <5>1, <5>2
        <5>4. i + 1 \in DOMAIN stack' /\ stack'[i + 1] = l
          BY <2>1, <4>2, <5>1, <5>3
        <5> QED
          BY <5>4
      <4>3. 1 \in DOMAIN stack'
        BY <1>2, <2>1
      <4> QED
        BY <2>1, <4>1, <4>2, <4>3
    <3>2. (\E i \in DOMAIN stack : stack[i] = l) <=> l >= lo + 1 /\ l <= Start /\ config[l].kind # "absent"
      BY DEF Collected
    <3> QED
      BY <1>5, <3>1, <3>2
  <2> QED
    BY <1>1, <1>3, <2>3, <2>4 DEF Collected
<1> QED
  BY <1>4, <1>5

(* Every step keeps the order of the walk, and a step that fails has a reason.*)
LEMMA WalkPreserved ==
    ASSUME TypeOK, WalkInOrder, [Next]_vars
    PROVE  WalkInOrder'
<1> USE LevelsAreNatural, DepthAssumption
<1> DEFINE Kept == UNCHANGED <<input, tsconfig, stack>>
<1>1. Kept => /\ Start' = Start /\ (Bad' <=> Bad)
              /\ \A lo : Collected(lo)' <=> Collected(lo)
  BY DEF Start, Bad, CascadeStart, Collected, input
<1>2. CASE Ascend
  BY <1>2 DEF Ascend, WalkInOrder
<1>3. CASE NoTsconfig
  BY <1>3 DEF NoTsconfig, WalkInOrder
<1>4. CASE FoundTsconfig
  <2>1. /\ tsconfig' = dir /\ dir' = CascadeStart(dir) /\ phase' = "collect"
        /\ stack' = <<>> /\ UNCHANGED input
    BY <1>4 DEF FoundTsconfig, WalkInOrder
  <2>2. Start' = dir'
    BY <2>1 DEF Start, CascadeStart, input
  <2>3. dir' \in Levels /\ dir \in Levels
    BY <2>1, StartIsALevel DEF TypeOK
  <2>4. Collected(dir + 1)'
    <3>1. DOMAIN stack' = {}
      BY <2>1
    <3>2. ASSUME NEW d \in Levels
          PROVE  (\A l \in Levels : ~(l >= d + 1 /\ l <= d)) /\ d + 1..d = {}
      BY DEF Levels
    <3>3. (\A l \in Levels : ~(l >= dir' + 1 /\ l <= Start')) /\ dir' + 1..Start' = {}
      BY <2>2, <2>3, <3>2
    <3> QED
      BY <3>1, <3>2, <3>3 DEF Collected
  <2> QED
    BY <2>1, <2>2, <2>3, <2>4 DEF WalkInOrder, Levels
<1>5. CASE Collect
  <2>1. /\ phase = "collect" /\ config[dir].kind # "unreadable"
        /\ stack' = IF config[dir].kind = "absent" THEN stack ELSE <<dir>> \o stack
        /\ UNCHANGED <<input, tsconfig>>
    BY <1>5 DEF Collect
  <2>2. dir \in Levels /\ tsconfig \in Levels /\ Start \in Levels /\ dir <= Start /\ Collected(dir + 1)
    BY <2>1, StartIsALevel DEF WalkInOrder, TypeOK, Start
  <2>3. Start' = Start
    BY <2>1 DEF Start, CascadeStart, input
  <2>4. ASSUME NEW lo, lo = dir
        PROVE  Collected(lo)'
    BY <2>1, <2>2, <2>4, CollectedOneMore
  <2>5. CASE dir = 0
    <3>1. phase' = "merge" /\ Collected(0)'
      BY <1>5, <2>4, <2>5 DEF Collect
    <3> QED
      BY <2>1, <2>2, <3>1 DEF WalkInOrder
  <2>6. CASE dir # 0
    <3>1. phase' = "collect" /\ dir' = dir - 1
      BY <1>5, <2>1, <2>6 DEF Collect
    <3>2. dir' + 1 = dir /\ dir' <= Start
      BY <2>2, <3>1 DEF Levels
    <3>3. Collected(dir + 1)'
      BY <2>4, <3>2
    <3> QED
      BY <2>1, <2>2, <2>3, <3>1, <3>2, <3>3 DEF WalkInOrder
  <2> QED
    BY <2>5, <2>6
<1>6. CASE StatFails
  <2>1. dir \in Levels /\ dir <= Start /\ config[dir].kind = "unreadable"
    BY <1>6 DEF StatFails, WalkInOrder, TypeOK
  <2>2. Start \in Levels
    BY <1>6, StartIsALevel DEF StatFails, WalkInOrder, Start
  <2>3. dir \in 0..Start
    BY <2>1, <2>2, DepthAssumption DEF Levels
  <2>4. Bad
    BY <2>1, <2>3 DEF Bad
  <2> QED
    BY <1>1, <1>6, <2>4 DEF StatFails, WalkInOrder
<1>7. CASE LoadFails
  <2>1. next \in DOMAIN stack /\ stack[next] \in Levels /\ config[stack[next]].kind # "valid"
    BY <1>7, LenProperties DEF LoadFails, TypeOK
  <2>2. stack[next] \in 0..Start /\ config[stack[next]].kind # "absent"
    <3>1. phase = "merge" /\ Collected(0) /\ tsconfig \in Levels
      BY <1>7 DEF LoadFails, WalkInOrder
    <3>2. Start \in Levels
      BY <3>1, StartIsALevel DEF Start
    <3>3. stack[next] <= Start /\ config[stack[next]].kind # "absent"
      BY <2>1, <3>1 DEF Collected
    <3> QED
      BY <2>1, <3>2, <3>3 DEF Levels
  <2>3. Bad
    BY <2>1, <2>2, ConfigTypes DEF Bad
  <2> QED
    BY <1>1, <1>7, <2>3 DEF LoadFails, WalkInOrder
<1>8. CASE Merge
  BY <1>1, <1>8 DEF Merge, WalkInOrder
<1>9. CASE Finish
  BY <1>1, <1>9 DEF Finish, WalkInOrder
<1>10. CASE UNCHANGED vars
  BY <1>1, <1>10 DEF vars, input, WalkInOrder
<1> QED
  BY <1>2, <1>3, <1>4, <1>5, <1>6, <1>7, <1>8, <1>9, <1>10 DEF Next

(* Merge adds the next file, which lies further in than all before. *)
LEMMA OneMoreMerged ==
    ASSUME TypeOK, WalkInOrder, MergedInOrder, Merge
    PROVE  /\ stack[next] \in Levels
           /\ Merged \subseteq Levels
           /\ Merged' = Merged \cup {stack[next]}
           /\ \A k \in Merged : k < stack[next]
<1>1. stack \in Seq(Levels) /\ DOMAIN stack = 1..Len(stack) /\ next \in 1..Len(stack)
      /\ Len(stack) \in Nat /\ \A i \in 1..Len(stack) : stack[i] \in Levels
  BY LenProperties DEF TypeOK, Merge
<1>2. next' = next + 1 /\ stack' = stack
  BY DEF Merge
<1>3. 1..next' - 1 = (1..next - 1) \cup {next}
  <2>1. next' - 1 = next
    BY <1>1, <1>2
  <2> QED
    BY <1>1, <2>1
<1>4. Merged' = Merged \cup {stack[next]}
  BY <1>2, <1>3 DEF Merged
<1>5. \A i \in 1..next - 1 : i \in 1..Len(stack) /\ i < next
  BY <1>1
<1>6. ASSUME NEW i \in 1..next - 1
      PROVE  stack[i] < stack[next]
  <2>1. Collected(0)
    BY DEF Merge, WalkInOrder
  <2> QED
    BY <1>1, <1>5, <2>1 DEF Collected
<1> QED
  BY <1>1, <1>4, <1>5, <1>6 DEF Merged

(* Before the merge nothing is merged, so that what Collect does to the    *)
(* stack does not matter.                                                  *)
LEMMA NoMoreMerged ==
    ASSUME TypeOK, MergedInOrder, [Next]_vars, ~Merge
    PROVE  UNCHANGED <<Merged, config, default, resolved>>
<1>1. UNCHANGED <<config, default, resolved>>
  BY DEF Next, vars, input, Ascend, NoTsconfig, FoundTsconfig, Collect, StatFails,
         LoadFails, Finish
<1>2. CASE Collect
  <2>1. next = 1 /\ next' = 1
    BY <1>2 DEF Collect, MergedInOrder
  <2> QED
    BY <1>1, <2>1 DEF Merged
<1>3. CASE ~Collect
  <2>1. UNCHANGED <<stack, next>>
    BY <1>3 DEF Next, vars, input, Ascend, NoTsconfig, FoundTsconfig, StatFails,
                LoadFails, Finish
  <2> QED
    BY <1>1, <2>1 DEF Merged
<1> QED
  BY <1>2, <1>3

(* Only files that load are merged, one at a time.                         *)
LEMMA MergedPreserved ==
    ASSUME TypeOK, WalkInOrder, MergedInOrder, [Next]_vars
    PROVE  MergedInOrder'
<1> USE DEF MergedInOrder
<1>0. DOMAIN stack = 1..Len(stack) /\ Len(stack) \in Nat
  BY LenProperties DEF TypeOK
<1>1. CASE Merge
  <2>1. next' \in 1..Len(stack') + 1 /\ phase' = "merge"
    BY <1>0, <1>1 DEF Merge
  <2>2. \A l \in Merged' : config'[l].kind = "valid"
    BY <1>1, OneMoreMerged DEF Merge, input
  <2> QED
    BY <2>1, <2>2
<1>2. CASE ~Merge
  <2>1. \A l \in Merged' : config'[l].kind = "valid"
    BY <1>2, NoMoreMerged
  <2>2. CASE Collect
    <3>1. next' = 1 /\ phase' \in {"collect", "merge"} /\ Len(stack') \in Nat
      BY <2>2, TypePreserved, LenProperties DEF Collect, TypeOK
    <3> QED
      BY <2>1, <3>1
  <2>3. CASE Finish
    BY <1>0, <2>1, <2>3 DEF Finish
  <2>4. CASE ~Collect /\ ~Finish
    <3>1. UNCHANGED <<stack, next>>
      BY <1>2, <2>4 DEF Next, vars, input, Ascend, NoTsconfig, FoundTsconfig, StatFails,
                        LoadFails
    <3>2. /\ phase' \in {"discover", "collect"} => phase \in {"discover", "collect"}
          /\ phase' = "done" => phase = "done"
      BY <1>2, <2>4 DEF Next, vars, input, Ascend, NoTsconfig, FoundTsconfig, StatFails,
                        LoadFails
    <3> QED
      BY <2>1, <3>1, <3>2
  <2> QED
    BY <2>2, <2>3, <2>4
<1> QED
  BY <1>1, <1>2

(* A level further in than the others is the only innermost.               *)
LEMMA NewInnermost ==
    ASSUME NEW l \in Nat, NEW S, S \subseteq Nat, \A k \in S : k < l
    PROVE  \A k \in S \cup {l} : Innermost(k, S \cup {l}) => k = l
  BY DEF Innermost

(* The next file decides about the rule if it mentions it: it is further   *)
(* in than all that were merged.                                           *)
LEMMA RulePreserved ==
    ASSUME TypeOK, WalkInOrder, MergedInOrder, RuleDecided(Merged), [Next]_vars
    PROVE  RuleDecided(Merged)'
<1>1. CASE Merge
  <2> DEFINE l == stack[next]
             c == config[l]
  <2>1. /\ l \in Levels /\ Merged \subseteq Levels /\ Merged' = Merged \cup {l}
        /\ \A k \in Merged : k < l
    BY <1>1, OneMoreMerged
  <2>2. config' = config /\ default' = default
    BY <1>1 DEF Merge, input
  <2>3. CASE c.rule = "none"
    <3>1. severity' = severity /\ options' = options
      BY <1>1, <2>3 DEF Merge, MergeRule
    <3>2. RuleIn(Merged)' = RuleIn(Merged)
      BY <2>1, <2>2, <2>3 DEF RuleIn
    <3> QED
      BY <2>2, <3>1, <3>2 DEF RuleDecided, Innermost
  <2>4. CASE c.rule # "none"
    <3>1. /\ severity' = c.rule
          /\ options' = IF c.options /\ c.rule # "off" THEN l ELSE NoLevel
      BY <1>1, <2>4 DEF Merge, MergeRule
    <3>2. RuleIn(Merged)' = RuleIn(Merged) \cup {l}
      BY <2>1, <2>2, <2>4 DEF RuleIn
    <3>3. \A k \in RuleIn(Merged) : k < l
      BY <2>1 DEF RuleIn
    <3>4. l \in Nat /\ RuleIn(Merged) \subseteq Nat
      BY <2>1, LevelsAreNatural DEF RuleIn
    <3>5. \A k \in RuleIn(Merged)' : Innermost(k, RuleIn(Merged)') => k = l
      <4> HIDE DEF l
      <4> QED
        BY <3>2, <3>3, <3>4, NewInnermost
    <3> QED
      BY <2>2, <3>1, <3>2, <3>5 DEF RuleDecided
  <2> QED
    BY <2>3, <2>4
<1>2. CASE ~Merge
  BY <1>2, NoMoreMerged DEF RuleDecided, RuleIn, Innermost, resolved
<1> QED
  BY <1>1, <1>2

(* The same for maxDiagnostics.                                            *)
LEMMA MaxPreserved ==
    ASSUME TypeOK, WalkInOrder, MergedInOrder, MaxDecided(Merged), [Next]_vars
    PROVE  MaxDecided(Merged)'
<1>1. CASE Merge
  <2> DEFINE l == stack[next]
             c == config[l]
  <2>1. /\ l \in Levels /\ Merged \subseteq Levels /\ Merged' = Merged \cup {l}
        /\ \A k \in Merged : k < l
    BY <1>1, OneMoreMerged
  <2>2. config' = config
    BY <1>1 DEF Merge, input
  <2>3. CASE ~c.max
    <3>1. max' = max
      BY <1>1, <2>3 DEF Merge
    <3>2. MaxIn(Merged)' = MaxIn(Merged)
      BY <2>1, <2>2, <2>3 DEF MaxIn
    <3> QED
      BY <2>2, <3>1, <3>2 DEF MaxDecided, Innermost
  <2>4. CASE c.max
    <3>1. max' = l
      BY <1>1, <2>4 DEF Merge
    <3>2. MaxIn(Merged)' = MaxIn(Merged) \cup {l}
      BY <2>1, <2>2, <2>4 DEF MaxIn
    <3>3. \A k \in MaxIn(Merged) : k < l
      BY <2>1 DEF MaxIn
    <3>4. l \in Nat /\ MaxIn(Merged) \subseteq Nat
      BY <2>1, LevelsAreNatural DEF MaxIn
    <3>5. \A k \in MaxIn(Merged)' : Innermost(k, MaxIn(Merged)') => k = l
      <4> HIDE DEF l
      <4> QED
        BY <3>2, <3>3, <3>4, NewInnermost
    <3> QED
      BY <2>2, <3>1, <3>2, <3>5 DEF MaxDecided
  <2> QED
    BY <2>3, <2>4
<1>2. CASE ~Merge
  BY <1>2, NoMoreMerged DEF MaxDecided, MaxIn, Innermost, resolved
<1> QED
  BY <1>1, <1>2

(* A set of numbers that has an element has a least one.                   *)
LEMMA LeastElement ==
    ASSUME NEW T, T \subseteq Nat, T # {}
    PROVE  \E n \in T : \A m \in T : n <= m
<1>1. PICK n \in T : \A m \in T : <<m, n>> \notin OpToRel(<, Nat)
  BY WFMin, NatLessThanWellFounded
<1>2. \A m \in T : ~(m < n)
  BY <1>1 DEF OpToRel
<1> QED
  BY <1>2

(* A loop that takes its n-th value from the one before has one result:    *)
(* the first position at which two solutions differ would be neither 0 nor *)
(* a successor.                                                            *)
LEMMA LoopsAgree ==
    ASSUME NEW N \in Nat, NEW g, NEW h, g[0] = h[0],
           \A n \in 1..N : g[n - 1] = h[n - 1] => g[n] = h[n]
    PROVE  \A n \in 0..N : g[n] = h[n]
<1> DEFINE T == {n \in 0..N : g[n] # h[n]}
<1>1. SUFFICES ASSUME T # {}
               PROVE  FALSE
  OBVIOUS
<1>2. PICK n \in T : \A m \in T : n <= m
  <2>1. T \subseteq Nat
    OBVIOUS
  <2> HIDE DEF T
  <2> QED
    BY <1>1, <2>1, LeastElement
<1>3. n \in 1..N /\ n - 1 \in 0..N /\ n - 1 \notin T
  BY <1>2
<1> QED
  BY <1>2, <1>3

(* The loop of IgnoreMatcher.Matches and its result: the function that     *)
(* says of every prefix whether its last matching rule ignores satisfies   *)
(* the loop's equation, and nothing else does, since the first position at *)
(* which two solutions differ would have to be both 0 and a successor.     *)
LEMMA LastRuleDecides ==
    ASSUME ignore \in Seq(Rules), NEW f
    PROVE  Matches(f) <=> LastIgnores(ignore, f)
<1> DEFINE N == Len(ignore)
           Hit(n) == Applies(ignore[n], f)
           G == [n \in 0..N |->
                   \E k \in 1..n : /\ Hit(k) /\ ~ignore[k].negate
                                   /\ \A m \in k + 1..n : Hit(m) => ~ignore[m].negate]
           Step(h) == [n \in 0..N |->
                         IF n = 0 THEN FALSE
                         ELSE IF Hit(n) THEN ~ignore[n].negate ELSE h[n - 1]]
           H == CHOOSE h : h = Step(h)
<1>1. N \in Nat
  BY LenProperties
<1>2. ASSUME NEW n \in 0..N
      PROVE  G[n] = Step(G)[n]
  <2> HIDE DEF Hit
  <2>1. CASE n = 0
    BY <2>1
  <2>2. CASE n # 0 /\ Hit(n)
    <3>1. Step(G)[n] = ~ignore[n].negate
      BY <2>2
    <3>2. G[n] = \E k \in 1..n : /\ Hit(k) /\ ~ignore[k].negate
                                 /\ \A m \in k + 1..n : Hit(m) => ~ignore[m].negate
      BY <1>2
    <3>3. ASSUME ~ignore[n].negate
          PROVE  G[n]
      <4>1. n \in 1..n /\ n + 1..n = {}
        BY <1>1, <1>2, <2>2
      <4> QED
        BY <2>2, <3>2, <3>3, <4>1
    <3>4. ASSUME ignore[n].negate
          PROVE  ~G[n]
      <4>1. \A k \in 1..n : k = n \/ n \in k + 1..n
        BY <1>1, <1>2
      <4> QED
        BY <2>2, <3>2, <3>4, <4>1
    <3>5. G[n] \in BOOLEAN
      BY <3>2
    <3> QED
      BY <3>1, <3>3, <3>4, <3>5
  <2>3. CASE n # 0 /\ ~Hit(n)
    <3>1. Step(G)[n] = G[n - 1]
      BY <2>3
    <3>2. n - 1 \in 0..N
      BY <1>1, <1>2, <2>3
    <3>3. /\ G[n] = \E k \in 1..n : /\ Hit(k) /\ ~ignore[k].negate
                                    /\ \A m \in k + 1..n : Hit(m) => ~ignore[m].negate
          /\ G[n - 1] = \E k \in 1..n - 1 : /\ Hit(k) /\ ~ignore[k].negate
                                            /\ \A m \in k + 1..n - 1 : Hit(m) => ~ignore[m].negate
      BY <1>2, <3>2
    <3>4. 1..n = (1..n - 1) \cup {n}
      BY <1>1, <1>2, <2>3
    <3>5. \A k \in 1..n - 1 : k + 1..n = (k + 1..n - 1) \cup {n}
      BY <1>1, <1>2, <2>3
    <3> QED
      BY <2>3, <3>1, <3>3, <3>4, <3>5
  <2> QED
    BY <2>1, <2>2, <2>3
<1>3. G = Step(G)
  <2> HIDE DEF Hit
  <2> QED
    BY <1>2
<1>4. H = Step(H)
  <2> HIDE DEF G, Step
  <2> QED
    BY <1>3
<1>5. Matches(f) = H[N]
  BY DEF Matches
<1>6. \A n \in 0..N : H[n] = G[n]
  <2>1. H[0] = G[0]
    <3>1. Step(H)[0] = FALSE /\ Step(G)[0] = FALSE
      BY <1>1
    <3> HIDE DEF Step, G, H
    <3> QED
      BY <1>3, <1>4, <3>1
  <2>2. ASSUME NEW n \in 1..N, H[n - 1] = G[n - 1]
        PROVE  H[n] = G[n]
    <3>1. Step(H)[n] = Step(G)[n]
      <4> HIDE DEF G, H, Hit
      <4>1. n \in 0..N /\ n # 0
        BY <1>1
      <4>2. ASSUME NEW h
            PROVE  Step(h)[n] = IF Hit(n) THEN ~ignore[n].negate ELSE h[n - 1]
        BY <4>1
      <4> HIDE DEF Step
      <4> QED
        BY <2>2, <4>2
    <3> HIDE DEF Step, G, H
    <3> QED
      BY <1>3, <1>4, <3>1
  <2> HIDE DEF G, H, N
  <2> QED
    BY <1>1, <2>1, <2>2, LoopsAgree
<1>7. G[N] <=> LastIgnores(ignore, f)
  BY <1>1 DEF LastIgnores
<1> QED
  <2> HIDE DEF G, H
  <2> QED
    BY <1>1, <1>5, <1>6, <1>7

(* A rule of s \o t ignores a file last if one of t does, or if one of s   *)
(* does and no negation in t matches.                                      *)
LEMMA LastOfConcatenation ==
    ASSUME NEW s \in Seq(Rules), NEW t \in Seq(Rules), NEW f
    PROVE  LastIgnores(s \o t, f) <=>
              \/ LastIgnores(t, f)
              \/ /\ LastIgnores(s, f)
                 /\ \A m \in 1..Len(t) : Applies(t[m], f) => ~t[m].negate
<1> DEFINE c == s \o t
           S == Len(s)
           T == Len(t)
           Hit(r) == Applies(r, f)
<1>1. /\ S \in Nat /\ T \in Nat /\ Len(c) = S + T
      /\ \A n \in 1..S : c[n] = s[n]
      /\ \A n \in 1..T : c[S + n] = t[n]
      /\ \A n \in S + 1..S + T : n - S \in 1..T /\ c[n] = t[n - S]
  BY ConcatProperties, LenProperties
<1> HIDE DEF c, S, T, Hit
<1>2. /\ LastIgnores(c, f) <=> \E n \in 1..S + T :
              /\ Hit(c[n]) /\ ~c[n].negate
              /\ \A m \in n + 1..S + T : Hit(c[m]) => ~c[m].negate
      /\ LastIgnores(s, f) <=> \E n \in 1..S :
              /\ Hit(s[n]) /\ ~s[n].negate
              /\ \A m \in n + 1..S : Hit(s[m]) => ~s[m].negate
      /\ LastIgnores(t, f) <=> \E n \in 1..T :
              /\ Hit(t[n]) /\ ~t[n].negate
              /\ \A m \in n + 1..T : Hit(t[m]) => ~t[m].negate
  BY <1>1 DEF LastIgnores, Hit, S, T
<1>3. ASSUME LastIgnores(c, f)
      PROVE  \/ LastIgnores(t, f)
             \/ LastIgnores(s, f) /\ \A m \in 1..T : Hit(t[m]) => ~t[m].negate
  <2>1. PICK n \in 1..S + T :
               /\ Hit(c[n]) /\ ~c[n].negate
               /\ \A m \in n + 1..S + T : Hit(c[m]) => ~c[m].negate
    BY <1>2, <1>3
  <2>2. CASE n \in 1..S
    <3>1. \A m \in n + 1..S : m \in n + 1..S + T /\ c[m] = s[m]
      BY <1>1, <2>2
    <3>2. \A m \in 1..T : S + m \in n + 1..S + T /\ c[S + m] = t[m]
      BY <1>1, <2>2
    <3>3. c[n] = s[n]
      BY <1>1, <2>2
    <3> QED
      BY <1>2, <2>1, <2>2, <3>1, <3>2, <3>3
  <2>3. CASE n \in S + 1..S + T
    <3>1. n - S \in 1..T /\ c[n] = t[n - S]
      BY <1>1, <2>3
    <3>2. \A m \in n - S + 1..T : S + m \in n + 1..S + T /\ c[S + m] = t[m]
      BY <1>1, <2>3
    <3> QED
      BY <1>2, <2>1, <3>1, <3>2
  <2> QED
    BY <1>1, <2>2, <2>3
<1>4. ASSUME LastIgnores(t, f)
      PROVE  LastIgnores(c, f)
  <2>1. PICK n \in 1..T :
               /\ Hit(t[n]) /\ ~t[n].negate
               /\ \A m \in n + 1..T : Hit(t[m]) => ~t[m].negate
    BY <1>2, <1>4
  <2>2. S + n \in 1..S + T /\ c[S + n] = t[n]
    BY <1>1
  <2>3. \A m \in S + n + 1..S + T : m - S \in n + 1..T /\ c[m] = t[m - S]
    BY <1>1
  <2> QED
    BY <1>2, <2>1, <2>2, <2>3
<1>5. ASSUME LastIgnores(s, f), \A m \in 1..T : Hit(t[m]) => ~t[m].negate
      PROVE  LastIgnores(c, f)
  <2>1. PICK n \in 1..S :
               /\ Hit(s[n]) /\ ~s[n].negate
               /\ \A m \in n + 1..S : Hit(s[m]) => ~s[m].negate
    BY <1>2, <1>5
  <2>2. n \in 1..S + T /\ c[n] = s[n]
    BY <1>1
  <2>3. \A m \in n + 1..S + T : Hit(c[m]) => ~c[m].negate
    <3>1. ASSUME NEW m \in n + 1..S
          PROVE  Hit(c[m]) => ~c[m].negate
      <4>1. c[m] = s[m]
        BY <1>1, <3>1
      <4> QED
        BY <2>1, <4>1
    <3>2. ASSUME NEW m \in S + 1..S + T
          PROVE  Hit(c[m]) => ~c[m].negate
      BY <1>1, <1>5, <3>2
    <3>3. n + 1..S + T \subseteq (n + 1..S) \cup (S + 1..S + T)
      BY <1>1
    <3> QED
      BY <3>1, <3>2, <3>3
  <2> QED
    BY <1>2, <2>1, <2>2, <2>3
<1> QED
  BY <1>3, <1>4, <1>5 DEF c, T, Hit

(* The file the negations are anchored at, the first of the stack, is the  *)
(* outermost of the cascade.                                               *)
LEMMA FirstIsOutermost ==
    ASSUME TypeOK, tsconfig \in Levels, Collected(0), stack # <<>>
    PROVE  stack[1] = Outermost
<1>1. DOMAIN stack = 1..Len(stack) /\ Len(stack) \in Nat /\ 1 \in DOMAIN stack
      /\ \A i \in DOMAIN stack : stack[i] \in Levels
  BY LenProperties, EmptySeq DEF TypeOK
<1>2. Start \in Levels
  BY StartIsALevel DEF Start
<1>3. \A l : l \in Present <=> l \in Levels /\ l <= Start /\ config[l].kind # "absent"
  BY <1>2, DepthAssumption DEF Present, Levels
<1>4. \A l : l \in Present <=> \E i \in DOMAIN stack : stack[i] = l
  BY <1>1, <1>3, LevelsAreNatural DEF Collected
<1>5. \A k \in Present : stack[1] <= k
  <2>1. \A i \in DOMAIN stack : i # 1 => 1 < i
    BY <1>1
  <2>2. \A i \in DOMAIN stack : stack[1] <= stack[i]
    BY <1>1, <2>1, LevelsAreNatural DEF Collected
  <2> QED
    BY <1>4, <2>2
<1>6. stack[1] \in Present
  BY <1>1, <1>4
<1>7. Outermost \in Present /\ \A k \in Present : Outermost <= k
  BY <1>5, <1>6 DEF Outermost
<1>8. ASSUME NEW a \in Nat, NEW b \in Nat, a <= b, b <= a
      PROVE  a = b
  BY <1>8
<1>9. stack[1] \in Nat /\ Outermost \in Nat
  BY <1>3, <1>6, <1>7, LevelsAreNatural
<1> QED
  BY <1>5, <1>6, <1>7, <1>8, <1>9

(* Each file adds its rules at the end, anchored where Hits says.          *)
LEMMA IgnorePreserved ==
    ASSUME TypeOK, WalkInOrder, MergedInOrder, IgnoreDecided(Merged), [Next]_vars
    PROVE  IgnoreDecided(Merged)'
<1>1. CASE Merge
  <2> DEFINE l == stack[next]
             I == config[l].ignore
             new == [i \in DOMAIN I |-> Anchored(I[i], l)]
  <2>1. /\ l \in Levels /\ Merged \subseteq Levels /\ Merged' = Merged \cup {l}
        /\ \A k \in Merged : k < l
    BY <1>1, OneMoreMerged
  <2>2. stack # <<>>
    BY <1>1, LenProperties DEF Merge
  <2>3. /\ ignore' = ignore \o new
        /\ UNCHANGED <<config, invocation, tsconfig>>
    BY <1>1 DEF Merge, input
  <2>4. /\ new \in Seq(Rules) /\ Len(new) = Len(I)
        /\ DOMAIN new = 1..Len(new) /\ Len(new) \in Nat
    BY <2>1, <2>2, AnchoredTypes, LenProperties
  <2>5. DOMAIN I = 1..Len(new)
    BY <2>1, <2>4, ConfigTypes, LenProperties
  <2>6. stack[1] = Outermost
    BY <1>1, <2>2, FirstIsOutermost DEF Merge, WalkInOrder
  <2>7. Outermost' = Outermost /\ \A k, i, f : Hits(k, i, f)' <=> Hits(k, i, f)
    <3>1. Outermost' = Outermost
      BY <2>3 DEF Outermost, Present, Start, CascadeStart
    <3> QED
      BY <2>3, <3>1 DEF Hits
  <2>8. \A i \in 1..Len(new), f \in Levels :
           /\ Applies(new[i], f) <=> Hits(l, i, f)
           /\ new[i].negate = I[i].negate
    BY <2>5, <2>6 DEF Applies, Hits, Anchored
  <2> SUFFICES ASSUME NEW f \in Levels
               PROVE  LastIgnores(ignore', f) <=> IgnoredBy(Merged, f)'
    BY DEF IgnoreDecided, LastIgnores
  <2> DEFINE Here == \E i \in DOMAIN I : /\ ~I[i].negate
                                         /\ Hits(l, i, f)
                                         /\ \A j \in DOMAIN I : I[j].negate /\ j > i => ~Hits(l, j, f)
             Silent == \A j \in DOMAIN I : I[j].negate => ~Hits(l, j, f)
  <2>9. LastIgnores(ignore', f) <=> Here \/ (IgnoredBy(Merged, f) /\ Silent)
    <3>1. LastIgnores(ignore', f) <=>
             \/ LastIgnores(new, f)
             \/ /\ LastIgnores(ignore, f)
                /\ \A m \in 1..Len(new) : Applies(new[m], f) => ~new[m].negate
      <4>1. ignore \in Seq(Rules)
        BY DEF TypeOK
      <4> HIDE DEF new
      <4> QED
        BY <2>3, <2>4, <4>1, LastOfConcatenation
    <3>2. LastIgnores(new, f) <=> Here
      <4>1. LastIgnores(new, f) <=>
              \E n \in 1..Len(new) :
                 /\ Applies(new[n], f) /\ ~new[n].negate
                 /\ \A m \in n + 1..Len(new) : Applies(new[m], f) => ~new[m].negate
        BY DEF LastIgnores
      <4>2. \A n, m \in 1..Len(new) : m > n <=> m \in n + 1..Len(new)
        BY <2>4
      <4>3. \A n \in 1..Len(new) : n + 1..Len(new) \subseteq 1..Len(new)
        BY <2>4
      <4> HIDE DEF new, l, I
      <4> QED
        BY <2>5, <2>8, <4>1, <4>2, <4>3
    <3>3. (\A m \in 1..Len(new) : Applies(new[m], f) => ~new[m].negate) <=> Silent
      <4> HIDE DEF new, l, I
      <4> QED
        BY <2>5, <2>8
    <3>4. LastIgnores(ignore, f) <=> IgnoredBy(Merged, f)
      BY DEF IgnoreDecided
    <3> HIDE DEF new, Here, Silent
    <3> QED
      BY <3>1, <3>2, <3>3, <3>4
  <2>10. IgnoredBy(Merged, f)' <=> IgnoredBy(Merged \cup {l}, f)
    <3> HIDE DEF l
    <3> QED
      BY <2>1, <2>3, <2>7 DEF IgnoredBy
  <2>11. IgnoredBy(Merged \cup {l}, f) <=> Here \/ (IgnoredBy(Merged, f) /\ Silent)
    <3>1. \A k \in Merged : l > k /\ ~(k > l) /\ k # l
      <4>1. ASSUME NEW a \in Nat, NEW b \in Nat, a < b
            PROVE  b > a /\ ~(a > b) /\ a # b
        BY <4>1
      <4> HIDE DEF l
      <4> QED
        BY <2>1, <4>1, LevelsAreNatural
    <3>2. ~(l > l)
      <4>1. \A a \in Nat : ~(a > a)
        OBVIOUS
      <4> HIDE DEF l
      <4> QED
        BY <2>1, <4>1, LevelsAreNatural
    <3> DEFINE OverOf(k, i) == /\ ~config[k].ignore[i].negate
                               /\ Hits(k, i, f)
                               /\ \A n \in Merged \cup {l} : \A j \in DOMAIN config[n].ignore :
                                     config[n].ignore[j].negate /\ (n > k \/ (n = k /\ j > i))
                                        => ~Hits(n, j, f)
    <3>3. IgnoredBy(Merged \cup {l}, f)
             <=> \E k \in Merged \cup {l} : \E i \in DOMAIN config[k].ignore : OverOf(k, i)
      <4> HIDE DEF l
      <4> QED
        BY DEF IgnoredBy
    <3>4. (\E i \in DOMAIN I : OverOf(l, i)) <=> Here
      <4>1. ASSUME NEW i \in DOMAIN I
            PROVE  OverOf(l, i) <=> /\ ~I[i].negate
                                    /\ Hits(l, i, f)
                                    /\ \A j \in DOMAIN I : I[j].negate /\ j > i => ~Hits(l, j, f)
        <5> HIDE DEF l
        <5> QED
          BY <3>1, <3>2
      <4> HIDE DEF OverOf, l, I
      <4> QED
        BY <4>1
    <3>5. (\E k \in Merged : \E i \in DOMAIN config[k].ignore : OverOf(k, i))
             <=> IgnoredBy(Merged, f) /\ Silent
      <4>1. ASSUME NEW k \in Merged, NEW i \in DOMAIN config[k].ignore
            PROVE  OverOf(k, i) <=>
                     /\ ~config[k].ignore[i].negate
                     /\ Hits(k, i, f)
                     /\ \A n \in Merged : \A j \in DOMAIN config[n].ignore :
                           config[n].ignore[j].negate /\ (n > k \/ (n = k /\ j > i))
                              => ~Hits(n, j, f)
                     /\ Silent
        <5> HIDE DEF l
        <5> QED
          BY <3>1
      <4> HIDE DEF OverOf, l, I, Silent
      <4> QED
        BY <4>1 DEF IgnoredBy
    <3> HIDE DEF OverOf, l, I, Silent, Here
    <3>6. (\E k \in Merged \cup {l} : \E i \in DOMAIN config[k].ignore : OverOf(k, i))
             <=> \/ \E k \in Merged : \E i \in DOMAIN config[k].ignore : OverOf(k, i)
                 \/ \E i \in DOMAIN I : OverOf(l, i)
      BY DEF I
    <3> QED
      BY <3>3, <3>4, <3>5, <3>6
  <2> QED
    BY <2>9, <2>10, <2>11
<1>2. CASE ~Merge
  <2>1. UNCHANGED <<Merged, config, ignore>>
    BY <1>2, NoMoreMerged DEF resolved
  <2>2. CASE Merged = {}
    BY <2>1, <2>2 DEF IgnoreDecided, IgnoredBy, LastIgnores
  <2>3. CASE Merged # {}
    <3>1. ~FoundTsconfig
      <4>1. ASSUME FoundTsconfig
            PROVE  FALSE
        <5>1. next = 1
          BY <4>1 DEF FoundTsconfig, MergedInOrder
        <5> QED
          BY <2>3, <5>1 DEF Merged
      <4> QED
        BY <4>1
    <3>2. UNCHANGED <<tsconfig, invocation>>
      BY <1>2, <3>1 DEF Next, vars, input, Ascend, NoTsconfig, Collect, StatFails, LoadFails, Finish
    <3>3. Outermost' = Outermost
      BY <2>1, <3>2 DEF Outermost, Present, Start, CascadeStart
    <3>4. \A k, i, f : Hits(k, i, f)' <=> Hits(k, i, f)
      BY <2>1, <3>3 DEF Hits
    <3> QED
      BY <2>1, <3>4 DEF IgnoreDecided, IgnoredBy, LastIgnores
  <2> QED
    BY <2>2, <2>3
<1> QED
  BY <1>1, <1>2

(* Before the walk nothing is merged and the defaults stand.               *)
LEMMA InitInvariant ==
    ASSUME Init
    PROVE  IInv
<1> USE LevelsAreNatural DEF Init
<1>1. TypeOK
  BY SeedIsALevel, EmptySeq DEF TypeOK
<1>2. stack = <<>> /\ next = 1 /\ Len(stack) = 0
  BY EmptySeq
<1>3. Merged = {}
  BY <1>2 DEF Merged
<1>4. WalkInOrder /\ MergedInOrder
  BY <1>2, <1>3 DEF WalkInOrder, MergedInOrder
<1>5. RuleDecided(Merged) /\ MaxDecided(Merged)
  BY <1>3 DEF RuleDecided, MaxDecided, RuleIn, MaxIn
<1>6. IgnoreDecided(Merged)
  <2>1. Len(ignore) = 0
    BY EmptySeq
  <2> QED
    BY <1>3, <2>1 DEF IgnoreDecided, LastIgnores, IgnoredBy
<1> QED
  BY <1>1, <1>4, <1>5, <1>6 DEF IInv

(* The inductive invariant: whatever the files, the tsconfigs and the      *)
(* command line, and however deep the directories, what has been resolved  *)
(* at any point of the merge is what the files merged so far call for.     *)
THEOREM ResolutionInvariant == Spec => []IInv
<1>1. Init => IInv
  BY InitInvariant
<1>2. IInv /\ [Next]_vars => IInv'
  BY TypePreserved, WalkPreserved, MergedPreserved, RulePreserved, MaxPreserved,
     IgnorePreserved DEF IInv
<1> QED
  BY <1>1, <1>2, PTL DEF Spec

(* runLint's state keeps its types.                                        *)
THEOREM TypeCorrect == Spec => []TypeOK
<1>1. IInv => TypeOK
  BY DEF IInv
<1> QED
  BY <1>1, ResolutionInvariant, PTL

(* At the end every file of the cascade has been merged.                   *)
LEMMA AllAreMerged ==
    ASSUME IInv, phase = "done"
    PROVE  Merged = Present
<1>1. Collected(0) /\ tsconfig \in Levels /\ next = Len(stack) + 1
  BY DEF IInv, WalkInOrder, MergedInOrder
<1>2. DOMAIN stack = 1..Len(stack) /\ Len(stack) \in Nat
      /\ \A i \in DOMAIN stack : stack[i] \in Levels
  BY LenProperties DEF IInv, TypeOK
<1>3. Start \in Levels
  BY <1>1, StartIsALevel DEF Start, IInv
<1>4. \A l : l \in Present <=> l \in Levels /\ l <= Start /\ config[l].kind # "absent"
  BY <1>3, DepthAssumption DEF Present, Levels
<1>5. 1..next - 1 = DOMAIN stack
  BY <1>1, <1>2
<1>6. \A l : l \in Merged <=> \E i \in DOMAIN stack : stack[i] = l
  BY <1>5 DEF Merged
<1>7. \A l \in Levels : l >= 0
  BY LevelsAreNatural
<1>8. \A l \in Levels : l \in Merged <=> l \in Present
  BY <1>1, <1>4, <1>6, <1>7 DEF Collected
<1>9. Merged \subseteq Levels /\ Present \subseteq Levels
  BY <1>2, <1>4, <1>6
<1> QED
  BY <1>8, <1>9

(* ResolveCascade's result: the deepest file that mentions the rule, or    *)
(* maxDiagnostics, decides it, and the defaults stay without a mention.    *)
THEOREM InnermostWins == Spec => []InnermostMentionWins
<1>1. IInv => InnermostMentionWins
  BY AllAreMerged DEF IInv, InnermostMentionWins
<1> QED
  BY <1>1, ResolutionInvariant, PTL

(* A file of the cascade that cannot be read or does not load ends the     *)
(* run, and a run that has found its tsconfig fails for no other reason.   *)
THEOREM BadConfigEnds == Spec => []BadConfigEndsTheRun
<1>1. ASSUME IInv, phase = "done"
      PROVE  ~Bad
  <2>1. /\ Merged = Present
        /\ \A l \in Merged : config[l].kind = "valid"
        /\ \A l \in 0..Start : config[l].kind # "unreadable"
    BY <1>1, AllAreMerged DEF IInv, MergedInOrder, WalkInOrder, Collected
  <2> QED
    BY <2>1 DEF Bad, Present
<1>2. IInv => BadConfigEndsTheRun
  BY <1>1 DEF IInv, WalkInOrder, BadConfigEndsTheRun
<1> QED
  BY <1>2, ResolutionInvariant, PTL

(* The matcher of the finished configuration agrees with the patterns as   *)
(* they stand in the files: the last one that matches decides.             *)
THEOREM LastMatchIsRight == Spec => []LastMatchWins
<1>1. IInv => LastMatchWins
  BY AllAreMerged, LastRuleDecides DEF IInv, TypeOK, IgnoreDecided, LastMatchWins
<1> QED
  BY <1>1, ResolutionInvariant, PTL
=============================================================================
