----------------------------- MODULE Resolution -----------------------------
(***************************************************************************)
(* What runLint resolves before it touches the daemon: the tsconfig that   *)
(* governs the target (FindNearestTsconfig), the directory the cascade     *)
(* starts from, and the configuration (ResolveCascade).                    *)
(*                                                                         *)
(* Only one chain of directories matters, from the file system's root,     *)
(* level 0, to the deepest target.  One rule stands for all, which are     *)
(* merged alike.  Options and maxDiagnostics are abstracted to the level   *)
(* of the file they come from, a glob to how many directories below its    *)
(* base it matches.                                                        *)
(***************************************************************************)
EXTENDS Integers, Sequences

CONSTANTS
    Depth,          \* the deepest level
    Configs,        \* what there can be at .jetlintrc.json
    Invocations     \* the command lines

Levels == 0..Depth
NoLevel == -1       \* no --project, no options, the built-in maxDiagnostics

(* "dir/" also stands for ".": filepath.Dir leaves both where they are.    *)
TargetKinds == {"file", "dir", "dir/", "none"}

Severities == {"off", "error", "warning"}
Patterns == [negate : BOOLEAN, depths : SUBSET Levels]

ASSUME DepthAssumption == Depth \in Nat
ASSUME ConfigsAssumption ==
    Configs \subseteq
        [kind : {"absent", "unreadable", "broken", "valid"},
         rule : Severities \cup {"none"}, options : BOOLEAN,   \* the rule's entry, if any
         max : BOOLEAN, ignore : Seq(Patterns)]
ASSUME InvocationsAssumption ==
    /\ Invocations \subseteq
           [project : Levels \cup {NoLevel}, kind : TargetKinds, level : Levels]
    /\ \A v \in Invocations : v.project = NoLevel => v.kind # "none"

VARIABLES
    config,         \* the file at each level
    tsconfigs,      \* the levels that have a tsconfig.json
    invocation,     \* --project and the first target
    default,        \* the rule's built-in severity
    phase,          \* where runLint is
    dir,            \* the directory a walk has reached
    tsconfig,       \* the level FindNearestTsconfig returned
    stack,          \* configuration files found, outermost first
    next,           \* the next of them to merge
    severity,       \* resolved.Rules
    options,        \* resolved.RuleOptions
    max,            \* resolved.MaxDiagnostics
    ignore,         \* resolved.IgnorePatterns
    sources         \* resolved.Sources

input == <<config, tsconfigs, invocation, default>>
resolved == <<severity, options, max, ignore, sources>>
vars == <<input, phase, dir, tsconfig, stack, next, resolved>>

-----------------------------------------------------------------------------
(* Where the cascade starts, for the tsconfig at level t: filepath.Dir of  *)
(* the target, whatever the target is.                                     *)
CascadeStart(t) ==
    CASE invocation.kind = "none" -> t
      [] invocation.kind = "dir"  -> IF invocation.level = 0 THEN 0 ELSE invocation.level - 1
      [] OTHER -> invocation.level

Seed == IF invocation.project # NoLevel THEN invocation.project ELSE invocation.level

Init ==
    /\ config \in [Levels -> Configs]
    /\ tsconfigs \in SUBSET Levels
    /\ invocation \in Invocations
    /\ default \in {"error", "off"}
    /\ phase = "discover"
    /\ dir = Seed
    /\ tsconfig = NoLevel
    /\ stack = <<>>
    /\ next = 1
    /\ severity = default
    /\ options = NoLevel
    /\ max = NoLevel
    /\ ignore = <<>>
    /\ sources = <<>>

-----------------------------------------------------------------------------
(* FindNearestTsconfig.                                                    *)

Ascend ==
    /\ phase = "discover"
    /\ dir \notin tsconfigs
    /\ dir > 0
    /\ dir' = dir - 1
    /\ UNCHANGED <<input, phase, tsconfig, stack, next, resolved>>

NoTsconfig ==
    /\ phase = "discover"
    /\ tsconfigs \cap 0..dir = {}
    /\ dir = 0
    /\ phase' = "failed"
    /\ UNCHANGED <<input, dir, tsconfig, stack, next, resolved>>

FoundTsconfig ==
    /\ phase = "discover"
    /\ dir \in tsconfigs
    /\ tsconfig' = dir
    /\ dir' = CascadeStart(dir)
    /\ phase' = "collect"
    /\ UNCHANGED <<input, stack, next, resolved>>

-----------------------------------------------------------------------------
(* ResolveCascade: upward to collect, then downward to merge.              *)

Collect ==
    /\ phase = "collect"
    /\ config[dir].kind # "unreadable"
    /\ stack' = IF config[dir].kind = "absent" THEN stack ELSE <<dir>> \o stack
    /\ IF dir = 0 THEN phase' = "merge" /\ UNCHANGED dir
                  ELSE dir' = dir - 1 /\ UNCHANGED phase
    /\ UNCHANGED <<input, tsconfig, next, resolved>>

StatFails ==
    /\ phase = "collect"
    /\ config[dir].kind = "unreadable"
    /\ phase' = "failed"
    /\ UNCHANGED <<input, dir, tsconfig, stack, next, resolved>>

(* Negations are anchored at the outermost configuration file.             *)
Anchored(pattern, level) ==
    [base |-> IF pattern.negate THEN stack[1] ELSE level,
     negate |-> pattern.negate, depths |-> pattern.depths]

(* Mutant: an entry without options leaves those of the parent.            *)
MergeRuleKeepingOptions(c, l) ==
    CASE c.rule = "none" -> UNCHANGED <<severity, options>>
      [] c.rule = "off"  -> severity' = "off" /\ options' = NoLevel
      [] OTHER -> severity' = c.rule /\ options' = IF c.options THEN l ELSE options

(* mergeFileInto for the file at level l.                                  *)
MergeRule(c, l) ==
    CASE c.rule = "none" -> UNCHANGED <<severity, options>>
      [] c.rule = "off"  -> severity' = "off" /\ options' = NoLevel
      [] OTHER -> severity' = c.rule /\ options' = IF c.options THEN l ELSE NoLevel

Merge ==
    /\ phase = "merge"
    /\ next \in DOMAIN stack
    /\ LET l == stack[next]
           c == config[l]
       IN  /\ c.kind = "valid"
           /\ MergeRule(c, l)
           /\ max' = IF c.max THEN l ELSE max
           /\ ignore' = ignore \o [i \in DOMAIN c.ignore |-> Anchored(c.ignore[i], l)]
           /\ sources' = Append(sources, l)
    /\ next' = next + 1
    /\ UNCHANGED <<input, phase, dir, tsconfig, stack>>

(* Mutant: a file that does not load is passed over.                       *)
LoadFailsSilently ==
    /\ phase = "merge"
    /\ next \in DOMAIN stack
    /\ config[stack[next]].kind # "valid"
    /\ next' = next + 1
    /\ UNCHANGED <<input, phase, dir, tsconfig, stack, resolved>>

(* LoadFile returns an error: bad JSON, an unknown key or rule, a bad      *)
(* severity, a negative maxDiagnostics.                                    *)
LoadFails ==
    /\ phase = "merge"
    /\ next \in DOMAIN stack
    /\ config[stack[next]].kind # "valid"
    /\ phase' = "failed"
    /\ UNCHANGED <<input, dir, tsconfig, stack, next, resolved>>

Finish ==
    /\ phase = "merge"
    /\ next > Len(stack)
    /\ phase' = "done"
    /\ UNCHANGED <<input, dir, tsconfig, stack, next, resolved>>

Next ==
    \/ Ascend \/ NoTsconfig \/ FoundTsconfig
    \/ Collect \/ StatFails \/ Merge \/ LoadFails \/ Finish

Spec == Init /\ [][Next]_vars

-----------------------------------------------------------------------------
(* IgnoreMatcher.Matches, for a file at level l: every rule that matches   *)
(* overrides what the earlier ones said.                                   *)
Applies(r, l) == l >= r.base /\ l - r.base \in r.depths

(* Mutant: the first rule that matches decides.                            *)
MatchesFirst(l) ==
    \E i \in DOMAIN ignore :
        /\ Applies(ignore[i], l) /\ ~ignore[i].negate
        /\ \A j \in 1..i - 1 : ~Applies(ignore[j], l)

Matches(l) ==
    LET ignored[n \in 0..Len(ignore)] ==
            IF n = 0 THEN FALSE
            ELSE IF Applies(ignore[n], l) THEN ~ignore[n].negate ELSE ignored[n - 1]
    IN  ignored[Len(ignore)]

-----------------------------------------------------------------------------
(* The levels of the cascade that have a file, and those of them whose     *)
(* file has a given opinion; which of these is the innermost.              *)
Start == CascadeStart(tsconfig)
Present == {l \in 0..Start : config[l].kind # "absent"}
RuleIn(S) == {l \in S : config[l].rule # "none"}
MaxIn(S) == {l \in S : config[l].max}
Innermost(l, S) == l \in S /\ \A k \in S : k <= l

(* What the files at the levels S make of the rule and of maxDiagnostics.  *)
RuleDecided(S) ==
    /\ RuleIn(S) = {} => severity = default /\ options = NoLevel
    /\ \A l \in RuleIn(S) : Innermost(l, RuleIn(S)) =>
          /\ severity = config[l].rule
          /\ options = IF config[l].options /\ config[l].rule # "off" THEN l ELSE NoLevel
MaxDecided(S) ==
    /\ MaxIn(S) = {} => max = NoLevel
    /\ \A l \in MaxIn(S) : Innermost(l, MaxIn(S)) => max = l

(* config.go:246-254: the deepest file that mentions the rule decides both *)
(* its severity and its options, and the deepest that mentions             *)
(* maxDiagnostics decides that; without a mention the defaults stay.       *)
InnermostMentionWins == phase = "done" => RuleDecided(Present) /\ MaxDecided(Present)

(* configuration.feature:40-51: a file of the cascade that cannot be read, *)
(* parsed or validated ends the run, and nothing but that and a missing    *)
(* tsconfig does.                                                          *)
Bad == \E l \in 0..Start : config[l].kind \in {"unreadable", "broken"}
BadConfigEndsTheRun ==
    /\ phase = "done" => ~Bad
    /\ phase = "failed" => tsconfig = NoLevel \/ Bad

(* The outermost file of the cascade, and whether pattern i of the file at *)
(* level l matches a source file at level f.                               *)
Outermost == CHOOSE l \in Present : \A k \in Present : l <= k
Hits(l, i, f) ==
    LET p == config[l].ignore[i]
        base == IF p.negate THEN Outermost ELSE l
    IN  f >= base /\ f - base \in p.depths

(* Some pattern of the files at the levels S matches, and no negation, of  *)
(* the same file further down or of a file further in, matches after it.   *)
IgnoredBy(S, f) ==
    \E l \in S : \E i \in DOMAIN config[l].ignore :
        /\ ~config[l].ignore[i].negate
        /\ Hits(l, i, f)
        /\ \A k \in S : \A j \in DOMAIN config[k].ignore :
              config[k].ignore[j].negate /\ (k > l \/ (k = l /\ j > i)) => ~Hits(k, j, f)

(* config.go:124-127: the last matching rule wins, outer files before      *)
(* inner ones, whatever the directory a pattern is anchored at.            *)
LastMatchWins == phase = "done" => \A f \in Levels : Matches(f) <=> IgnoredBy(Present, f)

-----------------------------------------------------------------------------
(* Why these hold: what is true at every step of the two walks.            *)

Rules == [base : Levels, negate : BOOLEAN, depths : SUBSET Levels]

TypeOK ==
    /\ config \in [Levels -> Configs]
    /\ tsconfigs \in SUBSET Levels
    /\ invocation \in Invocations
    /\ phase \in {"discover", "collect", "merge", "failed", "done"}
    /\ dir \in Levels
    /\ tsconfig \in Levels \cup {NoLevel}
    /\ stack \in Seq(Levels)
    /\ next \in Nat
    /\ ignore \in Seq(Rules)

(* The stack holds the levels from lo inwards that have a file, in order,  *)
(* and every one of these could be read.                                   *)
Collected(lo) ==
    /\ \A i, j \in DOMAIN stack : i < j => stack[i] < stack[j]
    /\ \A l \in Levels :
          (\E i \in DOMAIN stack : stack[i] = l) <=> l >= lo /\ l <= Start /\ config[l].kind # "absent"
    /\ \A l \in lo..Start : config[l].kind # "unreadable"

(* How far the walk has come; a run that failed had a reason.              *)
WalkInOrder ==
    /\ phase = "discover" => stack = <<>> /\ tsconfig = NoLevel
    /\ phase \in {"collect", "merge", "done"} => tsconfig \in Levels
    /\ phase = "collect" => dir <= Start /\ Collected(dir + 1)
    /\ phase \in {"merge", "done"} => Collected(0)
    /\ phase = "failed" => tsconfig = NoLevel \/ Bad

(* The files merged so far have loaded, and what is resolved is what they  *)
(* say.                                                                    *)
Merged == {stack[i] : i \in 1..next - 1}
MergedInOrder ==
    /\ next \in 1..Len(stack) + 1
    /\ phase \in {"discover", "collect"} => next = 1
    /\ phase = "done" => next = Len(stack) + 1
    /\ \A l \in Merged : config[l].kind = "valid"

(* The last of the rules s that matches a file at level f ignores it, said *)
(* without a loop.                                                         *)
LastIgnores(s, f) ==
    \E n \in 1..Len(s) :
        /\ Applies(s[n], f) /\ ~s[n].negate
        /\ \A m \in n + 1..Len(s) : Applies(s[m], f) => ~s[m].negate

IgnoreDecided(S) == \A f \in Levels : LastIgnores(ignore, f) <=> IgnoredBy(S, f)

IInv ==
    /\ TypeOK
    /\ WalkInOrder
    /\ MergedInOrder
    /\ RuleDecided(Merged)
    /\ MaxDecided(Merged)
    /\ IgnoreDecided(Merged)

-----------------------------------------------------------------------------
(* README.md:68: ".jetlintrc.json at the project root", the directory of   *)
(* the tsconfig.json found for the target, is the configuration that       *)
(* applies.                                                                *)
ProjectConfigIsRead ==
    phase = "done" /\ invocation.project = NoLevel /\ config[tsconfig].kind = "valid" =>
        \E i \in DOMAIN sources : sources[i] = tsconfig
=============================================================================
