------------------------------- MODULE LintRun -------------------------------
(***************************************************************************)
(* One lint invocation: runLint's tooling steps, Engine.Lint with its      *)
(* error cap and its panic guard, the ignore filter, the degraded-mode     *)
(* warning, the formatter and the exit code.                               *)
(*                                                                         *)
(* The program is abstracted to the handler calls its walk makes, in walk  *)
(* order: which file the node is in, which rule's handler is called, how   *)
(* many diagnostics it reports and whether it panics after that.           *)
(***************************************************************************)
EXTENDS Integers, Sequences, FiniteSets, SequencesExt

CONSTANTS
    Files,        \* source files, numbered in path order
    Tsconfig,     \* where the tsconfig's path falls in that order
    Rules,        \* shipped rules
    MaxCalls,     \* bound: handler calls in the program
    MaxReports,   \* bound: diagnostics one call reports
    MaxCap        \* bound: values of --max-diagnostics and maxDiagnostics

ASSUME BoundsAssumption == {MaxCalls, MaxReports, MaxCap} \subseteq Nat
ASSUME FilesAssumption == Files \subseteq Nat /\ Tsconfig \in Nat \ Files

Severities == {"error", "warning", "off"}

(* A handler call that reports nothing and does not panic changes nothing. *)
Calls == {c \in [file : Files, rule : Rules, reports : 0..MaxReports, panics : BOOLEAN] :
            c.reports > 0 \/ c.panics}

(* The walk takes the files one after the other, in the program's order.   *)
Works == {w \in SeqOf(Calls, MaxCalls) :
            \A i, j, k \in DOMAIN w :
                i < j /\ j < k /\ w[i].file = w[k].file => w[j].file = w[i].file}

VARIABLES
    work,        \* the handler calls the program's nodes would cause
    severity,    \* the resolved configuration's severity of each rule
    only,        \* the rules named with --only
    ignored,     \* the files matched by ignorePatterns
    human,       \* the formatter is format.Human
    flag,        \* --max-diagnostics, -1 when not given
    max,         \* the resolved maxDiagnostics
    stage,       \* where runLint is
    next,        \* the next handler call
    diagnostics, \* collected so far
    errorCount,  \* Lint's count toward the cap
    stopped,     \* Lint's flag
    shown,       \* diagnostics rendered by the formatter
    exit         \* the exit code, -1 while running

input == <<work, severity, only, ignored, human, flag, max>>
vars == <<input, stage, next, diagnostics, errorCount, stopped, shown, exit>>

(* runLint up to the engine.                                               *)
Tooling == <<"seed", "tsconfig", "cascade", "paths", "daemon", "program", "only", "rules">>
Stages == Range(Tooling) \cup {"lint", "filter", "degrade", "format", "done"}

(* The elements of s at the positions K, in the order R.                   *)
Rank(i, K, R) == Cardinality({j \in K : <<j, i>> \in R})
InOrder(s, K, R) ==
    [n \in 1..Cardinality(K) |-> s[CHOOSE i \in K : Rank(i, K, R) = n - 1]]

AsTheyStand == {p \in Nat \X Nat : p[1] < p[2]}

-----------------------------------------------------------------------------
(* The effective configuration.                                            *)

(* --only keeps the named rules, and runs at error severity those that the *)
(* configuration switched off.                                             *)
EffectiveSeverity(r) ==
    CASE only = {} -> severity[r]
      [] only # {} /\ r \notin only -> "off"
      [] OTHER -> IF severity[r] = "off" THEN "error" ELSE severity[r]

(* New and the dispatch table leave out the rules without a severity.      *)
Dispatched(c) == EffectiveSeverity(c.rule) # "off"

MaxDiagnostics == IF flag >= 0 THEN flag ELSE max

(* Mutant: the cap also cuts the machine formats.                          *)
EngineCapAlways == MaxDiagnostics

(* The cap is for the human format only; 0 means no cap.                   *)
EngineCap == IF human THEN MaxDiagnostics ELSE 0

(* What one call appends: its reports, then dispatchSafely's warning.      *)
Report(c) ==
    [i \in 1..c.reports |-> [file |-> c.file, severity |-> EffectiveSeverity(c.rule)]]
Panic(c) ==
    IF c.panics THEN <<[file |-> c.file, severity |-> "warning"]>> ELSE <<>>

(* Mutant: a panic also drops what the handler had reported.               *)
OutcomeRolledBack(c) ==
    IF ~Dispatched(c) THEN <<>> ELSE IF c.panics THEN Panic(c) ELSE Report(c)

Outcome(c) == IF Dispatched(c) THEN Report(c) \o Panic(c) ELSE <<>>

ErrorsIn(d) == Cardinality({i \in DOMAIN d : d[i].severity = "error"})

-----------------------------------------------------------------------------
(* What the program and its configuration hold is fixed beforehand; runLint *)
(* learns it when it resolves the cascade and loads the program.           *)
Init ==
    /\ only \in SUBSET Rules
    /\ human \in BOOLEAN
    /\ flag \in -1..MaxCap
    /\ work = <<>>
    /\ severity = [r \in Rules |-> "error"]
    /\ ignored = {}
    /\ max = MaxCap
    /\ stage = "seed"
    /\ next = 1
    /\ diagnostics = <<>>
    /\ errorCount = 0
    /\ stopped = FALSE
    /\ shown = <<>>
    /\ exit = -1

(* A tooling step succeeds.                                                *)
Advance ==
    \E i \in DOMAIN Tooling :
        /\ stage = Tooling[i]
        /\ stage' = IF i < Len(Tooling) THEN Tooling[i + 1] ELSE "lint"
        /\ IF stage = "cascade"
             THEN /\ severity' \in [Rules -> Severities]
                  /\ ignored' \in SUBSET Files
                  /\ max' \in 0..MaxCap
             ELSE UNCHANGED <<severity, ignored, max>>
        /\ IF stage = "program" THEN work' \in Works ELSE UNCHANGED work
        /\ UNCHANGED <<only, human, flag, next, diagnostics, errorCount, stopped, shown, exit>>

(* A tooling step fails: no targets, no tsconfig, a broken configuration,  *)
(* no daemon, no program, an unknown --only rule, misplaced options.       *)
ToolFailure ==
    /\ stage \in Range(Tooling)
    /\ stage = "only" => only # {}
    /\ stage' = "done"
    /\ exit' = 2
    /\ UNCHANGED <<input, next, diagnostics, errorCount, stopped, shown>>

(* Mutant: the cap is tested one error too late.                          *)
CallStoppingLate ==
    /\ stage = "lint" /\ ~stopped /\ next <= Len(work)
    /\ diagnostics' = diagnostics \o Outcome(work[next])
    /\ errorCount' = errorCount + ErrorsIn(Outcome(work[next]))
    /\ stopped' = (EngineCap > 0 /\ errorCount' > EngineCap)
    /\ next' = next + 1
    /\ UNCHANGED <<input, stage, shown, exit>>

(* Lint calls the next handler, if it is dispatched, and looks at the cap. *)
Call ==
    /\ stage = "lint" /\ ~stopped /\ next <= Len(work)
    /\ diagnostics' = diagnostics \o Outcome(work[next])
    /\ errorCount' = errorCount + ErrorsIn(Outcome(work[next]))
    /\ stopped' = (EngineCap > 0 /\ errorCount' >= EngineCap)
    /\ next' = next + 1
    /\ UNCHANGED <<input, stage, shown, exit>>

EndLint ==
    /\ stage = "lint"
    /\ stopped \/ next > Len(work)
    /\ stage' = "filter"
    /\ UNCHANGED <<input, next, diagnostics, errorCount, stopped, shown, exit>>

(* filterIgnoredDiagnostics.                                               *)
Filter ==
    /\ stage = "filter"
    /\ diagnostics' = InOrder(diagnostics, {i \in DOMAIN diagnostics :
                                                diagnostics[i].file \notin ignored}, AsTheyStand)
    /\ stage' = "degrade"
    /\ UNCHANGED <<input, next, errorCount, stopped, shown, exit>>

(* The program may have type errors; then one warning comes first.         *)
Degrade ==
    /\ stage = "degrade"
    /\ \/ UNCHANGED diagnostics
       \/ diagnostics' = <<[file |-> Tsconfig, severity |-> "warning"]>> \o diagnostics
    /\ stage' = "format"
    /\ UNCHANGED <<input, next, errorCount, stopped, shown, exit>>

(* The formatter sorts, stably; the human one renders at most              *)
(* MaxDiagnostics.                                                         *)
ByFile(d) ==
    {p \in (DOMAIN d) \X (DOMAIN d) :
        d[p[1]].file < d[p[2]].file \/ (d[p[1]].file = d[p[2]].file /\ p[1] < p[2])}
Sorted(d) == InOrder(d, DOMAIN d, ByFile(d))

Rendered(d) ==
    IF human /\ MaxDiagnostics > 0 /\ Len(d) > MaxDiagnostics
      THEN SubSeq(Sorted(d), 1, MaxDiagnostics)
      ELSE Sorted(d)

(* Mutant: the exit code follows what was rendered.                        *)
FormatJudgingRendered ==
    /\ stage = "format"
    /\ shown' = Rendered(diagnostics)
    /\ exit' = IF ErrorsIn(shown') > 0 THEN 1 ELSE 0
    /\ stage' = "done"
    /\ UNCHANGED <<input, next, diagnostics, errorCount, stopped>>

Format ==
    /\ stage = "format"
    /\ shown' = Rendered(diagnostics)
    /\ exit' = IF ErrorsIn(diagnostics) > 0 THEN 1 ELSE 0
    /\ stage' = "done"
    /\ UNCHANGED <<input, next, diagnostics, errorCount, stopped>>

(* stdout fails somewhere in the middle.                                   *)
FormatFails ==
    /\ stage = "format"
    /\ exit' = 2
    /\ stage' = "done"
    /\ \E n \in 0..Len(Rendered(diagnostics)) :
          shown' = SubSeq(Rendered(diagnostics), 1, n)
    /\ UNCHANGED <<input, next, diagnostics, errorCount, stopped>>

Next == Advance \/ ToolFailure \/ Call \/ EndLint \/ Filter \/ Degrade \/ Format \/ FormatFails

Spec == Init /\ [][Next]_vars

-----------------------------------------------------------------------------
(* What the first n calls find, from the program alone: call i makes its   *)
(* k-th report or, after its last, panics.                                 *)
FoundBy(c) == IF Dispatched(c) THEN c.reports + (IF c.panics THEN 1 ELSE 0) ELSE 0
Findings(n) == {x \in (1..n) \X (1..MaxReports + 1) : x[2] <= FoundBy(work[x[1]])}
Found(x) ==
    LET c == work[x[1]]
    IN  [file |-> c.file,
         severity |-> IF x[2] <= c.reports THEN EffectiveSeverity(c.rule) ELSE "warning"]
Errors(n) == Cardinality({x \in Findings(n) : Found(x).severity = "error"})

Diagnostics == [file : Files, severity : {"error", "warning"}]
Occurrences(d, x) == Cardinality({i \in DOMAIN d : d[i] = x})

(* "Without this guard, one bad node would abort the entire invocation"    *)
(* (engine.go:121-122): up to the call the walk has reached, nothing a     *)
(* handler reported is missing or doubled, what a panicking one did        *)
(* included.                                                               *)
PanicsLoseNothing ==
    stage = "lint" =>
        \A x \in Diagnostics :
            Occurrences(diagnostics, x) = Cardinality({y \in Findings(next - 1) : Found(y) = x})

(* The walk stops after the first call that reaches the cap, never before, *)
(* never later, and neither warnings nor panics bring it closer.           *)
StopsAtTheCap ==
    stage = "lint" /\ EngineCap > 0 =>
        /\ stopped <=> Errors(next - 1) >= EngineCap
        /\ next > 1 => Errors(next - 2) < EngineCap

(* The run found an error in a file that is not ignored.                   *)
HasVisibleError ==
    \E c \in Range(work) :
        c.file \notin ignored /\ c.reports > 0 /\ EffectiveSeverity(c.rule) = "error"

Finished == stage = "done" /\ exit # 2

(* Neither the cap nor the truncated rendering changes the exit code, as   *)
(* long as no file is ignored or the format is a machine's.                *)
VerdictSurvivesTheCap ==
    Finished /\ (ignored = {} \/ ~human) => (exit = 1 <=> HasVisibleError)

(* cli.go:687-689: the machine formats render every finding outside the    *)
(* ignored files, whatever --max-diagnostics says.                         *)
MachineOutputIsComplete ==
    Finished /\ ~human =>
        \A x \in Diagnostics :
            Occurrences(shown, x) =
                IF x.file \in ignored THEN 0
                ELSE Cardinality({y \in Findings(Len(work)) : Found(y) = x})

-----------------------------------------------------------------------------
(* Why these hold: what is true at every stage, the diagnostics counted    *)
(* for every set S of them that one may ask about.                         *)

AllDiagnostics == [file : Files \cup {Tsconfig}, severity : {"error", "warning"}]
CountOf(d, S) == Cardinality({i \in DOMAIN d : d[i] \in S})

TypeOK ==
    /\ work \in Seq(Calls)
    /\ severity \in [Rules -> Severities]
    /\ ignored \subseteq Files
    /\ human \in BOOLEAN
    /\ flag \in -1..MaxCap
    /\ max \in 0..MaxCap
    /\ stage \in Stages
    /\ next \in 1..Len(work) + 1
    /\ diagnostics \in Seq(AllDiagnostics)
    /\ errorCount \in Nat
    /\ stopped \in BOOLEAN

(* The engine has returned and nothing failed.                             *)
Linted == stage \in {"filter", "degrade", "format"} \/ Finished

(* Tooling finds nothing; it may still change what there is to find.       *)
NothingYet ==
    stage \in Range(Tooling) =>
        /\ next = 1 /\ diagnostics = <<>> /\ errorCount = 0 /\ ~stopped
        /\ exit = -1

(* The errors that Lint counts, and where it stops.                        *)
CapInv ==
    /\ stage = "lint" \/ Linted =>
        /\ errorCount = Errors(next - 1)
        /\ stopped <=> EngineCap > 0 /\ errorCount >= EngineCap
        /\ next > 1 /\ EngineCap > 0 => Errors(next - 2) < EngineCap
    /\ Linted => stopped \/ next = Len(work) + 1

(* Until the filter every finding is there once; afterwards those in the   *)
(* files that are not ignored, and perhaps a warning about the tsconfig.   *)
AllAreThere ==
    stage \in {"lint", "filter"} =>
        \A S \in SUBSET AllDiagnostics :
            CountOf(diagnostics, S) = Cardinality({x \in Findings(next - 1) : Found(x) \in S})
VisibleAreThere ==
    stage \in {"degrade", "format"} \/ Finished =>
        \A S \in SUBSET (AllDiagnostics \ {[file |-> Tsconfig, severity |-> "warning"]}) :
            CountOf(diagnostics, S) =
                Cardinality({x \in Findings(next - 1) : Found(x) \in S /\ Found(x).file \notin ignored})

(* What was printed and what it was judged by.                             *)
Judged ==
    Finished =>
        /\ shown = Rendered(diagnostics)
        /\ exit = IF ErrorsIn(diagnostics) > 0 THEN 1 ELSE 0

IInv == TypeOK /\ NothingYet /\ CapInv /\ AllAreThere /\ VisibleAreThere /\ Judged

-----------------------------------------------------------------------------
(* engine.go:36-38: the cap only spares work "once the caller already      *)
(* knows it won't display more than N errors", and cli.go:432 says "1    *)
(* Lint diagnostics produced."                                             *)
CapOnlySavesWork == Finished /\ HasVisibleError => exit = 1
=============================================================================
