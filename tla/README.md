# A verification project for jetlint

jetlint is a type-aware linter for TypeScript, written in Go. A CLI process finds the `tsconfig.json`
and the configuration that govern its target, makes sure that a daemon for that project runs, loads the
TypeScript program, walks it with some four hundred rules, and renders what they report. This directory
holds TLA+ models of the processes, walks and merges around the linter and of its 58 largest and most
intricate rules, the TLC configurations that check them on small instances, and proofs about eleven of the
modules for every instance.

Paths below are relative to the repository's root. TLC runs are `tlc -config <cfg> <MC module>`; proofs
are `tlapm <module>Proofs.tla`.

## The system

### Components, their state and their operations

| Component | Source | State | Operations | Model |
|---|---|---|---|---|
| Daemon election and lifecycle | `internal/daemon/spawn*.go`, `client.go`, `cli.go:620-665` | socket path, flock, PID file (all shared by processes); each CLI's place in `EnsureRunning`; each daemon's life | `EnsureRunning`, `reachable`, `Ping`, `Send`, start-up, cleanup | `DaemonElection` |
| Daemon server | `internal/daemon/server.go` | listener, `closed`, `lastRequest`, `connCh`, `errCh`, `idleCh`, the goroutines | `NewServer`, `Run`, accept loop, `watchIdle`, `handle`, `Close`, `cleanup` | `DaemonServer`, `ServerRole` |
| Lint engine and CLI run | `internal/cli/cli.go:571-794`, `internal/engine` | diagnostics, error count, `stopped`, exit code | `runLint`, `Engine.Lint`, `dispatchSafely`, `filterIgnoredDiagnostics`, formatting | `LintRun` |
| Project discovery | `internal/project/discovery.go` | the directory the walk has reached | `FindNearestTsconfig` | `Resolution` |
| Configuration cascade | `internal/config/config.go`, `cli.go:598-617` | the stack of files, `ResolvedConfig` | `ResolveCascade`, `LoadFile`, `mergeFileInto`, `IgnoreMatcher` | `Resolution` |
| Rule no-import-cycles | `internal/rules/noimportcycles` | the edges, `reachable`'s stack and `seen` | `visit`, `buildEdges`, `reachable` | `ImportCycles` |
| Flow analyses | `internal/astflow` | none, recursive functions | `FunctionBodyReturnStatus`, `ConstructorSuperCallStatus` | `FlowPaths`, `FlowAnalyses` |
| The rules (372) | `internal/rules/*` | none between handler calls | a handler per node kind, called by the engine | 57 of them, in the 21 modules of *The rules* below |
| Wire protocol, transport paths, argument parsing, formatters, tool errors, registry, `modresolve`, the other rules, fixture tools, packaging | see `PROJECT.json` | none | pure functions, tables, I/O | not modelled |

### How they interact

```
 CLI process                                             daemon process
 runLint: seed -> FindNearestTsconfig -> ResolveCascade
   -> socket path (hash of the tsconfig's path)
   -> EnsureRunning --flock, PID file, exec-----------> NewServer (bind, listen)
   -> Ping ---------socket---------------------------->  accept goroutine -> Run -> handle
   -> (once more when the Ping fails)                    watchIdle -> Run -> cleanup
   -> LoadProgram -> Engine.Lint (rules) -> filter -> format -> exit code
```

CLI processes share nothing but the file system: the socket path, the PID file and the flock on it. The
daemon answers pings and refuses everything else; linting happens in the CLI process itself
(`cli.go:633-665`).

### What is hard about it

* **Election.** Any number of CLI processes start at once; probes, the flock, the removal of a stale
  socket, the exec and the PID file are separate system calls, and processes may die between any two.
  It is correct if at most one daemon lives, if nobody removes a served socket, if the PID file ends up
  naming the survivor, and if every CLI process comes to an end.
* **The server's shutdown.** Four goroutines and three channels end for five reasons (cancel, idle, Close,
  failing Accept, exit) in any order. It is correct if no connection falls between two goroutines, if no
  goroutine stays behind, and if a shutdown the server wanted is not reported as a failure.
* **The cap.** `--max-diagnostics` stops the walk early; panics, ignored files, severities and truncated
  output all come between a rule's report and the exit code. It is correct if the verdict is the one the
  uncapped run would give.
* **Two walks up the directory tree** that have to agree where the project is, and a merge in which the
  innermost file wins field by field.
* **Graph search** in no-import-cycles, where a cycle that does not contain the importing file must
  neither trap the search nor be reported.
* **Abstract interpretation** of fall-through, break, try and finally in `astflow`, and in the private
  copies that no-fallthrough, no-unreachable and no-this-before-super keep of it.
* **Judging a program by its tree.** A rule sees one node, its ancestors and what the checker says of its
  types, and claims something about every execution: this condition never fails, this promise is lost,
  this dependency is missing. Each claim is a case analysis over dozens of forms that meet each other:
  parentheses, casts, chains, defaults, patterns, unions, type parameters, options. It is correct if what is
  reported is so, and what is not reported is not so, for every combination, where the tests show some.

`PROJECT.json` lists each of these as hazards at the line where it bites, with the properties that
would catch it.

## The models

### DaemonElection

One record of place per client (`pc`, `attempt`, `peer`, `stage`) and per daemon (`dpc`), and the shared
`path`, `lock`, `pidfile`. `path` names the daemon whose socket inode is at the socket path, so removing
and re-binding it are visible; a daemon that still listens on an unlinked inode is told apart from one
that is reachable. Actions follow the system calls: `Dial`, `ReadAnswer`, `ConnectionLost`, `TimeOut` are
the probe (`reachable`, `Ping`), `Acquire`, `Clear`, `Spawn`, `Record`, `GiveUp`, `Abort` are
`EnsureRunning` in its order, `ClearPath`, `Bind`, `Listen` are `NewServer`, and `CloseUnlinks`,
`CloseDescriptor`, `RemoveAndExit` are the deferred cleanup: Go's `UnixListener.Close` unlinks the path
before it closes, and `os.Remove` then removes the path again. `happened` is a history of the kinds of
trouble a behaviour has had, so that each property can say what it withstands. The set of daemons needs no
bound: one call of `EnsureRunning` executes at most one, and a client calls it at most twice. `Dead` are the
daemons that crashed, by which `Survives` says what a client at each place still gets by with.

### DaemonServer and ServerRole

`DaemonServer` has the goroutines of one server: `acceptor` with the connection it `held`, `run` with the
one it `picked`, `watcher`, and `closer` for a call of `Close`. Unbuffered channel sends are joint steps.
Time is only the age that `watchIdle` compares. `errCh` and `cause` carry which of the two errors Accept
returned, the closed listener's or one of its own; the code does not look at it, the property
`CleanShutdown` does. `ServerRole` is what the clients are promised: a connection is queued, handled and
answered, and may be lost only if it was not picked up before the listener closed, or not answered before
the process ended. `ImplementsRole` is the refinement, with the mapping `SeenAs`: a connection `held` between the goroutines is
still queued to the role, and a pong and a refusal are both answers.

### LintRun

`runLint` from its first tooling step to the exit code. The program is abstracted to the handler calls its
walk makes: in which file, for which rule, how many diagnostics it reports, and whether it panics after
that. `Advance` and `ToolFailure` are the steps that may end in exit code 2; `Call`, `EndLint` are
`Engine.Lint` with the cap; `Filter`, `Degrade`, `Format`, `FormatFails` follow in the code's order. Filtering
and the formatters' stable sort are both `InOrder`, an arrangement of some positions of a sequence by a strict
order. `Findings` and `Found` say what the first n calls find from the program alone, without the loop, and the
properties compare what is collected, judged and printed with that, diagnostic by diagnostic.

### Resolution

One chain of directories, from the root to the target. `Ascend`, `FoundTsconfig`, `NoTsconfig` are
`FindNearestTsconfig`; `Collect` and `StatFails` the upward walk of `ResolveCascade`; `Merge` and
`LoadFails` its merge, outermost file first, one file per step; `Matches` is `IgnoreMatcher.Matches`. One
rule stands for all; options and `maxDiagnostics` are represented by the level of the file they come from.
A glob is the set of depths below its base at which it matches, which is what anchoring it elsewhere
changes.

### ImportCycles

The statements of every file (`target`, `typeOnly`), the walk of `visit` over them, and `reachable` step
by step with its stack and `seen`. What `ForEachChild` does with a callback's result is external
(`CallbackResult`). `Reaches` says reachability without a search: every closed set of files that holds the
one holds the other.

### FlowPaths, FlowAnalyses, FlowRules

`FlowPaths` is a small statement language, as trees of kinds and children in the order in which
`ForEachChild` visits them, with its meaning: the set of paths through a tree, each with how it leaves,
how often it called `super`, and whether it used `this` before. `FlowAnalyses` translates the
two analyses operator by operator; `FlowRules` adds the seven rules about a body's flow and states how what
they report relates to the paths. `pathState.cleanExitExists` is left out: nothing reads it.

### The rules

The engine calls a rule's handler with a node and the handler reports; it keeps nothing between two calls
(where a rule collects over a file, the file is the node). `RuleVisit` is that step: `Start` puts the walk at
one of a set of nodes, `Dispatch` runs the handler to its end. Each module below says, as a function of the
node, what the handlers of its rules report, function by function of `rule.go`; beside it stands, without
regard to the rule's code, what the program around the node does: its paths, its values, its bindings, its
renders. The properties compare the two. A node is an abstract tree with the fields the rule reads: kinds,
which of a few names, what type; texts, positions and messages are left out. What the checker answers
is part of the node, or of the small type systems in `TsTypes`, `Assertions`, `AnyFlow` and `VoidReturns`.

| Module | Rules | Compared with | Part of the property |
|---|---|---|---|
| `FlowRules` | getter-return, array-callback-return, constructor-super, no-fallthrough, no-unreachable, no-this-before-super, consistent-return | the paths through the body | `ControlFlowIsJudgedByPaths` |
| `ConstantExpressions` | no-constant-condition, no-constant-binary-expression | the values an expression can have (`JsValues`) | `ConstantsAreConstant` |
| `ScopeRules` | no-use-before-define, no-undef, no-import-assign, no-function-assign, no-inner-declarations, no-redeclare, no-unused-vars | JavaScript's scopes and the time a use is evaluated | `NamesMeanTheirBindings` |
| `NamingConvention` | naming-convention | names taken apart into words, and the documentation of selectors, modifiers and formats | `NamesAreResolved` |
| `VueComponents` | no-vue-duplicate-keys, no-vue-reserved-keys, no-vue-reserved-props | the members Vue makes of a component's sections, of what its functions return and of the types of its props | `NamesAreResolved` |
| `Hooks` | use-exhaustive-dependencies, use-hook-at-top-level | what React compares between two renders, and how often a call runs in one | `HooksRunAsReactExpects` |
| `NumberLiterals` | no-loss-of-precision, no-constant-math-min-max-clamp | the number a literal denotes, rounded to the significand | `NumbersAreAsWritten` |
| `Loops` | for-direction, no-unmodified-loop-condition | running the loop over small numbers, and what its body assigns | `WrittenCodeHasEffect` |
| `AssignedValues` | no-self-assign, no-unsafe-optional-chaining, no-useless-default-assignment | which place gets which value, how far the undefined of a chain gets | `WrittenCodeHasEffect` |
| `UnnecessaryCondition`, `TestedValues` | no-unnecessary-condition, strict-boolean-expressions, prefer-nullish-coalescing | the values of a type | `TestsAreAsTheirTypes` |
| `Operands` | no-base-to-string, restrict-template-expressions, restrict-plus-operands, no-unsafe-enum-comparison, switch-exhaustiveness-check | what the values of a type convert to, add up to, or match | `TestsAreAsTheirTypes` |
| `Promises` | no-floating-promises, await-thenable, no-misused-promises | who waits for a promise, and whose rejection is seen | `PromisesAreLookedAfter` |
| `AsyncFunctions` | return-await, require-await, no-promise-executor-return, prefer-promise-reject-errors | which steps run before a promise settles | `PromisesSettleAsExpected` |
| `VoidReturns` | strict-void-return | the values a callback loses | `ResultsAreNotLost` |
| `Assertions` | no-unnecessary-type-assertion | whether the place accepts, and infers the same from, the expression without it | `AssertionsAreNeeded` |
| `AnyFlow` | no-unsafe-assignment, -return, -argument, -member-access | where an any goes, slot by slot | `AnyIsNotLost` |
| `StringSearch` | prefer-string-starts-ends-with, prefer-includes | evaluating the comparison for every short string | `SearchesMeanWhatTheySay` |
| `TypeParameters` | no-unnecessary-type-parameters | the places in which T stands | `DeclarationsAreHonoured` |
| `Deprecated` | no-deprecated | the declaration and the overload a name uses | `DeprecatedUsesAreFound` |
| `ClassMembers` | prefer-readonly, no-unused-private-class-members, unbound-method | every write of a field, every use of a private name, the `this` a method meets | `DeclarationsAreHonoured` |

A property is as strong as the code allows. Where a rule is wrong or incomplete on some nodes, the exception
stands as an operator or a disjunct of its own in the property, with a comment ("Known: ...") that says what the
rule misses; each was introduced for a counterexample TLC found, and what is left of the property holds of every other node. `MCRules`
and `MCTypeRules` enumerate the nodes. Most of these modules use recursive operators and are for TLC only; six do
not, and are proved about (below): `Hooks`, `ScopeRules`, `Assertions`, `AsyncFunctions`, `VoidReturns` and `Deprecated`. Each of the
six says with a predicate which nodes a program can contain (`IsDependencyCall`, `IsPlacedCall`, `IsScopeNode`, `IsAssertion`, `IsReturn`,
`IsFunctionBody`, `IsNewPromise`, `IsRejection`, `IsVoidPlace`, `IsUse`); the runs' initial states are restricted to them, and none is
lost by that.

## The runs

| Run | Bounds | What it shows |
|---|---|---|
| `election` | 2 clients, up to 4 daemons, every two of the five kinds of trouble | the inductive invariant `IInv`; `OneLiveDaemon`, `StartupUnderLock`, `SocketKept`, `PidFileNamesTheDaemon`; undisturbed clients all succeed at the first attempt; no client that found a daemon reachable is turned away for one crash; every CLI process ends |
| `shutdown_race` | 2 clients, idle shutdowns | refutes `ShutdownRaceIsServed` |
| `server` | 2 connections (a ping and a client that may stay silent for ever), cancel, Close, failing Accept, with and without idle timeout | one holder per connection, at most one stranded, clean shutdowns, the refinement of `ServerRole`, that `Run` returns when it is idle or closed, that its goroutines end, and that a queued connection is served |
| `lint_safety` | 2 files, 2 rules, up to 2 handler calls with 2 reports each, caps to 2 | panics lose nothing, the walk stops at the cap, the verdict survives it, machine formats are complete |
| `cap_hides_errors` | 1 rule, cap 1 | refutes `CapOnlySavesWork` |
| `resolution` | 3 levels, 20 kinds of file per level, 6 command lines | the innermost mention wins, a bad file ends the run, the last matching ignore rule wins |
| `project_config` | 3 levels | refutes `ProjectConfigIsRead` |
| `import_cycles` | every program of 3 files with up to 2 statements | reports are cycles, no looked-at cycle is cleared |
| `first_statement` | 2 files, 2 statements | refutes `EveryCycleIsReported` |
| `braced_break` | getters: every compound statement around every simple one, switches with one compound statement inside | refutes `AlwaysExplicitIsAlways` |
| `syntax_rules` | one million nodes of 29 rules; numbers with an 8-bit significand and 10-bit words | the seven properties above of the rules that read the tree |
| `type_rules` | two million nodes of 28 rules; types of some forty members and their unions | the nine properties above of the rules that ask the checker |

Why the bounds are enough. *Election:* the lock serialises spawners, so the hazards are between a spawner,
one other client and the daemons of either; with two clients of two attempts, a client meets a daemon that
is its own, the other's, an earlier one's, starting, serving, leaving or dead; for more clients there are
the proofs. *Server:* the goroutines hold at most two connections between them, and two is where a second one waits
while the first is in hand. *LintRun:* a call that jumps over the cap, one that panics after it reported,
one in an ignored file before one in a visible file, and truncation all fit in two calls with two reports
and a cap of two. *Resolution:* three levels have an outermost, a middle and an innermost file, and both
walks meet the root. *ImportCycles:* three files have the cycle that passes by the importing file. *Flow rules:*
one level of nesting inside a switch is where break, return and fall-through meet. *Other rules:* a handler
looks at one construct and the forms just around it, so two or three forms around each other (a cast in
parentheses in a chain, an alias in an arrow in a constructor, two members in a union) are where its cases meet; where a rule
walks further, the walk is a recursion whose step these nodes take more than once. *Numbers:* the tests of
no-loss-of-precision compare bit positions with 53, 64 and 1023 only, and counts of digits with 15 and 100; with 8, 10, 13, 2
and 4 the same comparisons come out both ways for literals short enough to list.

Type invariants are not checked by runs of their own: that of the election is part of `IInv`, and those of the other
processes are proved.

`CHECK_DEADLOCK FALSE` stands in every configuration because each model describes something that ends: the
CLI processes finish, the server exits, a lint run has its exit code.

### Properties with a condition

The properties that hold say under which trouble, because the code withstands some and not others:

* `OneLiveDaemon` and `PidFileNamesTheDaemon` hold with `happened` inside `Withstood`:
  crashes and failing calls, but not killed CLI processes, expired waits and idle shutdowns.
  `StartupUnderLock` and `SocketKept` also withstand idle shutdowns.
* `SocketKept` is about the removals of the socket path in `EnsureRunning` and `NewServer`. It leaves out the
  steps of a daemon that shuts down (`CleansUp`): the removal in its cleanup can take a successor's socket, as `shutdown_race` shows.
* `OneCrashIsSurvived` is about the retry. A daemon that dies before the first poll of its spawner
  has reached it makes `EnsureRunning` fail, for which `runLint` has no second attempt: that run exits 2.
* `VerdictSurvivesTheCap` asks that no file is ignored or that the format is a machine's; the case left
  out is the finding `cap_hides_errors`.
* The soundness properties of `FlowRules` ask that a break stands directly in its clause, that there is no
  `do` loop, and that a finally block either runs to its end or never does; for super calls, also that none is in
  a try. Outside of these the analyses really are wrong (below).
* The properties of the rules leave out the nodes that a "Known" operator describes (below).

### Fairness

`DaemonElection`: weak fairness of every step a process can take by itself, and strong fairness of
`GiveUp`: the poll loop reads the clock in every round (`spawn.go:133-149`), so it does not go round for ever
although each probe disables the action for a moment. Nothing is assumed of kills, crashes or idle
shutdowns. `DaemonServer`: weak fairness of each goroutine (the Go scheduler) and of
time. A silent client need not go away: the server sets no deadline for it. Nobody has to connect, cancel or call `Close`, and Accept never has to fail by itself.

## What is proved

The theorems hold for every value of the constants; what they assume of them is in the `ASSUME`s of the
modules (bounds are natural numbers, sets of the right kind) and, where said, in the theorem. Each
invariant was first checked with TLC on a small instance. In every module the argument is the same: `IInv` holds at
first, a lemma for each of its parts shows that every step keeps it, action by action, and the
properties follow from it.

**DaemonElectionProofs**, for any set of clients and any set of faults. `TypeCorrect` needs no further
assumption; the others assume `HasFlock`, that is `spawn_unix.go`: `ElectionInvariant`, `ElectsOneDaemon`,
`StartupIsLocked`, `ServedSocketIsKept`, `PidFileIsRight`. `OneLiveDaemon` is not inductive: it says nothing
of a spawner that has passed its recheck. `IInv` adds what the code relies on without saying so: the lock is held exactly in the
critical section (`LockDiscipline`); a daemon that starts up is awaited by the lock holder
(`StartersAreAwaited`), so after the holder has cleared the path only its own child can bind there
(`PathIsTheSpawners`), and while it looks at the path no other daemon comes to serve there (`HolderSees`), which is why
`ServedSocketIsKept` needs no assumption about shutdowns; and, as long as no daemon shuts down, the recheck under the lock really tells the holder that no daemon lives
(`HolderKnows`), because a live daemon's socket is always at the path (`LiveSocketsAreNamed`).
`UndisturbedSucceed` and `CrashSurvived` say that nobody is turned away without a crash, and that `runLint`'s one
retry is enough when a daemon that a client had found reachable crashes before the Ping. They need `CrashesAreSurvived`: while crashes are the only
trouble, a client that found a daemon reachable can only lose it by a crash it has not yet
been through, so a first attempt withstands none and a second one withstands the one that cost it the
first (`Withstands`).

**DaemonServerProofs**, for any set of connections and any use of Cancel, Close and failing Accepts:
`ServerInvariant`, and from it `ConnectionsHaveOneHolder`, `FewAreStranded` and `ShutdownIsClean`. Two facts carry
them. A goroutine holds a connection exactly while it is about to pass it on (`HandOver`), which gives
the counts; and the listener is closed only by `Close`, after it has set the flag, or by a `Run` that selects
no more (`ClosedForAReason`), so the error this provokes in Accept is never the one `Run` returns.
`ServerImplementsRole` is the refinement of `ServerRole`, the initial state and each step: most steps stutter,
and the ones that lose a connection do so only when the role allows it.

**ResolutionProofs**, for directories of any depth and files of any content. `ResolutionInvariant`: how
far each walk has come (`WalkInOrder`, `MergedInOrder`), and that the severity, the options, `maxDiagnostics` and
the ignore rules resolved so far are what the files merged so far call for. A merge adds a file that lies further in than
all before, which gives `InnermostWins`. `BadConfigEnds` follows from what the walk has passed. For `LastMatchIsRight` the loop of
`IgnoreMatcher.Matches` is shown to give what the last matching rule says (`LastRuleDecides`), for any number
of rules, and concatenating two lists of rules to let the second decide where it matches.

**LintRunProofs**, for programs, files, rules and caps of any size. `LintInvariant` counts: while lint
walks, the diagnostics collected in any set are as many as the calls made have found in it
(`AllAreThere`), and `errorCount` is the number of those at error severity (`CapInv`); after the filter, as many as were found
outside the ignored files (`VisibleAreThere`), whatever the warning about the program's type errors adds. From
it: `PanicsAreContained`, `CapIsExact`, `VerdictIsKept` (a run that stopped early has found an error that counts)
and `MachineFormatsAreComplete`. The lemmas are about counting: what a call adds to both sides (`FindingsGrow`,
`CountConcat`), and that arranging a sequence by a strict total order is a permutation of it (`ArrangedKeepsAll`), because ranks
match positions one to one (`RanksMatch`).

**ImportCyclesProofs**, for any set of files and any program. `SearchInvariant` is the invariant of every
graph search: what is seen or on the stack is reachable, and what a seen file imports is seen or on the
stack. From it, `TypeCorrect`, `ReportsAreRight` (a report closes a cycle of imports the option leaves in) and
`ClearancesAreRight` (a statement looked at and not reported closes none).

**SyntaxRulesProofs**, for nodes of any size. `HooksAreExpected` is `HooksRunAsReactExpects` under `HooksSpec`, for every set
of calls that are `IsDependencyCall` and `IsPlacedCall`: entries with one path have one head, a component binds a name once, and
only a function expression has a second name. As in every theorem about rules the invariant only says that the reports are what the handler
finds at the node; the work is in what that is: a name reported as
missing is captured and may differ (`MissingNamesAreCaptured`), one that may differ is listed or reported
(`VaryingNamesAreListed`), of several equal entries the least alone is repeated (`OneOfSeveral`), and the
functions the second rule accepts and refuses are components and not (`AcceptedFunctionsAreComponents`,
`RefusedFunctionsAreNoComponents`).
`NamesAreJudged` is `NamesMeanTheirBindings` under `ScopeSpec`, for chains of functions and classes of any depth, any list of frames
and any list of declarations or items, as `IsScopeNode` describes them: only some frames have parameters, declarations or a name of
their own, and a parameter comes before what the body declares. Its lemmas
say that no-use-before-define's two ways of walking up a chain, by function and by class, find what lies between use and
declaration (`UsesBeforeDeclarations`, `SameBodiesHaveNothingBetween`); that a frame without any of the forms in
`Overlooked` binds a name just where the name-based walks look for it (`OverlookedFrames`, `ClearFrames`), and as a function just where they say so (`FramesDeclareFunctions`);
that no-redeclare's two passes (`TheTwoPasses`) report only what has an earlier declaration (`ReportedDeclarationsHaveAnEarlier`) and keep quiet about a second one
only next to a parameter or a pattern (`HiddenRedeclarations`); and that a name reported as unused is read by a default at most (`UnusedNamesAreJudged`).

**TypeRulesProofs**, for any types, paths and lists. `AssertionsAreJudged`: an assertion that is reported can go, because a
place that does not infer from it only checks assignability (`ContextsOnlyCheck`), and a `!` that is not reported and not excepted is needed
(`NonNullAssertionsAreJudged`). `ResultsAreJudged`: what strict-void-return reports loses a value, and what loses one is reported
but for the exceptions in `LostValuesAreReported`, since a function loses a value just when one of its signatures is not allowed (`LosingFunctionsAreNotAllowed`, `ReportedFunctionsLose`, `QuietFunctionsLoseNothing`,
`MethodsAreCompared`). `DeprecationsAreFound`: for every place a name can stand in, from a declaration's own name (`DeclarationSites`)
to the callee of a call that selects one overload (`CallsSelect`, `UnselectedUse`), reports and deprecated uses are the same
but for the named misreadings. `PromisesAreJudged`: the walk up from a return finds the innermost
function and the try statements inside it (`OwnersAreTheirOwn`, `InsideSteps`), so that it takes an error to be handled exactly where
something runs after the promise (`ErrorHandlingIsObserved`); the other three rules are judged function by function
(`BodiesAreJudged`, `ExecutorsAreJudged`, `RejectionsAreJudged`).

Only model-checked: all liveness, because fairness and `ENABLED` are out of the prover's reach, that is
`EveryClientFinishes` of the election and the server's `RunReturns`, `GoroutinesEnd` and `QueuedIsServed`; the flow analyses and the
rules whose recursion over trees is out of its reach (`ControlFlowIsJudgedByPaths`, `ConstantsAreConstant`, `NumbersAreAsWritten`, `WrittenCodeHasEffect`,
`TestsAreAsTheirTypes`, `PromisesAreLookedAfter`, `AnyIsNotLost`, `SearchesMeanWhatTheySay`, `DeclarationsAreHonoured`, and for the Vue rules `NamesAreResolved`);
and naming-convention, whose names are sequences taken apart by pattern. That a daemon of `DaemonElection` behaves as `ServerRole` says is not proved either. The one recursion that is proved about runs over numbers
(`IgnoreMatcher.Matches`); its induction argues by a least counterexample (`LeastElement`, `LoopsAgree`).

## Where the code and its documents disagree

Shown by a run:

1. `shutdown_race`. `cleanup` removes the socket path a second time after `listener.Close` has unlinked
   it (`server.go:122`). If a successor has bound the path in between, it loses its socket, and the client that
   spawned it polls in vain and exits 2. `features/daemon.feature:59-63` promises that such a request is served.
2. `cap_hides_errors`. Errors in ignored files count toward the cap and are filtered afterwards
   (`engine.go:108`, `cli.go:757`), so a run with a visible error can exit 0.
3. `project_config`. For a directory target the cascade starts in its parent (`cli.go:606`), while the
   tsconfig search starts in the directory itself.
4. `first_statement`. `visit`'s callback returns true, which ends `ForEachChild` after the file's first
   statement (`noimportcycles/rule.go:111`).
5. `braced_break`. `analyzeStatements` drops the flag that a braced case ended in a break
   (`return_status.go:214`), and the clause is taken to fall through.

Seen while modelling, in the models but without a run of their own:

* `features/daemon.feature:28` says that an idle daemon removes its PID file; `cleanup` removes the socket only.
* `features/daemon.feature:91` says that the lock holder publishes the socket before it releases the lock;
  when `SpawnWait` expires it releases the lock with the daemon still starting (`spawn.go:148`).
* `spawn_windows.go:10-16` says that the recheck alone preserves correctness without a lock. With
  `HasFlock = FALSE` two clients can both pass it and two daemons live.
* `SpawnConfig.withDefaults` runs `/proc/self/exe` (`spawn.go:168-169`), which exists on Linux only.
* `server.go:41-42` describes the idle timeout as a duration of inactivity; the watcher decides on a tick
  and Run acts on it later, so a request accepted in between does not stop the shutdown.
* `cli.go:430-431` gives exit code 0 as "No diagnostics produced"; a run with warnings only exits 0 too (`cli.go:790`).
* `README.md:86-88` says that ignore patterns resolve relative to their own file; negations are anchored at
  the outermost directory of the cascade. `features/configuration.feature:26-31` says that lists are
  replaced; `ignorePatterns` are appended. Its lines 3-4 and 33-39 describe a cascade per linted file; it is resolved once,
  from the first target.
* `cli.go:407-409`, the usage text, says that positional targets win over `--project`; the comment at
  `cli.go:572` says that an explicit `--project` wins, and so does the code.
* `astflow`: `if (c) break;` inside a clause is forgotten by both analyses; `while (x) break;` ends the
  statement list after it; a `do` loop's last child is its condition, so its body is never looked at; a conditional
  return in a finally block is not observed; two super calls before a throw are Multiple at the top level and
  nothing inside a branch; `while (x) { super(); break; }` is Multiple.


### The rules

What follows holds of the code as modelled, and is excluded from the properties by name. Where a comment or a document says
otherwise, it is quoted.

* **no-constant-binary-expression** takes a logical assignment, the sum with an object, `[] == false` and a bigint
  compared with a number for decided. **no-constant-condition** takes `a ?? b` for constant when both are, and a
  template with an empty text.
* **no-undef, no-function-assign, no-import-assign** resolve names by walking the tree and do not see names bound by
  patterns, nested `var`s, catch clauses or a function expression's own name. **no-redeclare** finds every second
  `var` or function but not what a symbol cannot join; **no-unused-vars** does not see reads in the defaults of patterns.
* **naming-convention**. The header (`rule.go:1-10`) says the first configuration in declaration order wins; the
  code takes the most specific selector level, then specificity. The comment at 611-615 gives a
  configuration whose filter matches priority over those without one; `specificity` counts a filter as one constraint among
  others, so that two modifiers outweigh it. A missing affix or underscore falls through to the
  next configuration; `types` asks for all listed types; "allowDouble" asks for exactly two underscores; a `#` hides
  affixes; snake case accepts doubled underscores. The command line never sets its options.
* **no-vue-duplicate-keys, no-vue-reserved-keys, no-vue-reserved-props** take the value of a property with a computed key
  for its name, and a getter and its setter for two members; the first two take what is passed to `createApp` after the
  component for one (the third does not, but counts a type argument). Of a function they read the first return of an object in the body
  itself; of a props type the first declaration of the name anywhere in the file, and neither heritage nor intersections. A script's overloads count
  as duplicates, its classes and imports as nothing; `const {} = a` declares `a`.
* **use-exhaustive-dependencies, use-hook-at-top-level** compare names without their scopes; a catch clause's name
  passes for a capture; `??=`, optional arguments, defaults, constructors and fields do not count as conditional.
* **no-loss-of-precision** reports every decimal literal with more than 100 significant digits, 0.5 followed by 100 zeros
  too (`rule.go:298`); takes short literals of subnormal numbers for exact; and beyond 64 bits lets a literal pass that ends with the
  digits of what the conversion makes of it.
* **for-direction, no-unmodified-loop-condition** do not see assignments in parentheses, by patterns or by a for-of
  head, nor what a method, a function in a variable or another operand of the condition does.
* **no-self-assign** takes every property of a name, though a later one, a computed one or a method overrides it; it does
  not compare computed keys and ignores that an earlier target of the pattern changes what is read.
* **no-unsafe-optional-chaining** misses a spread into a call, `yield*`, the comma, assignments' values and defaults of
  patterns; of the binary operators only `+` and `-` are arithmetic, of the assignments all are.
* **no-useless-default-assignment** takes the variable's name for a key that is a number or computed; reports slots
  of a type parameter and a tuple's rest; misses `void 0`, unions of tuples, loops and later signatures.
* **no-unnecessary-condition** takes values of type `{}`, `T & {}`, an indexed access, a string pattern and an
  enumeration's member for truthy. **prefer-nullish-coalescing** takes a ternary's branch, the left of a comma and
  a minus for tests; **strict-boolean-expressions** takes a ternary's branch for its test.
* **no-base-to-string** misses `+` without a string, `(x.toString)()`, `x["toString"]()`, and does not look into
  intersections and type parameters. **restrict-template-expressions** matches `allow` by name whatever its `from`. In
  **restrict-plus-operands**, `allowBoolean` only lets booleans be added to each other, and
  `allowNumberAndString` lets a bigint be added to a number, which throws.
* **no-unsafe-enum-comparison** tells enumerations apart by name, lets one shared enumeration be enough, never reports
  unions of several primitive kinds, and does not see enumerations behind type parameters or brands; in a `case` it
  lacks the exemption of booleans and bigints that `visit` has. **switch-exhaustiveness-check** matches cases by
  printed types (an enumeration's member and its value differ), unique symbols by name, and finds
  the default comment anywhere in the switch, in a nested one or a string too.
* **no-floating-promises, await-thenable, no-misused-promises** agree with who waits for a promise but for
  unions with a type parameter, and arguments that some overload takes.
* **return-await** does not see resources a for loop or a case declares and takes an accessor's return for the
  function's; **require-await** misses an await in a computed method name; **no-promise-executor-return** does not
  see an executor behind a type argument and resolves `Promise` by name;
  **prefer-promise-reject-errors** goes by the names `Promise`, `Error`, `reject`.
* **strict-void-return** lets a union with something else than a function pass, and identifiers in JSX, shorthand
  properties and parameters' defaults.
* **no-unnecessary-type-assertion** judges an argument of a generic or overloaded call by the chosen signature alone,
  reports an `e!` that `satisfies` needs, and an array literal that `as const` makes a tuple.
* **no-unsafe-assignment** and its siblings follow an any inside a type only when the expression spells it, through
  type arguments and not through tuples, properties or unions on the receiving side.
* **prefer-string-starts-ends-with** compares a first letter with a string of any length, ignores the flags of patterns,
  and takes a negative start of `substring` for one from the end.
* **no-unnecessary-type-parameters** (`rule.go:99-102`) counts T inside another type as more than one place, a method's own T as the
  class's, and a parameter property once.
* **no-deprecated** reports a bare reference when one overload is deprecated (its comment at 241-248 says
  all); `(f)()` and `o["f"]()` are no calls; the first deprecated declaration hides others; several forms of binding are missed.
* **prefer-readonly** never reports decorated or computed fields, counts `++` in the constructor as a later write,
  takes the `this` of plain functions and static methods for the instance, and misses other instances, loop heads and
  wrapped targets. For a static field it forgets an outer method's alias of `this` in an object's method
  (`rule.go:195`), and reports a field that is written there. **no-unused-private-class-members** never reports a getter with a setter, skips nested classes
  (its comment gives them a scope of their own), and takes a wrapped read for none. **unbound-method** takes
  `(o.m || f)()` for safe and reports `o.m;`, `o.m < p` and `case o.m`, which are harmless.

## Not modelled

The wire format (`protocol.go`: the server model keeps what can come out of reading a frame), the hash that
names the socket, the parsing of arguments, the bytes the formatters write, the rule registry and the
option decoders are pure functions or tables without control of their own. The other 314 rules are shorter pattern
matches over the tree, most of them one condition on one node; each would be
a function of its own. In the modelled rules, reading the options from JSON, the wording of reports and
rules' tables of names are left out. The TypeScript checker
is external. Windows' socket semantics are modelled only as far as the missing lock.

## Plan

Done, in this order: election (the one place where processes race), server, the lint run's verdict,
configuration, no-import-cycles and the flow analyses, then the rules from the largest on.

Next, modelling:

1. `modresolve` and `resolveImport`, to give `ImportCycles` its edges from specifiers instead of targets.
2. The rest of `runLint`'s inputs: argument parsing with its error exits, `--only`, `--project` and
   targets, composed with `Resolution` and `LintRun` into one CLI run.
3. `DaemonServer` composed with `DaemonElection`, to replace the election's daemon by the server's role.
4. The order and the truncation of the machine formats (`format/`), against `LintRun`'s rendering.
5. The next rules by size: prefer-readonly-parameter-types, no-obj-calls.

Done, proofs: the election's safety, no-import-cycles' search, the server's invariants and its refinement, the
resolution of the configuration, the lint run's counting, the election's promises to its clients, the rules on hooks, on
scopes, on asynchronous functions, no-unnecessary-type-assertion, strict-void-return and no-deprecated.

Next, proofs:

1. `DaemonElection`: each client's second attempt as a property of its own, and the recorded PID after crashes.
2. `ServerRole` as a part of the election, once the two are composed.
3. Rules over trees, once what they compute is stated by recursive functions over depth, as `LoopsAgree` does for lists.
