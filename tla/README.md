# TLA+ model of the C++ unwind and DSO lifecycle test suite

The repository is a test suite for stack unwinders: a driver that `dlopen`s a
library of exception-heavy C++ code, runs five exported suites in it, opens a
plugin with a sixth, closes both, and repeats.  Its answer is an exit code.  The
models here are about whether that answer can be trusted: that the driver
takes its command line at its word, reports and cleans up correctly on every
path and never hides a crash, that the suites' bookkeeping stays exact while
exceptions unwind through it and threads share it, that each suite's verdict
fails on a broken unwinder and succeeds on a sound one, and that a script's
success speaks of the sources it was started on.

Paths are relative to the repository root.

## 1. Inventory

| Component | State | Operations | Module |
|---|---|---|---|
| driver, `src/driver.cpp` | options, round number, two `dlopen` handles, first nonzero code, signal actions | `main`, `parseArgs`, `runOneRound`, `callSuite`, `signalHandler` | `Driver`, `Loader`, `Lifecycle`; `Options`; `CrashHandlers` |
| basic suite, `src/cfi_unwind_basic_cases.cpp` | `g_metrics`, the C++ stack, guards alive | `run_unwind_basic_suite`: 48 instances of one macro behind a table, a rethrow tower | `BasicSuite` |
| stress suite, `src/cfi_unwind_stress_cases.cpp` | `g_metrics` under a mutex, three `std::thread`s | `run_unwind_stress_suite`: tables, a virtual matrix, a template tower, on the caller and then on three workers | `StressSuite`, `StressThreads`, `TallyBoard` |
| deep suite, `src/cfi_unwind_deep_cases.cpp` | `g_metrics`, the stack, guards | `run_unwind_deep_suite`: recursion, node graph, containers | `DeepSuite` |
| cfi suite, `src/cfi_unwind_candidate_cases.cpp` | `g_metrics`, the stack, guards | `run_unwind_cfi_suite`: programs 1 to 10 | `CfiSuite` |
| cfi_ext suite, `src/cfi_unwind_extended_candidate_cases.cpp` | `g_metrics`, the stack, guards | `run_unwind_cfi_ext_suite`: programs 11 to 20 | `ExtSuite` |
| plugin suite, `src/cfi_unwind_plugin_cases.cpp` | `g_metrics`, the stack, guards, `GlobalUnloadProbe` | `run_unwind_plugin_suite`: 32 cases; a static destructor that captures during `dlclose` | `PluginSuite`, `Loader` |
| suite interface, `include/unwind_cfi_api.h` | `UnwindSuiteResult`, a copy of the counters | the signature of every suite | in `UnwindMachine` |
| scripts, `scripts/` | files in the output directory | `build`, `run`, `inspect`, `all`; two host scripts | `Scripts` (partly) |
| build, `CMakeLists.txt` | none | declarative | a member of `Builds` in `Loader` |

How they interact.  The scripts compile two libraries and the driver, run it and
see its exit code.  The driver calls a suite through `dlsym`; a suite keeps
everything it knows in globals of its library, sets them back at the start of
each call, and returns `finishResult`'s code.  The libraries share state only
through the dynamic loader: which of them stays mapped after its last `dlclose`
depends on what was loaded before.  A crash of any thread, the stress suite's
workers included, arrives in the driver's signal handler.

What is hard, and what correct means:

* **Driver.** Eleven ways out of a round, four of which close something by hand,
  and a repeat that relies on the previous round having left nothing behind.
  Correct: no handle leaks, the plugin is closed before the main library, the
  first failure is the exit code, a zero exit code means that every round was
  complete, a completed round has unloaded what it loaded.
* **Command line.** A loop that reads flags and values left to right, values that
  look like flags, numbers that are none or too large.  Correct: main runs with
  what the line as a whole asks for, refuses what is malformed, and never runs
  with a count below one.
* **Crashes.** A handler that resets itself on entry, in a process whose other
  threads go on until `_exit`.  Correct: no exit code of a process that crashed
  looks like a result, and the process ends.
* **Suites.** Functions leave on return, on a throw from below, and on a rethrow
  chosen by the data, with guards whose destructors capture and count while the
  stack is being unwound.  Correct: each guard is destroyed once, each raise is
  counted and caught once, nothing reaches `std::terminate`, the second line of
  `catch` clauses is not silently used, a call does not depend on the last one.
* **Verdicts.** Thresholds written by hand against work computed from seeds.
  Correct: a broken trace is always reported, a sound unwinder never is.
* **Stress.** Counters shared by three threads, read after the joins; a failing
  thread constructor.  Correct: no count is lost, the read follows all joins, the
  call ends.
* **Scripts.** Builds that fail half way or race with an edit, and a `run` that
  takes whatever is on disk.  Correct: success means that the driver passed on
  whole artifacts, and after `all` on none older than the sources it started from.

`PROJECT.json` lists each hazard at its line with the properties that cover it,
or why none does.

## 2. Modules

```
UnwindCode            statements a C++ function body is made of
  UnwindMachine       stack, try blocks, guards, unwinding, captures, counters
    SuiteClaims       what the calls of a suite say about its thresholds
    UnwindMachineProofs
                      what holds of every program
  SuiteVerdicts       finishResult of each suite
    BasicSuite CfiSuite ExtSuite DeepSuite PluginSuite StressSuite
                      the functions of each file as programs
      SuitePrograms   the six as parameters of UnwindMachine, by entry point
        Seeds         what the seeds of the cfi suites make of a call
          Contracts   what each function, try block and clause promises
            ContractProofs
                      what holds of every program that keeps its contracts
              SuiteProofs
                      the six suites keep them, and what follows
TallyBoard            what the shared counters promise to who reads them
StressThreads         the caller and three workers of the stress suite, the
                      mutex; refines TallyBoard
  StressThreadsProofs
Lifecycle             what README.md:10-53 promises of a run
Loader                dlopen, dlclose, STB_GNU_UNIQUE (external: libdl)
  Driver              main and runOneRound; refines Lifecycle
    DriverProofs
Options               parseArgs and parseInt, word by word
  OptionsProofs
CrashHandlers         installCrashHandlers and signalHandler under threads
  CrashHandlersProofs
Scripts               unwind_testsuite.py, build_host.sh, run_host.sh
  ScriptsProofs
MCSuites MCCfi MCStress MCThreads MCDriver MCOptions MCCrash MCScripts
                      instances for TLC
```

### UnwindMachine and the suites

A suite is sequential C++, and what is hard about it is the stack.  The machine
models exactly that: `stack` holds the open functions and try blocks, `live` the
guards constructed and not destroyed, and each scope remembers in `mark` how
many there were when it was entered.  Its actions are the statements a body can
execute (construct a guard, capture, count, call, enter a try block, throw,
`throw;`) and the ways a scope ends (a guard's destructor, return, an exception
passing through, a catch clause, `finishResult`).  Unwinding has the two phases
of the C++ ABI: when no scope takes the exception, or one that nothing may leave
(the function a `std::thread` runs) comes first on the way out, the process
terminates before any cleanup; otherwise scopes are left one by one, destructors
first.

The programs are parameters.  `Body(entry, fn, args, exc)` is the sequence of
statements of a function, block or catch clause of the suite that exports
`entry`; `Catches(entry, fn, type)` says which clause of a try block takes an
exception type, or `"none"` where it passes, or `"terminate"`;
`Verdict(entry, metrics, iterations, strict)` is `finishResult`.
`SuitePrograms` puts the six suites behind these names; every run of the machine
takes them from there, and so do the proofs.
`Suites` is a set of `Scenarios`: the exported function, its `kMaxTraceFrames`,
the arguments callers pass, the unwinders it may run on and a bound on the calls
in one process.  Each suite module translates one file that way: the operator
`RepeatedLeaf(n)` has the guard, captures and conditional throws of
`repeated_leaf_ID(n)` in their order.  The operands that decide control (seeds,
codes, indices) are computed as the code computes them; payload arithmetic on
`g_sink`, checksums and messages are left out, since no counter or branch depends
on them.

`metrics` is `g_metrics`: `captures`, `minDepth`, `shallow`, `own` (walks with a
frame in the library), `destructors`, and the `events` each suite counts itself.
`built` and `reports` are history variables.  The **unwinder** under test is
chosen at the start of a behaviour: it walks every frame, except that in one
capture of one call it may stop after `reach` frames, and `dladdr` may fail to
name the library.  `BaseFrames` is what lies below the exported function, and
depth counts the functions as written.  A build that inlines some has fewer
frames (a real `-O2` build of the basic suite reaches 7 where the model's minimum
is 8), so the model says when a trace is shallow relative to the boundary of
five, not what the exact depth of a particular build is.

The programs were compared with the real one: for the iterations tried (basic
and cfi 1, 2, 3; stress 5; ext, deep and plugin 1, 2, 20) the counters of the
model at the end of a call are those a GCC build of the suite prints (captures,
thrown, caught, rethrows, destructors).

### StressSuite, StressThreads and TallyBoard

The stress suite is modelled twice, once for what its functions do and once for
how its threads meet.

`StressSuite` is the file as a program for `UnwindMachine`: tables, virtual
matrix, template tower, the long body, and the workers' rounds.  The machine has
one stack, so the three workers are three calls in a row, and their rounds count
on the caller's stack.  An exception still ends with its thread: `threadWorker`
is a scope that answers `"terminate"`, so what gets past the clauses in its loop
ends the process there and never reaches the clauses of the caller.  But a walk
in a worker is deeper here than on the worker's own thread, whose frames below
`threadWorker` are the thread's: in a build of the suite the shallowest walk of a
whole call is 5, exactly on the boundary, where the model has more.

`StressThreads` justifies the sequence.  It keeps of a worker only the captures
of a round and `countThreadRound`, and has what the sequence leaves out: the
caller that constructs, joins and reports; a constructor that throws, which
either reaches `catch (...)` with no worker running or destroys joinable threads
and terminates; the mutex; each `++` as a read into `reg` and a write; and
`min_depth` and `shallow_traces` as separate assignments.  `at[w]` is the place
of worker `w`; `captured`, `shallowed` and `completed` are history variables,
what each thread has recorded.  The remaining counters are single increments
under the same `lock_guard`, like `countThreadRound`.

`TallyBoard` is the abstract specification: one step records a walk or a round,
one step publishes the counters as the result, and nothing is recorded after it.
`StressThreads` implements it under a mapping that shows the board as `metrics`
when the lock is free and, while a worker is inside a capture, with the
assignments it has not made yet: a walk is recorded when its first counter is
written.

### Driver, Loader, Lifecycle

`pc` is the place in `main` and `runOneRound`; `held` the handles the driver has
not passed to `dlclose`; `passed` the suites that returned 0 in this round; `rc`
the first failure, then the exit code.  Every outcome of `dlopen`, `dlclose`,
`dlsym` and of each suite is a disjunct, and `Crash` ends the process with
`128 + signal` at any point after the handlers are installed.  `parseArgs` is
one step here, over its three outcomes (go on, `2`, `0` for `--help`); the clamp
of `dlclose_rounds` is `Rounds`.

`Loader` counts references and static destructors.  The first mapped library
that defines an `STB_GNU_UNIQUE` symbol is pinned for the rest of the process
(`_dl_lookup` marks it `NODELETE`); `unique`, chosen from the constant `Builds`,
says which libraries of this build define one.

`Lifecycle` is the abstract specification: a run completes the requested cycles,
each of them load, five suites, plugin load, plugin suite, plugin unload, main
unload; or it fails, and then only closes what it has open.

### Options

`line` is `argv`, `position` the loop's `i`, `options` the structure, `outcome`
what `main` does next.  One action per branch of the loop: four flags that take
the next word whatever it says, three that take none, help, the usage errors and
the clamps behind the loop.  A word is a member of a small set, and what `strtol`
makes of it is the constant `Numeral`, defined where it reads the whole word
without `ERANGE`; `Narrow` is `static_cast<int>`, modulo the width of `int`.

Against it stands a definition of what a line asks for when it is read as a whole
and not left to right: `ReadAsFlag` decides by parity of the value flags in front
of a word whether it is a flag or a value, and `Asked` takes the last usable value
of each kind.

### CrashHandlers

`action` is the process's disposition of each signal, `at[t]` the place of thread
`t`, `signal[t]` what its handler was called with, `messages` the texts written.
`main` installs, starts workers, joins and returns; any thread may raise any
signal, or run out of stack.  The kernel's part is external: `SA_RESETHAND` sets
the action back on entry, there is no alternate stack (no `SA_ONSTACK`), so a
handler that needs the overrun stack cannot be called, and `_exit` or an
unhandled signal ends all threads.  `raised` and `overrun` are history variables.

### Scripts

`disk` holds of each artifact the version of the sources it was compiled from,
`Absent`, or `Truncated`; `version` is the working tree, which may be edited at
any time, also between two compilations of one build.  `call` is the command,
`step` its place; `run_cmd`'s check and `set -e` are `Leave`.  A compiler fails or
is interrupted and leaves the old file, none or part of one; the driver returns
anything, but 0 only with both libraries; `SystemExit(-11)` becomes 245 and bash's
139.  `asked`, `tested`, `result` and `complete` are history variables.

## 3. Runs

| Run | Instance | What it shows |
|---|---|---|
| `suites` | basic, deep and plugin, see below | RAII and exception accounting at every step of the unwinding, both measures of depth agree, the verdict is exact in both directions, calls repeat, backstop clauses are unused, every call returns |
| `cfi` | cfi with 1, 2, 3, 6 iterations on five unwinders, cfi_ext with 1, 2, 3 on two | every exception is taken by the clause written for it; each round does the same cleanup work (170 and 176 destructors); a sound unwinder passes exactly up to two iterations; the catch ladder uses one rung |
| `stress` | 1 to 6 and 8 iterations, four unwinders | a cut walk never passes; a sound unwinder fails for 3, 4 and 5 iterations and passes for 1, 2, 6, 8; every throw is caught although rethrows are overcounted; the call returns, and no worker lets an exception out of its thread |
| `threads` | iterations -1 (clamped), 3, 5, one capture per round, walks of 4 or 6 frames | every interleaving of the caller and three workers: exact counters, complete report, no worker outlives the call, the call ends, refinement of `TallyBoard` |
| `driver` | rounds 0, 2, 3, with and without plugin, all four sets of libraries with a unique symbol | handles, nesting, unloading, exit code, termination, refinement of `Lifecycle` |
| `options` | every line of up to four of 13 words, `int` of twelve bits | the loop does what the line as a whole asks for, judges it, and keeps counts positive |
| `crash` | `main` and three workers; SIGILL, SIGABRT, SIGSEGV, and SIGBUS unhandled | a crash is never hidden behind a result, is silent only on a race or a stack overflow, and ends the process |
| `scripts` | any commands, three versions of the sources, driver codes 0, 24, -11 | what exit status 0 vouches for, and what a build that went through leaves |
| `cfi_documented` | cfi, 3 iterations, sound unwinder | violation: the cfi suite reports failure (finding 1) |
| `driver_pinned` | both libraries with a unique symbol, as GCC builds them | violation: the main library is never unloaded (finding 2) |
| `stress_documented` | stress, 5 iterations, sound unwinder | violation: the stress suite reports failure (finding 3) |
| `options_narrowed` | as `options` | violation: a large number of rounds is not the number run (finding 4) |

The suites whose thresholds hold share the run `suites`: basic with 0 (clamped)
and 2 iterations, nine unwinders, two calls; deep with 1 and 20 iterations, four
unwinders; plugin with -1, 1 and 4 iterations, ten unwinders, two calls.  Deep
matters because nothing may leave its exported function, which has no try block,
though exceptions cut recursion and graph short; plugin because each of its paths
makes 96 captures per iteration.

**Bounds.** `calls` (in one process) is 2 where a property relates two calls and
1 elsewhere: a call starts from `ResetMetrics`, so a third has the same
possibilities as the second.  Iterations are chosen around what they change: the
clamp, both sides of a threshold, and enough rounds for each throw condition to
occur (48 cases with `n % 32`, `n % 64` in basic; `n % 97`, `n % 31`, `n % 29` in
deep, all of which have occurred by iteration 20; `n % 13` in plugin; for stress
both sides of the gap of `PassesButThreeToFive` and the defaults 6 and 8).
The threads run one and two rounds each (`5 div 2`), with one capture: a second
round meets the counters another worker has left, and a third adds nothing that
the place of a worker and its register do not already have.  Unwinders
fail at the first capture, in a capture made while an exception unwinds, and at
the last, since the verdict cannot tell other positions apart.  Three rounds of
the driver are two repeats of the state at the head of a round.  Four words are
a flag, its value, and another pair that contradicts it, or a run of value flags
that take each other; with `IntMax = 2047` the number 4099 narrows to 3 and 2050
to -2046, as 4294967299 and 2147483650 do in 32 bits.  Three versions are an edit
before a build and one during it.  The proofs cover every number of rounds,
words, threads and edits.  `CHECK_DEADLOCK FALSE` is set except for `scripts`: the
processes exit, and nothing obliges a caller to call a suite again, whereas a new
command can always be given.

**Mutants.** Each property has a variant of one definition of the code model
with a plausible bug (a missing reset, a clause for the wrong type, a frame
without a landing pad, a handle closed twice, an uncounted rethrow, a loop that
goes on after a failure, a handler that returns, an unchecked exit status) under
which TLC finds it violated; a property checked of several suites or paths has
several.  They stand in front of the definition they vary and no specification
uses them.

**Fairness.** `UnwindMachine`: weak fairness of the statements and scope exits
together: the one thread that runs a suite is scheduled, and none of these steps
can wait for anything.  There is none on `BeginCall`.  `Driver`: weak fairness
of `Progress`, every action but `Crash`; the driver is one thread, `dlopen` and
`dlclose` return, and a suite returns, which `CallReturns` shows for four of
them.  `StressThreads`: weak fairness of the caller and of each worker, that is,
of every `std::thread` the operating system runs.  It is not assumed of the mutex
that it is fair: a worker can be passed over only as often as the others have
rounds left.  A crash is possible anywhere and never needed for termination.
`CrashHandlers`: weak fairness of each thread's `Handler`, a thread in the handler
being scheduled and its `write` to standard error returning; none of the rest of
the program, since a suite on a broken unwinder may hang.  `Options` and `Scripts`
assume none.  A hang inside the unwinder under test is outside the model, and so
is what `Terminates` says about it.

### Findings

1. **The cfi suite fails on a sound unwinder from three iterations on**
   (`src/cfi_unwind_candidate_cases.cpp:711`).  It runs `iterations + 2` rounds
   of 170 destructors and requires 260 per iteration, so `170 (i + 2) < 260 i`
   from `i = 4`; at 3, five rounds throw 28 exceptions where 36 are required
   (code 42).  The driver's
   default is 6, the scripts' 6 (`scripts/run_host.sh:6`) and 8
   (`scripts/unwind_testsuite.py:294`), and `README.md:166` counts success of
   every suite among the criteria.  The extended suite has the same shape: at 3 it
   makes 880 destructors of the 900 required (code 53).  `PassesUpToTwo` is checked
   of both, and proved for every count.
2. **The main library is not unloaded between rounds.**  `std::to_string`
   (`src/cfi_unwind_deep_cases.cpp:153`) instantiates a digit table that GCC
   emits as `STB_GNU_UNIQUE`; neither `CMakeLists.txt:15-27` nor the script has
   `-fno-gnu-unique`.  The first library to define it, the main one, stays
   mapped after `dlclose`, contrary to `README.md:10`.  A GCC build confirmed it.
   The plugin (`src/cfi_unwind_plugin_cases.cpp:129` defines the same symbol)
   comes second, binds to the main library's table and is unloaded, so the
   probe still runs: `ProbeEveryRound` holds because of the load order, and has
   that as its hypothesis.
3. **The stress suite fails on a sound unwinder for three, four and five
   iterations** (`src/cfi_unwind_stress_cases.cpp:540-548`).  A `VectorError` with
   an odd code leaves `runVirtualMatrix` (line 359) and ends the iteration, so
   iterations differ in what they contribute while the thresholds ask the same of
   each: at 5 the suite throws 19 exceptions and requires 20.  From six on, the
   later seeds make up for it; a build of the suite fails at 3 (22), 4 (21) and
   5 (21) and at no other count up to 60.  `README.md:152` invites larger values
   and `README.md:166` expects success of every suite; the defaults, 6 and 8, pass.
4. **A count beyond `int` is neither refused nor honoured**
   (`src/driver.cpp:62`).  `parseInt` checks `errno`, but `strtol` has the range
   of `long` and the result is then narrowed: `--dlclose-rounds 4294967299` runs
   3 rounds and `3000000000` a single one, where `README.md:126` says "number of
   repeated load/unload rounds".  That main never runs with a count below one
   survives it (`CountsPositive`).

A smaller observation, not a contradiction of anything written: the rethrow
levels of the catch ladder (`src/cfi_unwind_extended_candidate_cases.cpp:512`)
and the clause of `program17` never run, since level 1 takes every exception.
`LadderRungs` states it.

## 4. Proofs

`UnwindMachineProofs` is about the machine for **every** program (`Body`,
`Catches`, `Verdict` stay uninterpreted), every unwinder and number of calls,
under `MachineAssumption` alone.

* `TypeCorrect`, `GuardsAreBalanced`, `ShallowCountsAgree`.  `GuardsBalanced` is
  not inductive: that a returning call has no live guard left needs `StackInv`
  (marks start at 0 in the exported function and grow towards the innermost
  scope, so a clean outermost scope means that no guard is alive), and that
  unwinding never pops the last scope needs `ClauseWaits` (while an exception is
  in flight, a scope that takes it is still on the stack and none above it stops
  it).  `IInv` is their conjunction; there is one lemma per action, and stack
  lemmas (`PushOrdered`, `BelowStack`, `AdvancedStack`) that the actions share.
* A consequence worth noting: the suites' RAII accounting is exact whatever the
  bodies do, so a destructor count that does not fit is the unwinder's.

* `NeverPassesFalsely`: no call whose unwinder cut a walk below five frames, or
  never named the library under strict, returns 0, whatever program it ran.  Its
  hypothesis is `VerdictJudgesTraces`, that `finishResult` ends in the checks of
  depth and library frames, and its invariant `TraceInv`, that the metrics of the
  running call and of every report show each fault met so far (`CaptureShows`: a
  later capture hides none).
* `CallsAreRepeatable`: two calls with the same number of iterations report the
  same captures, destructors and events, in whatever order the process made them.
  `Repeatable` relates the ends of two executions, so its invariant has to say
  how a report came about.  `Core` is the part of the state that control reads,
  `After` the next core as a function of the core alone, and `CoreSteps` shows
  that every step of a call is `After`.  `LeadsTo` says that a core is in every
  set that holds the first one and is closed under `After`; the invariant
  `CallsReplay` has the running call and every report on such a way, and
  `LeadsTo` reaches at most one final core.

`Contracts`, `ContractProofs` and `SuiteProofs` are about the six suites, for
every number of iterations and calls and on every unwinder.  For most of it what a
suite's seeds make it throw need not be computed: each function is summarised by
what holds on **every** path through it.

* `Contracts` gives, for each function, try block and catch clause: the exception
  types it is entered with (`Enters`), those in flight while it is innermost
  (`Raises`), hence those that leave it (`Leaks`), and how much it adds to the
  accounts of its suite (`Work`): guards, completed programs, captures outside
  destructors, exceptions thrown, and exceptions thrown less caught.  `Keeps` says
  that a scope honours this: each statement enters and raises only what it may,
  and there is a *plan*, an amount left to add before each statement, that falls
  by what the statement adds and that agrees, where an exception can leave the
  statement, with what the clause that takes it will add.
* `ContractProofs`, for every program that keeps such contracts (`Contracted`):
  `OrderInv` (every open scope is one its caller may enter, and everything in
  flight is expected by every scope down to a clause that takes it, so the
  process never terminates) and `LedgerInv` (for each account: what the call is to
  add in all is what the counters show, plus what the open scopes have left, plus
  what the exception in flight settles).  The sum over the open scopes is a
  function on the stack's positions, since a stack is not bounded.  The rest of
  the module proves `Keeps` from the shape of a body: a case that may throw, a
  line of one call, a loop, a list of programs, a clause.
* `SuiteProofs` shows `Disciplined` for each suite, one case per function, and
  `RunsSuites => Contracted`.  Recursions (`ExtRecursor`, `Recursor`) need no
  induction: their contract mentions the level, and each level keeps it by its
  own body.  From the two invariants follow
  `NothingEscapes` (no call ends in `std::terminate`, not in a worker either),
  `ExceptionsAreAccounted`
  (each raise is counted once and caught once, at every moment; the stress suite is
  left out, whose `runVirtualMatrix` counts rethrows before it decides on them),
  `EveryThrowIsCaught` (of all six, the form that survives that), `BasicBackstopNeverRuns`,
  `RoundBackstopNeverRuns`, `OneRungInUse` (clauses that are never entered),
  `EveryRoundAlike` (170 or 176 destructors and ten programs in each of the
  `n + 2` rounds, for every `n`), and its consequence `OutgrownAlwaysFails`: no
  unwinder at all passes the cfi suite from four iterations on or the extended
  one from three (finding 1, for every `n`).
* `SoundCallsPassUpToTwo` is the exact statement: on a sound unwinder the two cfi
  suites return 0 for one and two iterations and for no other count.  One and two
  pass, and three fails in the cfi suite, because of how often the seeds of
  particular rounds throw, which no statement over all paths says.  `Seeds` makes a
  function of it: `CfiHits` and `ExtHits` say of a scope and its arguments whether
  it throws, and `SeededWork` sums that, or the captures a case makes on every path,
  over the cases of a program, the programs of a round and the rounds of a call.
  Three accounts of `Contracts` have these sums for their `Work`: `hits` are the
  exceptions of the cfi suite exactly; `throws` and `walks` are lower bounds, of the
  exceptions of the extended suite and of the captures outside destructors, which
  is all that a threshold asks for.  `Keeps` is proved of them like of the
  others, the plan of a sweep being the sum of the cases still to come.
  `LedgerInv` then ties the counters at the end of a call to `SeededWork` of its
  arguments, and what is left is to evaluate that for one, two and three
  iterations: `FourMore` and `Totals` take a sum over a table apart, a lemma per
  program (`LinearAmount`, `WideAmount`, ...) gives its amounts as a function of its
  seed, and the values in the nineteen rounds of those calls follow by arithmetic.
  For larger counts the destructors decide, as in `OutgrownAlwaysFails`.
* `SuitesNeverPassFalsely` discharges `VerdictJudgesTraces` for the six
  `finishResult` functions.  `BasicAndPluginNeverAlarm` is the other direction for
  the two suites whose thresholds are met with certainty: a call that was walked
  whole returns 0, for every `n`.  It adds `WholeInv`, that without a fault every
  trace has five frames and reaches the library.

Hypotheses: `RunsSuites` (the machine's programs and verdicts are those of
`SuitePrograms`, and its events include the four counters), which the configurations
`MCSuites`, `MCCfi` and `MCStress` satisfy by their substitutions; the suites a
theorem is about, where it is not all six; and for `BasicAndPluginNeverAlarm` and
`SoundCallsPassUpToTwo` `RoomForTraces`: at least three frames below the exported function (`main`, what
calls it, what calls the suite) and a trace buffer of at least five, where the
code has 96 and 160.  Counters are unbounded in the model, so "every number of iterations"
means those whose counters fit an `int`.  Both invariants and the tables of
`Contracts` were checked with TLC on the instances of these configurations before they
were proved.

`DriverProofs` is for every set of requests and builds, any number of rounds,
under `RequestsAssumption` and `LoaderAssumption`.

* `IInv` says, for each `pc`, what is held, refused, failed and passed, and that
  `refs` is one exactly for what is held or was refused.  From it:
  `HandlesAreReturned`, `PluginIsNested`, `FirstFailureIsReported`.
* `ProbeRunsEveryRound` adds `ProbeInv`: unless the plugin alone defines a unique
  symbol it is never the pinned library, and its teardowns are the completed
  rounds, plus one between its `dlclose` and the end of the round.
  `MainIsUnloaded` is the same for a main library that defines none, also under
  a plugin that is pinned itself.
* `DriverImplementsLifecycle`: initial states map to initial states, each driver
  step to a lifecycle step or a stutter; `RefinesStep` has one case per action.

`StressThreadsProofs` is for every set of iterations, captures per round and
depths of walks, under `ThreadsAssumption`.

* `IInv` is `TypeOK` with six parts.  `LockInv`: a worker is in a critical
  section exactly while it owns the mutex, hence alone.  `WorkInv`: the register
  of that worker still holds the counter it read, and rounds done plus rounds
  left are the rounds given.  `CountInv`: the counters are the sums of what was
  recorded; between the two assignments of a shallow walk, minimum and count
  differ by that walk only.  `CallerInv`: which workers exist at each place of
  the caller.  `ResetInv`, `ReportInv`: nothing is recorded before the reset,
  and the report is the counters from then on.
* `UpdatesAreKept` is `CountInv` read with a free lock; `ReportIsComplete` needs
  `RoundsSuffice`, `3 * max(1, i div 2) >= i`; `CallOutlivesWorkers` is
  `CallerInv` at the end of the call.
* `ThreadsImplementBoard`: a worker's step maps to a recorded walk or round when
  it stores its first counter, and to a stutter everywhere else, which is where
  mutual exclusion is needed: `reg` plus one is the board's next value only
  because nobody else has written.  `WalkInv` adds that the walk in hand is one of
  `Depths` and that the board starts blank.

`OptionsProofs` is for every set of command lines of any length, any `Numeral`
and any `IntMax` from 64 up, under `OptionsAssumption`.  `LineIsHonoured`,
`LineIsJudged` and `CountsArePositive` come from an invariant that says: the
loop's position is one at which the line, read by parity, has a flag; nothing
malformed and no help lies behind it; and what has been taken so far is `Asked` of
the words behind it.  The lemmas say how `Heads`, `Choice`, `Count` and
`PluginWanted` grow when a flag and its value join those words.

`CrashHandlersProofs` is for every set of workers, unhandled signals and codes,
under `CrashAssumption`.  `CrashIsReported` and `SilenceIsARace` rest on an
invariant of the running process: a signal that was raised is in the hands of
exactly one thread in the handler (`RaisedInv`, `HandlerInv`), its action is
`default` exactly then (`ActionInv`), and behind the join no worker is left that
could be in the handler (`JoinInv`).

`ScriptsProofs` is for every number of edits and any driver codes, under
`ScriptsAssumption`.  `ZeroVouches` and `BuildIsWhole` rest on `BuildInv` (what the
steps behind a running build have compiled is at least as new as the sources it
was started on) and `RunInv` (past its run step a command has seen the driver
return 0 on whole artifacts).

Only model-checked:

* `Terminates`, `CallReturns`, `CallEnds` and `CrashEnds`: liveness.
* `PassesButThreeToFive` of the stress suite: unlike the cfi suites it passes for
  arbitrarily large counts, so a proof has to bound what `n` iterations throw below
  by `4 n` for every `n` from six on.  Which iterations an odd `VectorError` cuts
  short depends on seeds of several periods at once, and a bound on such a sum for
  every `n` is an induction over data.
* `NoFalseAlarm` of the deep suite, for the same reason: an iteration that an early
  throw cuts short falls below its share of the thresholds, and that few of any `n`
  do is a sum over seeds.
* `MainUnloadedEveryRound`, `RoundsAsAsked` and the other properties of the
  violation runs, which the code violates.

## 5. Not modelled

* `siblingPluginPath`, the path of the plugin when none is given: text only.
* The flags the scripts assemble a command line from, and
  `build_qemu_arm64.sh`, `run_qemu_arm64.sh`, `inspect_binaries.sh`, which wrap
  the same commands.  Two scripts over one output directory at once: each is
  written to be alone.
* `CMakeLists.txt`: declarative; the one option that matters is in `Builds`.
* `iterations * 48 * 4` at `src/cfi_unwind_basic_cases.cpp:329` overflows `int`
  from eleven million iterations on, each of at least 48 unwinds: beyond any run.
* Data races: the code has none on the counters (`g_sink` is atomic), so a read
  and a write outside the mutex occur only in a mutant.
* What `dladdr`, `_Unwind_Backtrace` and `__register_frame` do inside: they are
  the thing under test, and enter as the unwinder's choices.
* Values carried by payloads, checksums, messages, verbose output, `printf`.
* `-O2` effects on frames (inlining, tail calls) and PAC/BTI instructions: only
  visible as walk depth, see `BaseFrames` above.

## 6. Plan

Done: `Driver` with `Loader` and `Lifecycle`; `UnwindMachine` and the six suites;
`StressThreads` and its abstract board; `Options`; `CrashHandlers`; `Scripts`; the
proofs above.

Left, in order of what matters:

1. `PassesButThreeToFive` and `NoFalseAlarm` of the deep suite for bounded counts:
   seed accounts as in `Seeds`, with a case that is cut short by what it throws.
2. Worker rounds with the bodies of `StressSuite`, a stack per thread, so that the
   depths of walks on a worker's own stack are modelled and not given.
3. The driver over the suites' verdicts: the exit code of a whole run as a
   function of the unwinder, with `Verdict` in place of `FailureCodes`.
