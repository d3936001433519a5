------------------------------- MODULE Driver -------------------------------
(***************************************************************************)
(* src/driver.cpp: main and runOneRound, from the parsed options to the    *)
(* exit code.  A suite is a call that returns a code of its finishResult   *)
(* or does not return because the process takes a fatal signal.            *)
(***************************************************************************)
EXTENDS Loader, Sequences

CONSTANT Requests \* what the command line asks for, before parseArgs clamps it

ASSUME RequestsAssumption == Requests \subseteq [rounds : Int, plugin : BOOLEAN]

\* suites[] of runOneRound.
Suites == << "basic", "stress", "deep", "cfi", "cfi_ext" >>

\* Nonzero codes of callSuite: dlsym failed, or finishResult of the suite.
FailureCodes(suite) ==
  {11} \cup CASE suite = "basic"   -> 2 .. 6
              [] suite = "stress"  -> 20 .. 25
              [] suite = "deep"    -> 30 .. 34
              [] suite = "cfi"     -> 40 .. 45
              [] suite = "cfi_ext" -> 50 .. 55
              [] suite = "plugin"  -> 40 .. 43

\* SIGILL, SIGABRT and SIGSEGV, for which installCrashHandlers ran first.
CrashSignals == {4, 6, 11}

VARIABLES
  request, \* the options
  pc,      \* where main and runOneRound are
  round,   \* the loop variable of main
  passed,  \* suites that returned 0 in this round, the plugin's included
  rc,      \* the first failure seen, then the exit code
  held     \* libraries whose handle the driver has not passed to dlclose

driverVars == << request, pc, round, passed, rc, held >>
vars == << driverVars, loaderVars >>

\* parseArgs: a dlclose_rounds that is not positive becomes 1.
Rounds == IF request.rounds <= 0 THEN 1 ELSE request.rounds

Init ==
  /\ request \in Requests
  /\ pc = "parse"
  /\ round = 0
  /\ passed = 0
  /\ rc = 0
  /\ held = {}
  /\ LoaderInit

Goto(label) == pc' = label

\* main returns, or the process calls exit or _exit.
Exit(code) == pc' = "exited" /\ rc' = code

(* ------------------------------- main --------------------------------- *)

ParseArgs ==
  /\ pc = "parse"
  /\ \/ Goto("loop") /\ UNCHANGED rc
     \/ Exit(2)   \* usage
     \/ Exit(0)   \* --help
  /\ UNCHANGED << request, round, passed, held, loaderVars >>

AllRoundsDone ==
  /\ pc = "loop"
  /\ round >= Rounds
  /\ Exit(0)
  /\ UNCHANGED << request, round, passed, held, loaderVars >>

(* ---------------------------- runOneRound ----------------------------- *)

OpenMain ==
  /\ pc = "loop"
  /\ round < Rounds
  /\ \/ /\ Open("main")
        /\ held' = {"main"}
        /\ Goto("suites")
        /\ UNCHANGED rc
     \/ /\ Exit(10)
        /\ UNCHANGED << held, loaderVars >>
  /\ UNCHANGED << request, round, passed >>

\* Mutants of RunSuite: the loop goes on after a suite that failed, or it calls the
\* suite again until it passes.
RunSuiteRegardless ==
  /\ pc = "suites"
  /\ passed < Len(Suites)
  /\ rc' \in {0} \cup FailureCodes(Suites[passed + 1])
  /\ passed' = passed + 1
  /\ UNCHANGED << request, pc, round, held, loaderVars >>

RunSuiteAgain ==
  /\ pc = "suites"
  /\ passed < Len(Suites)
  /\ \/ passed' = passed + 1 /\ rc' = 0
     \/ rc' \in FailureCodes(Suites[passed + 1]) /\ UNCHANGED passed
  /\ UNCHANGED << request, pc, round, held, loaderVars >>

RunSuite ==
  /\ pc = "suites"
  /\ passed < Len(Suites)
  /\ \/ passed' = passed + 1 /\ UNCHANGED << pc, rc >>
     \/ /\ rc' \in FailureCodes(Suites[passed + 1])
        /\ Goto("abandon")
        /\ UNCHANGED passed
  /\ UNCHANGED << request, round, held, loaderVars >>

\* Mutant of SuitesDone: the table is one entry short.
SuitesDoneEarly ==
  /\ pc = "suites"
  /\ passed = Len(Suites) - 1
  /\ Goto(IF request.plugin THEN "open_plugin" ELSE "close_main")
  /\ UNCHANGED << request, round, passed, rc, held, loaderVars >>

\* The rest of the round needs the plugin, or it does not.
SuitesDone ==
  /\ pc = "suites"
  /\ passed = Len(Suites)
  /\ Goto(IF request.plugin THEN "open_plugin" ELSE "close_main")
  /\ UNCHANGED << request, round, passed, rc, held, loaderVars >>

\* Mutants of OpenPlugin: without a plugin the main handle is forgotten, or it is
\* closed here and again on the common error path.
OpenPluginOrLeave ==
  /\ pc = "open_plugin"
  /\ \/ Open("plugin") /\ held' = held \cup {"plugin"} /\ Goto("plugin") /\ UNCHANGED rc
     \/ Exit(13) /\ UNCHANGED << held, loaderVars >>
  /\ UNCHANGED << request, round, passed >>
OpenPluginOrCloseTwice ==
  /\ pc = "open_plugin"
  /\ \/ Open("plugin") /\ held' = held \cup {"plugin"} /\ Goto("plugin") /\ UNCHANGED rc
     \/ Close("main") /\ rc' = 13 /\ Goto("abandon") /\ UNCHANGED held
  /\ UNCHANGED << request, round, passed >>

OpenPlugin ==
  /\ pc = "open_plugin"
  /\ \/ /\ Open("plugin")
        /\ held' = held \cup {"plugin"}
        /\ Goto("plugin")
        /\ UNCHANGED rc
     \/ /\ rc' = 13
        /\ Goto("abandon")
        /\ UNCHANGED << held, loaderVars >>
  /\ UNCHANGED << request, round, passed >>

\* Mutant of RunPlugin: when the suite fails the main library is closed first.
RunPluginAbandon ==
  /\ pc = "plugin"
  /\ \/ passed' = passed + 1 /\ Goto("close_plugin") /\ UNCHANGED rc
     \/ rc' \in FailureCodes("plugin") /\ Goto("abandon") /\ UNCHANGED passed
  /\ UNCHANGED << request, round, held, loaderVars >>

\* The result is kept and the plugin is closed in either case.
RunPlugin ==
  /\ pc = "plugin"
  /\ \/ passed' = passed + 1 /\ UNCHANGED rc
     \/ rc' \in FailureCodes("plugin") /\ UNCHANGED passed
  /\ Goto("close_plugin")
  /\ UNCHANGED << request, round, held, loaderVars >>

\* Mutant of ClosePlugin: the plugin is closed only when its suite failed.
ClosePluginOnError ==
  /\ pc = "close_plugin"
  /\ held' = held \ {"plugin"}
  /\ \/ rc = 0 /\ Goto("close_main") /\ UNCHANGED << rc, loaderVars >>
     \/ rc # 0 /\ Close("plugin") /\ Goto("abandon") /\ UNCHANGED rc
  /\ UNCHANGED << request, round, passed >>

\* A failing dlclose replaces whatever the plugin suite returned.
ClosePlugin ==
  /\ pc = "close_plugin"
  /\ held' = held \ {"plugin"}
  /\ \/ /\ Close("plugin")
        /\ Goto(IF rc # 0 THEN "abandon" ELSE "close_main")
        /\ UNCHANGED rc
     \/ /\ Refuse("plugin")
        /\ rc' = 14
        /\ Goto("abandon")
  /\ UNCHANGED << request, round, passed >>

\* The error paths: dlclose(handle), its result ignored, and return rc.
Abandon ==
  /\ pc = "abandon"
  /\ held' = held \ {"main"}
  /\ Close("main") \/ Refuse("main")
  /\ Exit(rc)
  /\ UNCHANGED << request, round, passed >>

\* Mutant of CloseMain: the result of dlclose is ignored.
CloseMainUnchecked ==
  /\ pc = "close_main"
  /\ held' = held \ {"main"}
  /\ Close("main") \/ Refuse("main")
  /\ Goto("loop")
  /\ round' = round + 1
  /\ passed' = 0
  /\ UNCHANGED << request, rc >>

CloseMain ==
  /\ pc = "close_main"
  /\ held' = held \ {"main"}
  /\ \/ /\ Close("main")
        /\ Goto("loop")
        /\ round' = round + 1
        /\ passed' = 0
        /\ UNCHANGED rc
     \/ /\ Refuse("main")
        /\ Exit(12)
        /\ UNCHANGED << round, passed >>
  /\ UNCHANGED request

\* signalHandler: _exit(128 + signal), from whatever the driver has called.
Crash ==
  /\ pc \notin {"parse", "exited"}
  /\ \E signal \in CrashSignals : Exit(128 + signal)
  /\ UNCHANGED << request, round, passed, held, loaderVars >>

Progress ==
  \/ ParseArgs \/ AllRoundsDone
  \/ OpenMain \/ RunSuite \/ SuitesDone \/ OpenPlugin \/ RunPlugin
  \/ ClosePlugin \/ Abandon \/ CloseMain

Next == Progress \/ Crash

\* The driver is one thread that runs until it exits, its suites return, and
\* no crash has to come to its help.
Spec == Init /\ [][Next]_vars /\ WF_vars(Progress)

(* ----------------------------- Properties ----------------------------- *)

\* Every variable stays in its domain.
TypeOK ==
  /\ request \in Requests
  /\ pc \in {"parse", "loop", "suites", "open_plugin", "plugin", "close_plugin",
             "close_main", "abandon", "exited"}
  /\ round \in Nat
  /\ passed \in 0 .. Len(Suites) + 1
  /\ rc \in Nat
  /\ held \subseteq Libraries
  /\ unique \in Builds
  /\ refs \in [Libraries -> Nat]
  /\ pinned \subseteq Libraries
  /\ teardowns \in [Libraries -> Nat]
  /\ refused \subseteq Libraries

\* No handle leaks on any path out of a round: when main returns, a library is
\* still referenced only if the loader refused to close it, and in the round
\* head nothing is referenced at all (the three error returns that close the
\* main library by hand, and the two closes on the good path).
HandlesReturned ==
  /\ pc = "loop" => \A l \in Libraries : refs[l] = 0
  /\ pc = "exited" /\ rc < 128 =>
       \A l \in Libraries : refs[l] = IF l \in refused THEN 1 ELSE 0

\* The plugin is only ever open, run or closed under an open main library, and
\* no library is opened twice or closed once too often.
PluginNested ==
  /\ \A l \in Libraries : refs[l] \in {0, 1}
  /\ pc \in {"plugin", "close_plugin"} => refs["plugin"] = 1
  /\ refs["plugin"] = 1 /\ "plugin" \notin refused => refs["main"] = 1

\* A failure is final: from the first one on the driver passes no suite, starts
\* no round, and exits with its code unless closing the plugin fails too (14
\* hides it) or a crash comes on top.
FirstFailureReported ==
  [][rc # 0 =>
       /\ passed' = passed
       /\ round' = round
       /\ \/ rc' = rc
          \/ pc = "close_plugin" /\ rc' = 14
          \/ rc' >= 128]_vars

\* The static destructor GlobalUnloadProbe runs once in every completed round
\* that uses the plugin (README: "captures a backtrace during dlclose()").  The
\* plugin must not be the library that is pinned, so the main library has to be
\* the first to define a unique symbol if the plugin defines one.
ProbeEveryRound ==
  ("plugin" \in unique => "main" \in unique) =>
  (pc = "loop" \/ (pc = "exited" /\ rc = 0) =>
     teardowns["plugin"] = IF request.plugin THEN round ELSE 0)

\* Every completed round unloads the main library (README: "repeatedly loads
\* shared objects, executes unwind-heavy C++ code, and unloads the objects
\* again").
MainUnloadedEveryRound == pc = "loop" => teardowns["main"] = round

\* So it does whenever the main library defines no unique symbol, even under a
\* plugin that does and stays mapped itself.
MainUnloadedUnlessPinned == "main" \notin unique => MainUnloadedEveryRound

\* The driver exits, whatever its suites and the loader return.
Terminates == <>(pc = "exited")

\* The run as README describes it.
Outcome ==
  IF rc # 0 THEN "failed"
  ELSE IF pc # "exited" THEN "running"
  ELSE IF round = 0 THEN "declined"
  ELSE "passed"

Promise == INSTANCE Lifecycle WITH
  Requests <- { [rounds |-> IF r.rounds <= 0 THEN 1 ELSE r.rounds,
                 plugin |-> r.plugin] : r \in Requests },
  request <- [rounds |-> Rounds, plugin |-> request.plugin],
  open <- held, done <- passed, cycles <- round, outcome <- Outcome

\* Every behaviour of the driver is one the README's lifecycle allows: exit code
\* 0 after a first round means that all rounds ran all six steps in order.
ImplementsLifecycle == Promise!Spec
=============================================================================
