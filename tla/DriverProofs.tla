---------------------------- MODULE DriverProofs ----------------------------
(***************************************************************************)
(* For every number of rounds, with and without the plugin: the driver     *)
(* leaks no handle, reports its first failure, tears the plugin down once  *)
(* per completed round, and implements the README's lifecycle.             *)
(***************************************************************************)
EXTENDS Driver, TLAPS

(***************************************************************************)
(* The inductive invariant: what is held, passed and failed at each label  *)
(* of runOneRound.  refs follows held, apart from libraries the loader     *)
(* refused to close.                                                       *)
(***************************************************************************)
Both == {"main", "plugin"}

RefsInv ==
  /\ held \cap refused = {}
  /\ \A l \in Libraries : refs[l] = IF l \in held \cup refused THEN 1 ELSE 0

HeldInv ==
  /\ pc \in {"parse", "loop"} => held = {}
  /\ pc \in {"suites", "open_plugin", "close_main", "abandon"} => held = {"main"}
  /\ pc \in {"plugin", "close_plugin"} => held = Both
  /\ pc = "exited" /\ rc < 128 => held = {}
  /\ pc \notin {"abandon", "exited"} => refused = {}
  /\ "main" \in refused => pc = "exited"
  /\ "plugin" \in held => "main" \in held

RcInv ==
  /\ pc \notin {"close_plugin", "abandon", "exited"} => rc = 0
  /\ pc \in {"close_plugin", "abandon"} => rc < 128
  /\ pc = "abandon" => rc # 0

\* Suites passed, counted against the steps of the lifecycle.
PassedInv ==
  /\ pc \in {"parse", "loop"} => passed = 0
  /\ pc = "parse" => round = 0
  /\ pc = "suites" => passed <= Len(Suites)
  /\ pc \in {"open_plugin", "plugin"} => request.plugin /\ passed = Len(Suites)
  /\ pc = "close_plugin" => request.plugin
  /\ pc = "close_plugin" /\ rc = 0 => passed = Len(Suites) + 1
  /\ pc = "close_main" => passed = Len(Suites) + (IF request.plugin THEN 1 ELSE 0)

RoundInv ==
  /\ round <= Rounds
  /\ pc \notin {"parse", "loop", "exited"} => round < Rounds

IInv == TypeOK /\ RefsInv /\ HeldInv /\ RcInv /\ PassedInv /\ RoundInv

-----------------------------------------------------------------------------

LEMMA SuitesLength == Len(Suites) = 5
BY DEF Suites

\* Codes of a suite are nonzero and below the codes a crash exits with.
LEMMA FailureCodesBounded ==
  ASSUME NEW suite \in {"basic", "stress", "deep", "cfi", "cfi_ext", "plugin"},
         NEW code \in FailureCodes(suite)
  PROVE  code \in Nat /\ 0 < code /\ code < 128
BY DEF FailureCodes

LEMMA SuiteNames ==
  ASSUME NEW k \in 1 .. 5
  PROVE  Suites[k] \in {"basic", "stress", "deep", "cfi", "cfi_ext", "plugin"}
BY DEF Suites

LEMMA RoundsPositive == TypeOK => Rounds \in Nat /\ Rounds > 0
BY RequestsAssumption DEF TypeOK, Rounds

LEMMA InitInv == Init => IInv
BY RoundsPositive, RequestsAssumption
   DEF Init, LoaderInit, IInv, TypeOK, RefsInv, HeldInv, RcInv, PassedInv, RoundInv,
       Libraries, Rounds, Suites

LEMMA ParseArgsKeeps == IInv /\ ParseArgs => IInv'
BY RoundsPositive, SuitesLength
   DEF ParseArgs, Goto, Exit, loaderVars, IInv, TypeOK, RefsInv, HeldInv, RcInv,
       PassedInv, RoundInv, Rounds

LEMMA AllRoundsDoneKeeps == IInv /\ AllRoundsDone => IInv'
BY SuitesLength
   DEF AllRoundsDone, Exit, loaderVars, IInv, TypeOK, RefsInv, HeldInv, RcInv,
       PassedInv, RoundInv, Rounds

\* What the loader's operations do to the reference counts.
LEMMA OpenRefs ==
  ASSUME TypeOK, RefsInv, NEW lib \in Libraries \ (held \cup refused),
         Open(lib), held' = held \cup {lib}
  PROVE  /\ RefsInv'
         /\ refs' \in [Libraries -> Nat] /\ pinned' \subseteq Libraries
         /\ teardowns' \in [Libraries -> Nat] /\ refused' \subseteq Libraries
         /\ unique' \in Builds
         /\ refused' = refused
BY DEF Open, RefsInv, TypeOK

LEMMA CloseRefs ==
  ASSUME TypeOK, RefsInv, NEW lib \in Libraries, lib \in held,
         Close(lib), held' = held \ {lib}
  PROVE  /\ RefsInv'
         /\ refs' \in [Libraries -> Nat] /\ pinned' \subseteq Libraries
         /\ teardowns' \in [Libraries -> Nat] /\ refused' \subseteq Libraries
         /\ unique' \in Builds
         /\ refused' = refused
<1>1. refs[lib] = 1 /\ lib \notin refused
  BY DEF RefsInv
<1>2. /\ refs' = [refs EXCEPT ![lib] = 0] /\ refused' = refused /\ pinned' = pinned
      /\ unique' = unique
      /\ refs \in [Libraries -> Nat] /\ teardowns \in [Libraries -> Nat]
  BY <1>1 DEF Close, TypeOK
<1>3. RefsInv'
  BY <1>1, <1>2 DEF RefsInv
<1>4. teardowns' \in [Libraries -> Nat]
  BY <1>1, <1>2 DEF Close
<1> QED
  BY <1>2, <1>3, <1>4 DEF TypeOK

LEMMA RefuseRefs ==
  ASSUME TypeOK, RefsInv, NEW lib \in Libraries, lib \in held,
         Refuse(lib), held' = held \ {lib}
  PROVE  /\ RefsInv'
         /\ refs' \in [Libraries -> Nat] /\ pinned' \subseteq Libraries
         /\ teardowns' \in [Libraries -> Nat] /\ refused' \subseteq Libraries
         /\ unique' \in Builds
         /\ refused' = refused \cup {lib}
BY DEF Refuse, RefsInv, TypeOK

LEMMA LibraryNames == "main" \in Libraries /\ "plugin" \in Libraries /\ Libraries = Both
BY DEF Libraries, Both

LEMMA OpenMainKeeps == IInv /\ OpenMain => IInv'
<1> SUFFICES ASSUME IInv, OpenMain PROVE IInv'
  OBVIOUS
<1>1. /\ pc = "loop" /\ round < Rounds /\ held = {} /\ refused = {} /\ rc = 0 /\ passed = 0
      /\ request' = request /\ round' = round /\ passed' = passed
  BY DEF OpenMain, IInv, HeldInv, RcInv, PassedInv
<1>2. CASE Open("main") /\ held' = {"main"} /\ pc' = "suites" /\ rc' = rc
  <2>1. /\ RefsInv'
        /\ refs' \in [Libraries -> Nat] /\ pinned' \subseteq Libraries
        /\ teardowns' \in [Libraries -> Nat] /\ refused' \subseteq Libraries
        /\ unique' \in Builds
        /\ refused' = refused
    BY <1>1, <1>2, OpenRefs, LibraryNames DEF IInv
  <2> QED
    BY <1>1, <1>2, <2>1, SuitesLength, LibraryNames
       DEF IInv, TypeOK, HeldInv, RcInv, PassedInv, RoundInv, Rounds
<1>3. CASE pc' = "exited" /\ rc' = 10 /\ held' = held /\ UNCHANGED loaderVars
  BY <1>1, <1>3
     DEF IInv, TypeOK, RefsInv, HeldInv, RcInv, PassedInv, RoundInv, Rounds, loaderVars
<1> QED
  BY <1>2, <1>3 DEF OpenMain, Goto, Exit

LEMMA RunSuiteKeeps == IInv /\ RunSuite => IInv'
<1> SUFFICES ASSUME IInv, RunSuite PROVE IInv'
  OBVIOUS
<1>1. /\ pc = "suites" /\ passed < 5 /\ passed \in Nat /\ held = {"main"}
      /\ refused = {} /\ rc = 0 /\ round < Rounds
      /\ UNCHANGED << request, round, held, loaderVars >>
  BY SuitesLength DEF RunSuite, IInv, TypeOK, HeldInv, RcInv, RoundInv
<1>2. CASE passed' = passed + 1 /\ UNCHANGED << pc, rc >>
  BY <1>1, <1>2, SuitesLength
     DEF IInv, TypeOK, RefsInv, HeldInv, RcInv, PassedInv, RoundInv, Rounds, loaderVars
<1>3. CASE rc' \in FailureCodes(Suites[passed + 1]) /\ pc' = "abandon" /\ passed' = passed
  <2>1. passed + 1 \in 1 .. 5
    BY <1>1
  <2>2. rc' \in Nat /\ 0 < rc' /\ rc' < 128
    BY <1>3, <2>1, SuiteNames, FailureCodesBounded
  <2> QED
    BY <1>1, <1>3, <2>2, SuitesLength
       DEF IInv, TypeOK, RefsInv, HeldInv, RcInv, PassedInv, RoundInv, Rounds, loaderVars
<1> QED
  BY <1>2, <1>3 DEF RunSuite, Goto

LEMMA SuitesDoneKeeps == IInv /\ SuitesDone => IInv'
<1> SUFFICES ASSUME IInv, SuitesDone PROVE IInv'
  OBVIOUS
<1>1. /\ pc = "suites" /\ passed = Len(Suites) /\ request.plugin \in BOOLEAN
      /\ pc' = IF request.plugin THEN "open_plugin" ELSE "close_main"
      /\ UNCHANGED << request, round, passed, rc, held, loaderVars >>
  BY RequestsAssumption DEF SuitesDone, Goto, IInv, TypeOK
<1> QED
  BY <1>1, SuitesLength
     DEF IInv, TypeOK, RefsInv, HeldInv, RcInv, PassedInv, RoundInv, Rounds, loaderVars

LEMMA OpenPluginKeeps == IInv /\ OpenPlugin => IInv'
<1> SUFFICES ASSUME IInv, OpenPlugin PROVE IInv'
  OBVIOUS
<1>1. /\ pc = "open_plugin" /\ held = {"main"} /\ refused = {} /\ rc = 0
      /\ request.plugin /\ passed = Len(Suites) /\ round < Rounds
      /\ UNCHANGED << request, round, passed >>
  BY DEF OpenPlugin, IInv, HeldInv, RcInv, PassedInv, RoundInv
<1>2. CASE Open("plugin") /\ held' = held \cup {"plugin"} /\ pc' = "plugin" /\ rc' = rc
  <2>1. /\ RefsInv'
        /\ refs' \in [Libraries -> Nat] /\ pinned' \subseteq Libraries
        /\ teardowns' \in [Libraries -> Nat] /\ refused' \subseteq Libraries
        /\ unique' \in Builds
        /\ refused' = refused
    BY <1>1, <1>2, OpenRefs, LibraryNames DEF IInv
  <2>2. held' = Both
    BY <1>1, <1>2 DEF Both
  <2> QED
    BY <1>1, <1>2, <2>1, <2>2, SuitesLength, LibraryNames
       DEF IInv, TypeOK, HeldInv, RcInv, PassedInv, RoundInv, Rounds, Both
<1>3. CASE rc' = 13 /\ pc' = "abandon" /\ held' = held /\ UNCHANGED loaderVars
  BY <1>1, <1>3
     DEF IInv, TypeOK, RefsInv, HeldInv, RcInv, PassedInv, RoundInv, Rounds, loaderVars
<1> QED
  BY <1>2, <1>3 DEF OpenPlugin, Goto

LEMMA RunPluginKeeps == IInv /\ RunPlugin => IInv'
<1> SUFFICES ASSUME IInv, RunPlugin PROVE IInv'
  OBVIOUS
<1>1. /\ pc = "plugin" /\ pc' = "close_plugin" /\ rc = 0
      /\ request.plugin /\ passed = Len(Suites) /\ round < Rounds
      /\ UNCHANGED << request, round, held, loaderVars >>
  BY DEF RunPlugin, Goto, IInv, RcInv, PassedInv, RoundInv
<1>2. CASE passed' = passed + 1 /\ rc' = rc
  BY <1>1, <1>2, SuitesLength
     DEF IInv, TypeOK, RefsInv, HeldInv, RcInv, PassedInv, RoundInv, Rounds, loaderVars
<1>3. CASE rc' \in FailureCodes("plugin") /\ passed' = passed
  <2>1. rc' \in Nat /\ 0 < rc' /\ rc' < 128
    BY <1>3, FailureCodesBounded
  <2> QED
    BY <1>1, <1>3, <2>1, SuitesLength
       DEF IInv, TypeOK, RefsInv, HeldInv, RcInv, PassedInv, RoundInv, Rounds, loaderVars
<1> QED
  BY <1>2, <1>3 DEF RunPlugin

LEMMA ClosePluginKeeps == IInv /\ ClosePlugin => IInv'
<1> SUFFICES ASSUME IInv, ClosePlugin PROVE IInv'
  OBVIOUS
<1>1. /\ pc = "close_plugin" /\ held = Both /\ refused = {} /\ rc < 128 /\ rc \in Nat
      /\ request.plugin /\ rc = 0 => passed = Len(Suites) + 1
      /\ round < Rounds
      /\ held' = held \ {"plugin"}
      /\ UNCHANGED << request, round, passed >>
  BY DEF ClosePlugin, IInv, TypeOK, HeldInv, RcInv, PassedInv, RoundInv
<1>2. held' = {"main"} /\ "plugin" \in held
  BY <1>1 DEF Both
<1>3. CASE /\ Close("plugin")
           /\ pc' = IF rc # 0 THEN "abandon" ELSE "close_main"
           /\ rc' = rc
  <2>1. /\ RefsInv'
        /\ refs' \in [Libraries -> Nat] /\ pinned' \subseteq Libraries
        /\ teardowns' \in [Libraries -> Nat] /\ refused' \subseteq Libraries
        /\ unique' \in Builds
        /\ refused' = refused
    BY <1>1, <1>2, <1>3, CloseRefs, LibraryNames DEF IInv
  <2> QED
    BY <1>1, <1>2, <1>3, <2>1, SuitesLength, LibraryNames
       DEF IInv, TypeOK, HeldInv, RcInv, PassedInv, RoundInv, Rounds
<1>4. CASE Refuse("plugin") /\ rc' = 14 /\ pc' = "abandon"
  <2>1. /\ RefsInv'
        /\ refs' \in [Libraries -> Nat] /\ pinned' \subseteq Libraries
        /\ teardowns' \in [Libraries -> Nat] /\ refused' \subseteq Libraries
        /\ unique' \in Builds
        /\ refused' = {"plugin"}
    BY <1>1, <1>2, <1>4, RefuseRefs, LibraryNames DEF IInv
  <2> QED
    BY <1>1, <1>2, <1>4, <2>1, SuitesLength, LibraryNames
       DEF IInv, TypeOK, HeldInv, RcInv, PassedInv, RoundInv, Rounds
<1> QED
  BY <1>3, <1>4 DEF ClosePlugin, Goto

LEMMA AbandonKeeps == IInv /\ Abandon => IInv'
<1> SUFFICES ASSUME IInv, Abandon PROVE IInv'
  OBVIOUS
<1>1. /\ pc = "abandon" /\ held = {"main"} /\ rc < 128 /\ rc # 0
      /\ held' = held \ {"main"} /\ pc' = "exited" /\ rc' = rc
      /\ UNCHANGED << request, round, passed >>
  BY DEF Abandon, Exit, IInv, HeldInv, RcInv
<1>2. held' = {} /\ "main" \in held
  BY <1>1
<1>3. /\ RefsInv'
      /\ refs' \in [Libraries -> Nat] /\ pinned' \subseteq Libraries
      /\ teardowns' \in [Libraries -> Nat] /\ refused' \subseteq Libraries
      /\ unique' \in Builds
  BY <1>1, <1>2, CloseRefs, RefuseRefs, LibraryNames DEF IInv, Abandon
<1> QED
  BY <1>1, <1>2, <1>3, SuitesLength
     DEF IInv, TypeOK, HeldInv, RcInv, PassedInv, RoundInv, Rounds

LEMMA CloseMainKeeps == IInv /\ CloseMain => IInv'
<1> SUFFICES ASSUME IInv, CloseMain PROVE IInv'
  OBVIOUS
<1>1. /\ pc = "close_main" /\ held = {"main"} /\ rc = 0 /\ refused = {}
      /\ round < Rounds /\ round \in Nat /\ Rounds \in Nat
      /\ held' = held \ {"main"} /\ request' = request
  BY RoundsPositive DEF CloseMain, IInv, TypeOK, HeldInv, RcInv, RoundInv
<1>2. held' = {} /\ "main" \in held
  BY <1>1
<1>3. CASE Close("main") /\ pc' = "loop" /\ round' = round + 1 /\ passed' = 0 /\ rc' = rc
  <2>1. /\ RefsInv'
        /\ refs' \in [Libraries -> Nat] /\ pinned' \subseteq Libraries
        /\ teardowns' \in [Libraries -> Nat] /\ refused' \subseteq Libraries
        /\ unique' \in Builds
        /\ refused' = refused
    BY <1>1, <1>2, <1>3, CloseRefs, LibraryNames DEF IInv
  <2> QED
    BY <1>1, <1>2, <1>3, <2>1, SuitesLength, LibraryNames
       DEF IInv, TypeOK, HeldInv, RcInv, PassedInv, RoundInv, Rounds
<1>4. CASE Refuse("main") /\ pc' = "exited" /\ rc' = 12 /\ UNCHANGED << round, passed >>
  <2>1. /\ RefsInv'
        /\ refs' \in [Libraries -> Nat] /\ pinned' \subseteq Libraries
        /\ teardowns' \in [Libraries -> Nat] /\ refused' \subseteq Libraries
        /\ unique' \in Builds
    BY <1>1, <1>2, <1>4, RefuseRefs, LibraryNames DEF IInv
  <2> QED
    BY <1>1, <1>2, <1>4, <2>1, SuitesLength
       DEF IInv, TypeOK, HeldInv, RcInv, PassedInv, RoundInv, Rounds
<1> QED
  BY <1>3, <1>4 DEF CloseMain, Goto, Exit

LEMMA CrashKeeps == IInv /\ Crash => IInv'
<1> SUFFICES ASSUME IInv, Crash PROVE IInv'
  OBVIOUS
<1>1. /\ pc' = "exited" /\ rc' \in Nat /\ rc' >= 128
      /\ UNCHANGED << request, round, passed, held, loaderVars >>
  BY DEF Crash, Exit, CrashSignals
<1> QED
  BY <1>1
     DEF IInv, TypeOK, RefsInv, HeldInv, RcInv, PassedInv, RoundInv, Rounds, loaderVars

LEMMA StepInv == IInv /\ [Next]_vars => IInv'
<1> SUFFICES ASSUME IInv, [Next]_vars PROVE IInv'
  OBVIOUS
<1>1. CASE Next
  BY <1>1, ParseArgsKeeps, AllRoundsDoneKeeps, OpenMainKeeps, RunSuiteKeeps,
     SuitesDoneKeeps, OpenPluginKeeps, RunPluginKeeps, ClosePluginKeeps, AbandonKeeps,
     CloseMainKeeps, CrashKeeps DEF Next, Progress
<1>2. CASE UNCHANGED vars
  BY <1>2 DEF vars, driverVars, loaderVars, IInv, TypeOK, RefsInv, HeldInv, RcInv,
     PassedInv, RoundInv, Rounds
<1> QED
  BY <1>1, <1>2
-----------------------------------------------------------------------------

\* The variables of the driver and the loader always have their types.
THEOREM TypeCorrect == Spec => []TypeOK
<1>1. IInv => TypeOK
  BY DEF IInv
<1> QED
  BY InitInv, StepInv, <1>1, PTL DEF Spec

\* main returns with no library referenced that the loader would have released,
\* and every round starts with none, for every number of rounds.
THEOREM HandlesAreReturned == Spec => []HandlesReturned
<1>1. IInv => HandlesReturned
  BY DEF IInv, RefsInv, HeldInv, HandlesReturned
<1> QED
  BY InitInv, StepInv, <1>1, PTL DEF Spec

\* The plugin is only referenced inside the main library's lifetime, and no
\* library twice.
THEOREM PluginIsNested == Spec => []PluginNested
<1>1. IInv => PluginNested
  BY LibraryNames DEF IInv, RefsInv, HeldInv, PluginNested, Both
<1> QED
  BY InitInv, StepInv, <1>1, PTL DEF Spec

\* After its first failure the driver passes nothing more and its exit code is
\* that failure's, 14 or a crash's.
THEOREM FirstFailureIsReported == Spec => FirstFailureReported
<1> DEFINE Kept == rc # 0 =>
       /\ passed' = passed
       /\ round' = round
       /\ \/ rc' = rc
          \/ pc = "close_plugin" /\ rc' = 14
          \/ rc' >= 128
<1>1. ASSUME IInv, [Next]_vars PROVE [Kept]_vars
  <2>1. CASE rc = 0
    BY <2>1
  <2>2. CASE rc # 0 /\ UNCHANGED vars
    BY <2>2
  <2>3. CASE rc # 0 /\ Next
    <3>1. pc \in {"close_plugin", "abandon", "exited"}
      BY <1>1, <2>3 DEF IInv, RcInv
    <3>2. CASE ClosePlugin
      BY <3>2 DEF ClosePlugin, Goto
    <3>3. CASE Abandon
      BY <3>3 DEF Abandon, Exit
    <3>4. CASE Crash
      BY <3>4 DEF Crash, Exit, CrashSignals
    <3> QED
      BY <2>3, <3>1, <3>2, <3>3, <3>4
         DEF Next, Progress, ParseArgs, AllRoundsDone, OpenMain, RunSuite, SuitesDone, OpenPlugin,
             RunPlugin, CloseMain
  <2> QED
    BY <1>1, <2>1, <2>2, <2>3
<1> QED
  BY InitInv, StepInv, <1>1, PTL DEF Spec, FirstFailureReported

-----------------------------------------------------------------------------

(***************************************************************************)
(* The teardowns of the plugin.  ProbeEveryRound needs to know at which    *)
(* labels the current round's teardown has happened, and that a library is *)
(* pinned before the plugin is opened if the plugin could be.              *)
(***************************************************************************)
Uses(n) == IF request.plugin THEN n ELSE 0

ProbeInv ==
  ("plugin" \in unique => "main" \in unique) =>
    /\ "plugin" \notin pinned
    /\ pc \in {"suites", "open_plugin"} /\ "main" \in unique => pinned # {}
    /\ pc \in {"parse", "loop", "suites", "open_plugin", "plugin", "close_plugin"} =>
         teardowns["plugin"] = Uses(round)
    /\ pc = "close_main" => teardowns["plugin"] = Uses(round + 1)
    /\ pc = "exited" /\ rc = 0 => teardowns["plugin"] = Uses(round)

\* What a library defines does not change.
LEMMA UniqueKept == [Next]_vars => unique' = unique
BY DEF Next, Progress, vars, driverVars, loaderVars, ParseArgs, AllRoundsDone, OpenMain,
       RunSuite, SuitesDone, OpenPlugin, RunPlugin, ClosePlugin, Abandon, CloseMain, Crash,
       Open, Close, Refuse

LEMMA ProbeStep == IInv /\ ProbeInv /\ [Next]_vars => ProbeInv'
<1> SUFFICES ASSUME IInv, ProbeInv, [Next]_vars,
                    "plugin" \in unique => "main" \in unique
             PROVE  ProbeInv'
  BY UniqueKept DEF ProbeInv
<1>1. CASE UNCHANGED vars
  BY <1>1 DEF ProbeInv, vars, driverVars, loaderVars, Uses
<1>2. CASE ParseArgs
  BY <1>2 DEF ParseArgs, Goto, Exit, ProbeInv, loaderVars, Uses
<1>3. CASE AllRoundsDone
  BY <1>3 DEF AllRoundsDone, Exit, ProbeInv, loaderVars, Uses
<1>4. CASE OpenMain
  <2>1. CASE Open("main") /\ pc' = "suites"
    BY <1>4, <2>1 DEF OpenMain, Open, ProbeInv, Uses
  <2>2. CASE pc' = "exited" /\ rc' = 10 /\ UNCHANGED loaderVars
    BY <1>4, <2>2 DEF ProbeInv, loaderVars
  <2> QED
    BY <1>4, <2>1, <2>2 DEF OpenMain, Goto, Exit
<1>5. CASE RunSuite
  BY <1>5 DEF RunSuite, Goto, ProbeInv, loaderVars, Uses
<1>6. CASE SuitesDone
  BY <1>6 DEF SuitesDone, Goto, ProbeInv, loaderVars, Uses
<1>7. CASE OpenPlugin
  <2>1. CASE Open("plugin") /\ pc' = "plugin"
    BY <1>7, <2>1 DEF OpenPlugin, Open, ProbeInv, Uses
  <2>2. CASE pc' = "abandon" /\ UNCHANGED loaderVars
    BY <1>7, <2>2 DEF ProbeInv, loaderVars
  <2> QED
    BY <1>7, <2>1, <2>2 DEF OpenPlugin, Goto
<1>8. CASE RunPlugin
  BY <1>8 DEF RunPlugin, Goto, ProbeInv, loaderVars, Uses
<1>9. CASE ClosePlugin
  <2>1. /\ pc = "close_plugin" /\ request' = request /\ round' = round
        /\ request.plugin /\ round \in Nat /\ refs["plugin"] = 1 /\ "plugin" \notin pinned
        /\ teardowns["plugin"] = round /\ teardowns \in [Libraries -> Nat]
    BY <1>9, LibraryNames
       DEF ClosePlugin, IInv, TypeOK, HeldInv, RefsInv, PassedInv, ProbeInv, Both, Uses
  <2>2. CASE Close("plugin") /\ pc' \in {"abandon", "close_main"}
    <3>1. teardowns'["plugin"] = round + 1 /\ pinned' = pinned
      BY <2>1, <2>2, LibraryNames DEF Close
    <3> QED
      BY <2>1, <2>2, <3>1 DEF ProbeInv, Uses
  <2>3. CASE Refuse("plugin") /\ pc' = "abandon"
    BY <2>1, <2>3 DEF Refuse, ProbeInv
  <2> QED
    BY <1>9, <2>2, <2>3 DEF ClosePlugin, Goto
<1>10. CASE Abandon
  <2>1. rc' # 0 /\ pc' = "exited" /\ pinned' = pinned
    BY <1>10 DEF Abandon, Exit, Close, Refuse, IInv, RcInv
  <2> QED
    BY <2>1 DEF ProbeInv
<1>11. CASE CloseMain
  <2>1. /\ pc = "close_main" /\ request' = request /\ pinned' = pinned
        /\ round \in Nat /\ teardowns'["plugin"] = teardowns["plugin"]
    BY <1>11, LibraryNames DEF CloseMain, Close, Refuse, IInv, TypeOK
  <2>2. \/ pc' = "loop" /\ round' = round + 1
        \/ pc' = "exited" /\ rc' = 12
    BY <1>11 DEF CloseMain, Goto, Exit
  <2> QED
    BY <2>1, <2>2 DEF ProbeInv, Uses
<1>12. CASE Crash
  BY <1>12 DEF Crash, Exit, CrashSignals, ProbeInv, loaderVars
<1> QED
  BY <1>1, <1>2, <1>3, <1>4, <1>5, <1>6, <1>7, <1>8, <1>9, <1>10, <1>11, <1>12 DEF Next, Progress

\* The unload probe of the plugin runs exactly once in each completed round of a
\* run that uses the plugin.
THEOREM ProbeRunsEveryRound == Spec => []ProbeEveryRound
<1>1. Init => ProbeInv
  BY LibraryNames DEF Init, LoaderInit, ProbeInv, Uses
<1>2. IInv /\ ProbeInv => ProbeEveryRound
  BY DEF ProbeInv, ProbeEveryRound, Uses
<1> QED
  BY InitInv, StepInv, ProbeStep, <1>1, <1>2, PTL DEF Spec

(***************************************************************************)
(* The teardowns of the main library happen at its dlclose, which also     *)
(* counts the round.                                                       *)
(***************************************************************************)
MainInv ==
  "main" \notin unique =>
    /\ "main" \notin pinned
    /\ pc \notin {"abandon", "exited"} => teardowns["main"] = round

LEMMA MainStep == IInv /\ MainInv /\ [Next]_vars => MainInv'
<1> SUFFICES ASSUME IInv, MainInv, [Next]_vars, "main" \notin unique
             PROVE  "main" \notin pinned' /\
                    (pc' \notin {"abandon", "exited"} => teardowns'["main"] = round')
  BY UniqueKept DEF MainInv
<1>1. CASE UNCHANGED vars
  BY <1>1 DEF MainInv, vars, driverVars, loaderVars
<1>2. CASE ParseArgs \/ AllRoundsDone \/ RunSuite \/ SuitesDone \/ RunPlugin \/ Crash
  BY <1>2 DEF ParseArgs, AllRoundsDone, RunSuite, SuitesDone, RunPlugin, Crash, Goto, Exit,
              MainInv, loaderVars
<1>3. CASE OpenMain
  BY <1>3 DEF OpenMain, Open, Goto, Exit, MainInv, loaderVars
<1>4. CASE OpenPlugin
  BY <1>4 DEF OpenPlugin, Open, Goto, Exit, MainInv, loaderVars
<1>5. CASE ClosePlugin
  <2>1. teardowns'["main"] = teardowns["main"] /\ pinned' = pinned
    BY <1>5, LibraryNames DEF ClosePlugin, Close, Refuse, IInv, TypeOK
  <2> QED
    BY <1>5, <2>1 DEF ClosePlugin, Goto, MainInv
<1>6. CASE Abandon
  BY <1>6 DEF Abandon, Exit, Close, Refuse, MainInv
<1>7. CASE CloseMain
  <2>1. /\ pc = "close_main" /\ refs["main"] = 1 /\ "main" \notin pinned
        /\ teardowns["main"] = round /\ teardowns \in [Libraries -> Nat]
    BY <1>7, LibraryNames DEF CloseMain, IInv, TypeOK, HeldInv, RefsInv, MainInv
  <2>2. CASE Close("main") /\ pc' = "loop" /\ round' = round + 1
    BY <2>1, <2>2, LibraryNames DEF Close
  <2>3. CASE Refuse("main") /\ pc' = "exited"
    BY <2>1, <2>3 DEF Refuse
  <2> QED
    BY <1>7, <2>2, <2>3 DEF CloseMain, Goto, Exit
<1> QED
  BY <1>1, <1>2, <1>3, <1>4, <1>5, <1>6, <1>7 DEF Next, Progress

\* Every completed round has unloaded a main library that defines no unique symbol,
\* whatever the plugin defines.
THEOREM MainIsUnloaded == Spec => []MainUnloadedUnlessPinned
<1>1. Init => MainInv
  BY LibraryNames DEF Init, LoaderInit, MainInv
<1>2. MainInv => MainUnloadedUnlessPinned
  BY DEF MainInv, MainUnloadedUnlessPinned, MainUnloadedEveryRound
<1> QED
  BY InitInv, StepInv, MainStep, <1>1, <1>2, PTL DEF Spec

-----------------------------------------------------------------------------
(* The driver implements the lifecycle of the README. *)

Clamped == { [rounds |-> IF r.rounds <= 0 THEN 1 ELSE r.rounds,
              plugin |-> r.plugin] : r \in Requests }

LEMMA RefinesInit == Init => Promise!Init
<1> SUFFICES ASSUME Init PROVE Promise!Init
  OBVIOUS
<1>1. [rounds |-> Rounds, plugin |-> request.plugin] \in Clamped
  BY DEF Init, Clamped, Rounds
<1>2. held = {} /\ passed = 0 /\ round = 0 /\ Outcome = "running"
  BY DEF Init, Outcome
<1> QED
  BY <1>1, <1>2 DEF Promise!Init, Clamped

LEMMA RefinesStep == IInv /\ IInv' /\ [Next]_vars => [Promise!Next]_(Promise!lifecycleVars)
<1> SUFFICES ASSUME IInv, IInv', [Next]_vars
             PROVE  [Promise!Next]_(Promise!lifecycleVars)
  OBVIOUS
<1> DEFINE asked == [rounds |-> Rounds, plugin |-> request.plugin]
<1>1. asked' = asked
  BY DEF Next, Progress, vars, driverVars, ParseArgs, AllRoundsDone, OpenMain, RunSuite, SuitesDone,
         OpenPlugin, RunPlugin, ClosePlugin, Abandon, CloseMain, Crash, Rounds
<1>2. asked.rounds = Rounds /\ asked.plugin = request.plugin
  OBVIOUS
<1>3. round \in Nat /\ Rounds \in Nat /\ Rounds > 0 /\ rc \in Nat
  BY RoundsPositive DEF IInv, TypeOK
<1>4. Promise!SuiteCount = 5 /\ Len(Suites) = 5
  BY SuitesLength DEF Promise!SuiteCount
<1> HIDE DEF asked
<1> DEFINE same == UNCHANGED << held, passed, round >>
<1>5. ASSUME same, Outcome' = Outcome PROVE UNCHANGED Promise!lifecycleVars
  BY <1>1, <1>5 DEF Promise!lifecycleVars, asked
<1>6. ASSUME same, rc = 0, pc # "exited", rc' # 0 PROVE Promise!Next
  BY <1>1, <1>6 DEF Promise!Next, Promise!Fail, Outcome, asked
<1>7. CASE UNCHANGED vars
  BY <1>5, <1>7 DEF vars, driverVars, Outcome
<1>8. CASE ParseArgs
  <2>1. same /\ pc = "parse" /\ rc = 0 /\ held = {} /\ passed = 0 /\ round = 0
    BY <1>8 DEF ParseArgs, IInv, HeldInv, RcInv, PassedInv
  <2>2. CASE pc' = "loop" /\ rc' = rc
    BY <1>5, <2>1, <2>2 DEF Outcome
  <2>3. CASE pc' = "exited" /\ rc' = 2
    BY <1>6, <2>1, <2>3
  <2>4. CASE pc' = "exited" /\ rc' = 0
    <3>1. Outcome = "running" /\ Outcome' = "declined"
      BY <2>1, <2>4 DEF Outcome
    <3> QED
      BY <1>1, <2>1, <3>1 DEF Promise!Next, Promise!Decline, asked
  <2> QED
    BY <1>8, <2>2, <2>3, <2>4 DEF ParseArgs, Goto, Exit
<1>9. CASE AllRoundsDone
  <2>1. /\ same /\ pc = "loop" /\ rc = 0 /\ held = {} /\ round = Rounds
        /\ pc' = "exited" /\ rc' = 0
    BY <1>3, <1>9 DEF AllRoundsDone, Exit, IInv, HeldInv, RcInv, RoundInv
  <2>2. Outcome = "running" /\ Outcome' = "passed"
    BY <1>3, <2>1 DEF Outcome
  <2> QED
    BY <1>1, <1>2, <2>1, <2>2 DEF Promise!Next, Promise!Pass, asked
<1>10. CASE OpenMain
  <2>1. /\ pc = "loop" /\ rc = 0 /\ held = {} /\ passed = 0 /\ round < Rounds
        /\ UNCHANGED << round, passed >>
    BY <1>10 DEF OpenMain, IInv, HeldInv, RcInv, PassedInv
  <2>2. CASE held' = {"main"} /\ pc' = "suites" /\ rc' = rc
    <3>1. Outcome = "running" /\ Outcome' = "running"
      BY <2>1, <2>2 DEF Outcome
    <3> QED
      BY <1>1, <1>2, <2>1, <2>2, <3>1 DEF Promise!Next, Promise!LoadMain, asked
  <2>3. CASE held' = held /\ pc' = "exited" /\ rc' = 10
    BY <1>6, <2>1, <2>3
  <2> QED
    BY <1>10, <2>2, <2>3 DEF OpenMain, Goto, Exit
<1>11. CASE RunSuite
  <2>1. /\ pc = "suites" /\ rc = 0 /\ held = {"main"} /\ passed < 5
        /\ UNCHANGED << round, held >>
    BY <1>4, <1>11 DEF RunSuite, IInv, HeldInv, RcInv
  <2>2. CASE passed' = passed + 1 /\ UNCHANGED << pc, rc >>
    <3>1. Outcome = "running" /\ Outcome' = "running"
      BY <2>1, <2>2 DEF Outcome
    <3> QED
      BY <1>1, <1>4, <2>1, <2>2, <3>1 DEF Promise!Next, Promise!PassSuite, asked
  <2>3. CASE pc' = "abandon" /\ passed' = passed
    <3>1. rc' # 0
      BY <2>3 DEF IInv, RcInv
    <3> QED
      BY <1>6, <2>1, <2>3, <3>1
  <2> QED
    BY <1>11, <2>2, <2>3 DEF RunSuite, Goto
<1>12. CASE SuitesDone
  BY <1>5, <1>12 DEF SuitesDone, Goto, Outcome
<1>13. CASE OpenPlugin
  <2>1. /\ pc = "open_plugin" /\ rc = 0 /\ held = {"main"} /\ passed = 5 /\ request.plugin
        /\ UNCHANGED << round, passed >>
    BY <1>4, <1>13 DEF OpenPlugin, IInv, HeldInv, RcInv, PassedInv
  <2>2. CASE held' = held \cup {"plugin"} /\ pc' = "plugin" /\ rc' = rc
    <3>1. Outcome = "running" /\ Outcome' = "running" /\ held' = {"main", "plugin"}
      BY <2>1, <2>2 DEF Outcome
    <3> QED
      BY <1>1, <1>2, <1>4, <2>1, <3>1 DEF Promise!Next, Promise!LoadPlugin, asked
  <2>3. CASE held' = held /\ rc' = 13
    BY <1>6, <2>1, <2>3
  <2> QED
    BY <1>13, <2>2, <2>3 DEF OpenPlugin, Goto
<1>14. CASE RunPlugin
  <2>1. /\ pc = "plugin" /\ rc = 0 /\ held = {"main", "plugin"} /\ passed = 5
        /\ UNCHANGED << round, held >> /\ pc' = "close_plugin"
    BY <1>4, <1>14 DEF RunPlugin, Goto, IInv, HeldInv, RcInv, PassedInv, Both
  <2>2. CASE passed' = passed + 1 /\ rc' = rc
    <3>1. Outcome = "running" /\ Outcome' = "running"
      BY <2>1, <2>2 DEF Outcome
    <3> QED
      BY <1>1, <1>4, <2>1, <2>2, <3>1 DEF Promise!Next, Promise!PassPlugin, asked
  <2>3. CASE rc' \in FailureCodes("plugin") /\ passed' = passed
    <3>1. rc' # 0
      BY <2>3, FailureCodesBounded
    <3> QED
      BY <1>6, <2>1, <2>3, <3>1
  <2> QED
    BY <1>14, <2>2, <2>3 DEF RunPlugin
<1>15. CASE ClosePlugin
  <2>1. /\ pc = "close_plugin" /\ held = {"main", "plugin"} /\ held' = {"main"}
        /\ rc = 0 => passed = 6
        /\ UNCHANGED << round, passed >> /\ pc' # "exited"
    BY <1>4, <1>15 DEF ClosePlugin, Goto, IInv, HeldInv, PassedInv, Both
  <2>2. held \ Promise!Innermost = {"main"}
    BY <2>1 DEF Promise!Innermost
  <2>3. CASE rc = 0 /\ rc' = 0
    <3>1. Outcome = "running" /\ Outcome' = "running"
      BY <2>1, <2>3 DEF Outcome
    <3> QED
      BY <1>1, <1>4, <2>1, <2>3, <3>1 DEF Promise!Next, Promise!UnloadPlugin, asked
  <2>4. CASE rc = 0 /\ rc' # 0
    <3>1. Outcome = "running" /\ Outcome' = "failed"
      BY <2>1, <2>4 DEF Outcome
    <3> QED
      BY <1>1, <2>1, <2>2, <3>1 DEF Promise!Next, Promise!FailToClose, asked
  <2>5. CASE rc # 0 /\ rc' # 0
    <3>1. Outcome = "failed" /\ Outcome' = "failed"
      BY <2>5 DEF Outcome
    <3> QED
      BY <1>1, <2>1, <2>2, <3>1 DEF Promise!Next, Promise!Release, asked
  <2> QED
    BY <1>15, <2>3, <2>4, <2>5 DEF ClosePlugin
<1>16. CASE Abandon
  <2>1. /\ held = {"main"} /\ held' = {} /\ rc # 0 /\ rc' = rc
        /\ UNCHANGED << round, passed >>
    BY <1>16 DEF Abandon, Exit, IInv, HeldInv, RcInv
  <2>2. held \ Promise!Innermost = {}
    BY <2>1 DEF Promise!Innermost
  <2>3. Outcome = "failed" /\ Outcome' = "failed"
    BY <2>1 DEF Outcome
  <2> QED
    BY <1>1, <2>1, <2>2, <2>3 DEF Promise!Next, Promise!Release, asked
<1>17. CASE CloseMain
  <2>1. /\ pc = "close_main" /\ held = {"main"} /\ held' = {} /\ rc = 0
        /\ passed = 5 + (IF request.plugin THEN 1 ELSE 0)
    BY <1>4, <1>17 DEF CloseMain, IInv, HeldInv, RcInv, PassedInv
  <2>2. held \ Promise!Innermost = {}
    BY <2>1 DEF Promise!Innermost
  <2>3. CASE pc' = "loop" /\ rc' = rc /\ round' = round + 1 /\ passed' = 0
    <3>1. Outcome = "running" /\ Outcome' = "running"
      BY <2>1, <2>3 DEF Outcome
    <3> QED
      BY <1>1, <1>2, <1>4, <2>1, <2>3, <3>1 DEF Promise!Next, Promise!UnloadMain, asked
  <2>4. CASE pc' = "exited" /\ rc' = 12 /\ UNCHANGED << round, passed >>
    <3>1. Outcome = "running" /\ Outcome' = "failed"
      BY <2>1, <2>4 DEF Outcome
    <3> QED
      BY <1>1, <2>1, <2>2, <2>4, <3>1 DEF Promise!Next, Promise!FailToClose, asked
  <2> QED
    BY <1>17, <2>3, <2>4 DEF CloseMain, Goto, Exit
<1>18. CASE Crash
  <2>1. same /\ pc # "exited" /\ rc' # 0
    BY <1>18 DEF Crash, Exit, CrashSignals
  <2>2. CASE rc = 0
    BY <1>6, <2>1, <2>2
  <2>3. CASE rc # 0
    BY <1>5, <2>1, <2>3 DEF Outcome
  <2> QED
    BY <2>2, <2>3
<1> QED
  BY <1>7, <1>8, <1>9, <1>10, <1>11, <1>12, <1>13, <1>14, <1>15, <1>16, <1>17, <1>18 DEF Next, Progress

\* Every run of the driver is a run of the README's lifecycle: it passes only by
\* completing the requested rounds, each with its six steps in order.
THEOREM DriverImplementsLifecycle == Spec => ImplementsLifecycle
BY InitInv, StepInv, RefinesInit, RefinesStep, PTL DEF Spec, ImplementsLifecycle, Promise!Spec
=============================================================================
