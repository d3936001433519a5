---------------------------- MODULE ScriptsProofs ---------------------------
(***************************************************************************)
(* For any number of edits and any codes of the driver: what a zero exit   *)
(* status of run and all vouches for, and what the output directory holds  *)
(* after a build that went through.                                        *)
(***************************************************************************)
EXTENDS Scripts, TLAPS

TypeOK ==
  /\ version \in Nat \ {0}
  /\ disk \in [Artifacts -> Int]
  /\ call \in Calls
  /\ step \in Nat \ {0}
  /\ status \in {"idle", "running", "exited"}
  /\ code \in Int
  /\ asked \in Nat /\ asked <= version
  /\ status # "idle" => asked > 0
  /\ tested \in [Artifacts -> Int]
  /\ result \in Int
  /\ complete \in Nat

Building == status = "running" /\ ~call.dry /\ call.command \in {"build", "all"}

\* What the steps behind a running build have compiled.
BuildInv ==
  Building =>
    /\ step > 1 => disk["main"] >= asked
    /\ step > 2 => disk["plugin"] >= asked
    /\ step > 3 => disk["driver"] >= asked

\* Past its run step, a command has seen the driver return 0 on whole artifacts.
RunBehind ==
  \/ call.command = "run" /\ step > 1
  \/ call.command = "all" /\ step > 4

Vouched ==
  /\ result = 0
  /\ \A a \in Artifacts : Usable(tested[a])
  /\ call.command = "all" => \A a \in Artifacts : tested[a] >= asked

RunInv == status = "running" /\ ~call.dry /\ RunBehind => Vouched

IInv == TypeOK /\ BuildInv /\ RunInv /\ PassVouches /\ NoStaleAfterBuild

-----------------------------------------------------------------------------

\* The steps of each command.
LEMMA StepsAre ==
  /\ Len(Steps("build")) = 3 /\ Len(Steps("run")) = 1
  /\ Len(Steps("inspect")) = 2 /\ Len(Steps("all")) = 6
  /\ Steps("build")[1] = "main" /\ Steps("build")[2] = "plugin" /\ Steps("build")[3] = "driver"
  /\ Steps("run")[1] = "run"
  /\ Steps("inspect")[1] = "inspect_main" /\ Steps("inspect")[2] = "inspect_plugin"
  /\ Steps("all")[1] = "main" /\ Steps("all")[2] = "plugin" /\ Steps("all")[3] = "driver"
  /\ Steps("all")[4] = "run" /\ Steps("all")[5] = "inspect_main"
  /\ Steps("all")[6] = "inspect_plugin"
<1>1. Steps("build") = << "main", "plugin", "driver" >>
  BY DEF Steps
<1>2. Steps("run") = << "run" >>
  BY DEF Steps
<1>3. Steps("inspect") = << "inspect_main", "inspect_plugin" >>
  BY DEF Steps
<1>4. Steps("all") = << "main", "plugin", "driver", "run", "inspect_main", "inspect_plugin" >>
  BY DEF Steps
<1> QED
  BY <1>1, <1>2, <1>3, <1>4

LEMMA CallIs ==
  ASSUME TypeOK
  PROVE  /\ call.script \in {"python", "host"}
         /\ call.command \in {"build", "run", "inspect", "all"}
         /\ call.dry \in BOOLEAN
BY DEF TypeOK, Calls

\* The step a name stands for.
LEMMA DoingAt ==
  ASSUME TypeOK, NEW name, Doing(name)
  PROVE  /\ status = "running"
         /\ name = "main"   => call.command \in {"build", "all"} /\ step = 1
         /\ name = "plugin" => call.command \in {"build", "all"} /\ step = 2
         /\ name = "driver" => call.command \in {"build", "all"} /\ step = 3
         /\ name = "run"    => \/ call.command = "run" /\ step = 1
                               \/ call.command = "all" /\ step = 4
         /\ name \in {"inspect_main", "inspect_plugin"} =>
              \/ call.command = "inspect"
              \/ call.command = "all" /\ step > 4
<1>1. step \in 1 .. Len(Steps(call.command)) /\ Steps(call.command)[step] = name
  <2>1. Len(Steps(call.command)) \in Nat
    BY CallIs, StepsAre
  <2> QED
    BY <2>1 DEF Doing, StepsLeft, TypeOK
<1>2. CASE call.command = "build"
  BY <1>1, <1>2, StepsAre DEF Doing
<1>3. CASE call.command = "run"
  BY <1>1, <1>3, StepsAre DEF Doing
<1>4. CASE call.command = "inspect"
  BY <1>1, <1>4, StepsAre DEF Doing
<1>5. CASE call.command = "all"
  BY <1>1, <1>5, StepsAre DEF Doing
<1> QED
  BY <1>2, <1>3, <1>4, <1>5, CallIs

\* A failing step never turns into exit status 0, on either kind of script.
LEMMA FailureShows ==
  ASSUME TypeOK, NEW rc \in -64 .. 255, rc # 0
  PROVE  ExitStatus(rc) \in Int /\ ExitStatus(rc) # 0
<1>1. rc < 0 => rc % 256 = rc + 256
  OBVIOUS
<1> QED
  BY <1>1 DEF ExitStatus

\* What Leave does to the control.
LEMMA LeaveWays ==
  ASSUME TypeOK, NEW rc \in -64 .. 255, Leave(rc), status = "running"
  PROVE  \/ rc = 0 /\ step' = step + 1 /\ status' = status /\ code' = code
         \/ rc # 0 /\ step' = step /\ status' = "exited" /\ code' \in Int /\ code' # 0
BY FailureShows DEF Leave

LEMMA InitInv == Init => IInv
BY DEF Init, IInv, TypeOK, BuildInv, Building, RunInv, PassVouches, NoStaleAfterBuild, Artifacts,
   Absent

LEMMA EditKeeps == IInv /\ Edit => IInv'
<1> SUFFICES ASSUME IInv, Edit PROVE IInv'
  OBVIOUS
<1>1. TypeOK'
  BY DEF IInv, TypeOK, Edit, history
<1> QED
  BY <1>1 DEF IInv, Edit, history, BuildInv, Building, RunInv, RunBehind, Vouched, PassVouches,
     NoStaleAfterBuild

LEMMA InvokeKeeps == IInv /\ Invoke => IInv'
<1> SUFFICES ASSUME IInv, Invoke PROVE IInv'
  OBVIOUS
<1>1. TypeOK'
  BY DEF IInv, TypeOK, Invoke
<1> QED
  BY <1>1 DEF IInv, Invoke, BuildInv, Building, RunInv, RunBehind, PassVouches, NoStaleAfterBuild

LEMMA CompileKeeps ==
  ASSUME IInv, NEW a \in Artifacts, Compile(a)
  PROVE  IInv'
<1> DEFINE Left(rc, left) ==
      /\ Leave(rc)
      /\ rc = 0 \/ ~call.dry
      /\ disk' = IF call.dry THEN disk ELSE [disk EXCEPT ![a] = IF rc = 0 THEN version ELSE left]
      /\ complete' = IF call.dry THEN complete ELSE IF rc = 0 /\ a = "driver" THEN asked ELSE 0
<1>1. Doing(a) /\ UNCHANGED << version, call, asked, tested, result >>
  BY DEF Compile
<1>2. PICK rc \in -64 .. 255, left \in Int : Left(rc, left)
  <2>1. disk[a] \in Int
    BY DEF IInv, TypeOK
  <2>2. ASSUME Leave(0), disk' = IF call.dry THEN disk ELSE [disk EXCEPT ![a] = version],
               complete' = IF call.dry THEN complete ELSE IF a = "driver" THEN asked ELSE 0
        PROVE  Left(0, 0)
    BY <2>2
  <2>3. ASSUME NEW rc \in {1, -2}, NEW left \in {disk[a], Absent, Truncated}, ~call.dry, Leave(rc),
               disk' = [disk EXCEPT ![a] = left], complete' = 0
        PROVE  Left(rc, left) /\ rc \in -64 .. 255 /\ left \in Int
    <3>1. rc \in -64 .. 255 /\ rc # 0 /\ left \in Int
      BY <2>1, <2>3 DEF Absent, Truncated
    <3>2. [disk EXCEPT ![a] = IF rc = 0 THEN version ELSE left] = [disk EXCEPT ![a] = left]
      BY <3>1
    <3> QED
      BY <2>3, <3>1, <3>2
  <2>4. 0 \in -64 .. 255 /\ 0 \in Int
    OBVIOUS
  <2> HIDE DEF Left
  <2> QED
    BY <2>2, <2>3, <2>4 DEF Compile
<1>3. /\ status = "running" /\ call.command \in {"build", "all"}
      /\ \/ a = "main" /\ step = 1
         \/ a = "plugin" /\ step = 2
         \/ a = "driver" /\ step = 3
  BY <1>1, <1>2, DoingAt DEF IInv, Artifacts
<1>4. \/ rc = 0 /\ step' = step + 1 /\ status' = status /\ code' = code
      \/ rc # 0 /\ step' = step /\ status' = "exited" /\ code' \in Int /\ code' # 0
  BY <1>1, <1>2, <1>3, LeaveWays DEF IInv
<1>5. TypeOK'
  BY <1>1, <1>2, <1>3, <1>4 DEF IInv, TypeOK
<1>6. /\ asked \in Nat /\ version \in Nat /\ asked <= version
      /\ \A b \in Artifacts : disk[b] \in Int
      /\ ~call.dry => \A b \in Artifacts :
           disk'[b] = IF b # a THEN disk[b] ELSE IF rc = 0 THEN version ELSE left
  BY <1>1, <1>2 DEF IInv, TypeOK
<1>7. BuildInv'
  BY <1>1, <1>2, <1>3, <1>4, <1>6 DEF IInv, BuildInv, Building, Artifacts
<1>8. RunInv' /\ PassVouches'
  BY <1>1, <1>2, <1>3, <1>4 DEF RunInv, RunBehind, PassVouches
<1>9. NoStaleAfterBuild'
  <2>1. CASE call.dry
    BY <1>1, <1>2, <2>1 DEF IInv, NoStaleAfterBuild
  <2>2. CASE ~call.dry /\ rc = 0 /\ a = "driver"
    BY <1>1, <1>2, <1>3, <1>6, <2>2 DEF IInv, BuildInv, Building, NoStaleAfterBuild, Artifacts
  <2>3. CASE ~call.dry /\ ~(rc = 0 /\ a = "driver")
    BY <1>1, <1>2, <2>3 DEF NoStaleAfterBuild
  <2> QED
    BY <2>1, <2>2, <2>3, CallIs DEF IInv
<1> QED
  BY <1>5, <1>7, <1>8, <1>9 DEF IInv

LEMMA MissingDriverKeeps == IInv /\ MissingDriver => IInv'
<1> SUFFICES ASSUME IInv, MissingDriver PROVE IInv'
  OBVIOUS
<1>1. /\ Doing("run") /\ UNCHANGED << version, disk, call, history >>
      /\ \E rc \in -64 .. 255 : rc # 0 /\ Leave(rc)
  BY DEF MissingDriver
<1>2. status' = "exited" /\ step' = step /\ code' \in Int /\ code' # 0 /\ status = "running"
  BY <1>1, DoingAt, LeaveWays DEF IInv
<1>3. TypeOK'
  BY <1>1, <1>2 DEF IInv, TypeOK, history
<1> QED
  BY <1>1, <1>2, <1>3 DEF IInv, history, BuildInv, Building, RunInv, PassVouches,
     NoStaleAfterBuild

LEMMA RunDriverKeeps == IInv /\ RunDriver => IInv'
<1> SUFFICES ASSUME IInv, RunDriver PROVE IInv'
  OBVIOUS
<1>1. PICK rc \in -64 .. 255 :
        /\ Leave(rc) /\ result' = rc
        /\ rc = 0 => \A a \in Artifacts : Usable(disk[a])
  BY ScriptsAssumption DEF RunDriver
<1>2. Doing("run") /\ ~call.dry /\ tested' = disk /\ UNCHANGED << version, disk, call, asked, complete >>
  BY DEF RunDriver
<1>3. /\ status = "running"
      /\ \/ call.command = "run" /\ step = 1
         \/ call.command = "all" /\ step = 4
  BY <1>2, DoingAt DEF IInv
<1>4. \/ rc = 0 /\ step' = step + 1 /\ status' = status /\ code' = code
      \/ rc # 0 /\ step' = step /\ status' = "exited" /\ code' \in Int /\ code' # 0
  BY <1>1, <1>3, LeaveWays DEF IInv
<1>5. TypeOK'
  BY <1>1, <1>2, <1>3, <1>4 DEF IInv, TypeOK
<1>6. BuildInv'
  BY <1>2, <1>3, <1>4 DEF IInv, BuildInv, Building
<1>7. RunInv'
  BY <1>1, <1>2, <1>3, <1>4 DEF IInv, BuildInv, Building, RunInv, Vouched, Artifacts
<1>8. PassVouches' /\ NoStaleAfterBuild'
  BY <1>2, <1>3, <1>4 DEF IInv, PassVouches, NoStaleAfterBuild
<1> QED
  BY <1>5, <1>6, <1>7, <1>8 DEF IInv

LEMMA DryRunKeeps == IInv /\ DryRun => IInv'
<1> SUFFICES ASSUME IInv, DryRun PROVE IInv'
  OBVIOUS
<1>1. Doing("run") /\ call.dry /\ Leave(0) /\ UNCHANGED << version, disk, call, history >>
  BY DEF DryRun
<1>2. status = "running" /\ status' = status /\ step' = step + 1 /\ code' = code
  BY <1>1, DoingAt DEF IInv, Leave
<1>3. TypeOK'
  BY <1>1, <1>2 DEF IInv, TypeOK, history
<1> QED
  BY <1>1, <1>2, <1>3 DEF IInv, history, BuildInv, Building, RunInv, PassVouches,
     NoStaleAfterBuild

LEMMA InspectKeeps ==
  ASSUME IInv, NEW a, NEW name \in {"inspect_main", "inspect_plugin"}, Inspect(a, name)
  PROVE  IInv'
<1>1. /\ Doing(name) /\ UNCHANGED << version, disk, call, history >>
      /\ \E rc \in -64 .. 255 : Leave(rc)
  BY DEF Inspect
<1>2. status = "running" /\ (call.command = "inspect" \/ (call.command = "all" /\ step > 4))
  BY <1>1, DoingAt DEF IInv
<1>3. \/ step' = step + 1 /\ status' = status /\ code' = code
      \/ step' = step /\ status' = "exited" /\ code' \in Int /\ code' # 0
  BY <1>1, <1>2, LeaveWays DEF IInv
<1>4. TypeOK'
  BY <1>1, <1>2, <1>3 DEF IInv, TypeOK, history
<1>5. step \in Nat
  BY DEF IInv, TypeOK
<1>6. BuildInv' /\ RunInv'
  BY <1>1, <1>2, <1>3, <1>5 DEF IInv, history, BuildInv, Building, RunInv, RunBehind, Vouched
<1>7. PassVouches' /\ NoStaleAfterBuild'
  BY <1>1, <1>2, <1>3 DEF IInv, history, PassVouches, NoStaleAfterBuild
<1> QED
  BY <1>4, <1>6, <1>7 DEF IInv

LEMMA SucceedKeeps == IInv /\ Succeed => IInv'
<1> SUFFICES ASSUME IInv, Succeed PROVE IInv'
  OBVIOUS
<1>1. /\ status = "running" /\ step > Len(Steps(call.command)) /\ status' = "exited"
      /\ UNCHANGED << version, disk, call, step, history >> /\ code' = 0
  <2>1. Len(Steps(call.command)) \in Nat /\ step \in Nat
    BY CallIs, StepsAre DEF IInv, TypeOK
  <2> QED
    BY <2>1 DEF Succeed, StepsLeft
<1>2. TypeOK'
  BY <1>1 DEF IInv, TypeOK, history
<1>3. call.command \in {"run", "all"} => RunBehind
  BY <1>1, StepsAre DEF RunBehind, IInv, TypeOK
<1>4. PassVouches'
  BY <1>1, <1>3 DEF IInv, RunInv, Vouched, PassVouches, history
<1> QED
  BY <1>1, <1>2, <1>4 DEF IInv, BuildInv, Building, RunInv, NoStaleAfterBuild, history

LEMMA StepInv == IInv /\ [Next]_vars => IInv'
<1> SUFFICES ASSUME IInv, [Next]_vars PROVE IInv'
  OBVIOUS
<1>1. CASE Next
  BY <1>1, EditKeeps, InvokeKeeps, CompileKeeps, MissingDriverKeeps, RunDriverKeeps, DryRunKeeps,
     InspectKeeps, SucceedKeeps DEF Next
<1>2. CASE UNCHANGED vars
  BY <1>2 DEF vars, history, IInv, TypeOK, BuildInv, Building, RunInv, RunBehind, Vouched,
     PassVouches, NoStaleAfterBuild
<1> QED
  BY <1>1, <1>2

-----------------------------------------------------------------------------

\* Exit status 0 of run or all vouches for a driver that returned 0 on whole
\* artifacts, and of all for artifacts compiled by that very command.
THEOREM ZeroVouches == Spec => []PassVouches
<1>1. IInv => PassVouches
  BY DEF IInv
<1> QED
  BY <1>1, InitInv, StepInv, PTL DEF Spec

\* After a build that went through nothing on disk is older than its sources.
THEOREM BuildIsWhole == Spec => []NoStaleAfterBuild
<1>1. IInv => NoStaleAfterBuild
  BY DEF IInv
<1> QED
  BY <1>1, InitInv, StepInv, PTL DEF Spec
=============================================================================
