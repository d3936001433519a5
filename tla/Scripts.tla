------------------------------ MODULE Scripts -------------------------------
(***************************************************************************)
(* scripts/unwind_testsuite.py and the host scripts: commands run one at a *)
(* time over one output directory, between and during edits of the         *)
(* sources.  An artifact on disk is the version of the sources it was      *)
(* compiled from.  What the compiler, QEMU with the driver and the         *)
(* binutils return is nondeterministic.                                    *)
(***************************************************************************)
EXTENDS Integers, Sequences

CONSTANTS
  MaxVersion, \* bound on the edits of the sources
  DriverCodes \* what running the driver on a whole suite may return; < 0: a signal

ASSUME ScriptsAssumption ==
  /\ MaxVersion \in Nat \ {0}
  /\ DriverCodes \subseteq -64 .. 255

Artifacts == {"main", "plugin", "driver"}
Absent == 0
Truncated == -1
Usable(content) == content > 0

VARIABLES
  version, \* of the sources in the working tree
  disk,    \* what the output directory holds of each artifact
  call,    \* the command that runs or ran last
  step,    \* the number of the step it is at
  status,  \* "running", "idle" before the first command, or "exited"
  code,    \* its exit status
  asked,   \* version when it was started (history)
  tested,  \* what the last driver run had on disk (history)
  result,  \* what that run returned (history)
  complete \* version at the start of the last build that went through, or 0 (history)

history == << asked, tested, result, complete >>
vars == << version, disk, call, step, status, code, history >>

\* main's dispatch over the subcommands, and build.
Steps(command) ==
  CASE command = "build"   -> << "main", "plugin", "driver" >>
    [] command = "run"     -> << "run" >>
    [] command = "inspect" -> << "inspect_main", "inspect_plugin" >>
    [] command = "all"     ->
         << "main", "plugin", "driver", "run", "inspect_main", "inspect_plugin" >>

\* The host scripts have no inspect, all or dry run.
Calls ==
  [script : {"python"}, command : {"build", "run", "inspect", "all"}, dry : BOOLEAN]
  \cup [script : {"host"}, command : {"build", "run"}, dry : {FALSE}]

Init ==
  /\ version = 1
  /\ disk = [a \in Artifacts |-> Absent]
  /\ call \in Calls
  /\ step = 1
  /\ status = "idle"
  /\ code = 0
  /\ asked = 0
  /\ tested = disk
  /\ result = 0
  /\ complete = 0

Edit ==
  /\ version < MaxVersion
  /\ version' = version + 1
  /\ UNCHANGED << disk, call, step, status, code, history >>

Invoke ==
  /\ status # "running"
  /\ call' \in Calls
  /\ step' = 1
  /\ status' = "running"
  /\ asked' = version
  /\ UNCHANGED << version, disk, code, tested, result, complete >>

\* The exit status of a script whose step returned rc: SystemExit(rc) is cut to a
\* byte, and bash reports 128 + signal.
ExitStatus(rc) ==
  IF rc >= 0 THEN rc ELSE IF call.script = "python" THEN rc % 256 ELSE 128 - rc

StepsLeft == step <= Len(Steps(call.command))

Doing(name) == status = "running" /\ StepsLeft /\ Steps(call.command)[step] = name

\* Mutant of Leave: run_cmd does not check what its command returned.
LeaveUnchecked(rc) ==
  /\ step' = step + 1
  /\ UNCHANGED << status, code >>

\* run_cmd with check=True, or set -e: a step that fails ends the script.
Leave(rc) ==
  IF rc = 0 THEN step' = step + 1 /\ UNCHANGED << status, code >>
  ELSE status' = "exited" /\ code' = ExitStatus(rc) /\ UNCHANGED step

\* Mutant of Compile: an artifact that is there is not compiled again.
CompileMissing(a) ==
  /\ Doing(a)
  /\ Leave(0)
  /\ disk' = IF call.dry THEN disk ELSE [disk EXCEPT ![a] = IF Usable(@) THEN @ ELSE version]
  /\ complete' = IF a = "driver" /\ ~call.dry THEN asked ELSE 0
  /\ UNCHANGED << version, call, asked, tested, result >>

\* build_shared and build_driver, or one command of build_host.sh.  A compiler that
\* fails or is interrupted leaves the old file, none, or a part of the new one.
Compile(a) ==
  /\ Doing(a)
  /\ \/ /\ Leave(0)
        /\ disk' = IF call.dry THEN disk ELSE [disk EXCEPT ![a] = version]
        /\ complete' = IF call.dry THEN complete ELSE IF a = "driver" THEN asked ELSE 0
     \/ /\ ~call.dry
        /\ \E rc \in {1, -2} : Leave(rc)
        /\ \E left \in {disk[a], Absent, Truncated} : disk' = [disk EXCEPT ![a] = left]
        /\ complete' = 0
  /\ UNCHANGED << version, call, asked, tested, result >>

\* run_suite refuses to start without a driver, even for a dry run; run_host.sh gets
\* 127 from bash, or 1 from cd.
MissingDriver ==
  /\ Doing("run")
  /\ disk["driver"] = Absent
  /\ \E rc \in IF call.script = "python" THEN {1} ELSE {1, 127} : Leave(rc)
  /\ UNCHANGED << version, disk, call, history >>

\* The driver runs on whatever is on disk; it cannot pass without both libraries (10 and
\* 13 are its codes for them), and a driver cut short does not start (126 of bash).
RunDriver ==
  /\ Doing("run")
  /\ disk["driver"] # Absent
  /\ ~call.dry
  /\ \E rc \in IF \A a \in Artifacts : Usable(disk[a]) THEN DriverCodes ELSE {1, 10, 13, 126} :
       Leave(rc) /\ result' = rc
  /\ tested' = disk
  /\ UNCHANGED << version, disk, call, asked, complete >>

DryRun ==
  /\ Doing("run")
  /\ disk["driver"] # Absent
  /\ call.dry
  /\ Leave(0)
  /\ UNCHANGED << version, disk, call, history >>

\* inspect_one: a missing library is skipped, and a tool that fails ends the script
\* with an uncaught CalledProcessError.  inspect runs its tools in a dry run too.
Inspect(a, name) ==
  /\ Doing(name)
  /\ \/ Leave(0)
     \/ disk[a] # Absent /\ Leave(1)
  /\ UNCHANGED << version, disk, call, history >>

Succeed ==
  /\ status = "running"
  /\ ~StepsLeft
  /\ status' = "exited"
  /\ code' = 0
  /\ UNCHANGED << version, disk, call, step, history >>

Next ==
  \/ Edit \/ Invoke \/ MissingDriver \/ RunDriver \/ DryRun \/ Succeed
  \/ \E a \in Artifacts : Compile(a)
  \/ Inspect("main", "inspect_main") \/ Inspect("plugin", "inspect_plugin")

Spec == Init /\ [][Next]_vars

(* ----------------------------- Properties ----------------------------- *)

\* Exit status 0 of run or all means that the driver ran on three whole artifacts and
\* returned 0; and of all, that each of them was compiled after the command was
\* started, whatever was on disk before.
PassVouches ==
  status = "exited" /\ code = 0 /\ call.command \in {"run", "all"} /\ ~call.dry =>
    /\ result = 0
    /\ \A a \in Artifacts : Usable(tested[a])
    /\ call.command = "all" => \A a \in Artifacts : tested[a] >= asked

\* run uses whatever is on disk, which may mix the artifacts of several builds; but
\* not after a build that went through: until the next build starts to compile, the
\* directory holds nothing older than the sources that build started from.
NoStaleAfterBuild ==
  complete # 0 => \A a \in Artifacts : disk[a] >= complete
=============================================================================
