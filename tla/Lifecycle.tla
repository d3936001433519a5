----------------------------- MODULE Lifecycle ------------------------------
(***************************************************************************)
(* What a run of the driver promises (README, "Each test round performs    *)
(* this lifecycle"): a run passes only by completing the requested number  *)
(* of cycles, each of them the six steps in order, and a run that fails    *)
(* does nothing more than close what it has open.                          *)
(***************************************************************************)
EXTENDS Integers

CONSTANT Requests \* the options a run may be given

SuiteCount == 5

VARIABLES
  request, \* [rounds, plugin]: cycles asked for, and whether they use the plugin
  open,    \* libraries the run holds open
  done,    \* suites that passed in this cycle; SuiteCount + 1 with the plugin's
  cycles,  \* completed cycles
  outcome  \* "running", "passed", "failed", or "declined" without a cycle

lifecycleVars == << request, open, done, cycles, outcome >>

Init ==
  /\ request \in Requests
  /\ open = {}
  /\ done = 0
  /\ cycles = 0
  /\ outcome = "running"

LoadMain ==
  /\ open = {} /\ done = 0 /\ cycles < request.rounds
  /\ open' = {"main"}
  /\ UNCHANGED << request, done, cycles, outcome >>

PassSuite ==
  /\ open = {"main"} /\ done < SuiteCount
  /\ done' = done + 1
  /\ UNCHANGED << request, open, cycles, outcome >>

LoadPlugin ==
  /\ request.plugin /\ open = {"main"} /\ done = SuiteCount
  /\ open' = {"main", "plugin"}
  /\ UNCHANGED << request, done, cycles, outcome >>

PassPlugin ==
  /\ open = {"main", "plugin"} /\ done = SuiteCount
  /\ done' = done + 1
  /\ UNCHANGED << request, open, cycles, outcome >>

UnloadPlugin ==
  /\ open = {"main", "plugin"} /\ done = SuiteCount + 1
  /\ open' = {"main"}
  /\ UNCHANGED << request, done, cycles, outcome >>

UnloadMain ==
  /\ open = {"main"} /\ done = SuiteCount + (IF request.plugin THEN 1 ELSE 0)
  /\ open' = {}
  /\ done' = 0
  /\ cycles' = cycles + 1
  /\ UNCHANGED << request, outcome >>

Pass ==
  /\ open = {} /\ cycles = request.rounds
  /\ outcome' = "passed"
  /\ UNCHANGED << request, open, done, cycles >>

Fail ==
  /\ outcome' = "failed"
  /\ UNCHANGED << request, open, done, cycles >>

Decline ==
  /\ open = {} /\ done = 0 /\ cycles = 0
  /\ outcome' = "declined"
  /\ UNCHANGED << request, open, done, cycles >>

Innermost == IF "plugin" \in open THEN {"plugin"} ELSE {"main"}

\* Closing a library reports an error: it is given up and the run has failed.
FailToClose ==
  /\ open # {}
  /\ open' = open \ Innermost
  /\ outcome' = "failed"
  /\ UNCHANGED << request, done, cycles >>

\* A failed run closes its libraries, the plugin before the main one.
Release ==
  /\ outcome = "failed"
  /\ open # {}
  /\ open' = open \ Innermost
  /\ UNCHANGED << request, done, cycles, outcome >>

Next ==
  \/ /\ outcome = "running"
     /\ \/ LoadMain \/ PassSuite \/ LoadPlugin \/ PassPlugin
        \/ UnloadPlugin \/ UnloadMain \/ Pass \/ Fail \/ FailToClose \/ Decline
  \/ Release

Spec == Init /\ [][Next]_lifecycleVars
=============================================================================
