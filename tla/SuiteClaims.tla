---------------------------- MODULE SuiteClaims -----------------------------
(***************************************************************************)
(* What the calls of the suites say about their thresholds and about the   *)
(* clauses that are only their second line of defence.                     *)
(***************************************************************************)
EXTENDS UnwindMachine

\* The clauses of dispatchRoots and of the exported function in the basic suite
\* are never entered: the clauses below them take every exception.
BasicBackstopUnused ==
  \A k \in 1 .. Len(stack) : stack[k].fn \notin {"dispatch_catch", "entry_catch"}

\* The clauses around runAllPrograms in the cfi and cfi_ext suites never run: one
\* that did would skip the rest of the round's programs, and the two spare rounds
\* would hide that from the programs_completed threshold.
RoundBackstopUnused == \A k \in 1 .. Len(stack) : stack[k].fn # "round_catch"

\* The guards destroyed in one round.
RoundWork == [run_unwind_cfi_suite |-> 170, run_unwind_cfi_ext_suite |-> 176]

\* The cleanup work of the cfi suite and of the extended suite does not depend on
\* what their seeds make them throw, nested scopes, catch ladder and rethrowing
\* epilogues included: each of the iterations + 2 rounds destroys the same number
\* of guards and completes ten programs.
RoundsAlike ==
  \A c \in 1 .. Len(reports) :
    LET r == reports[c]
    IN  /\ r.metrics.destructors = RoundWork[suite.entry] * (r.iterations + 2)
        /\ r.metrics.events["programs"] = 10 * (r.iterations + 2)

\* The thresholds of finishResult grow faster with the iterations than that work
\* does: a sound unwinder passes for one and two iterations and no more.
PassesUpToTwo ==
  \A c \in 1 .. Len(reports) :
    Sound(c) => (Rc(reports[c]) = 0 <=> reports[c].iterations <= 2)

\* The catch ladder of ExtRecursor has one rung in use: the exception thrown at
\* level 0 ends at level 1, so the rethrows of levels 4, 8, 12 and 16 and the
\* clause of program17 are compiled but never run.
LadderRungs ==
  \A k \in 1 .. Len(stack) :
    /\ stack[k].fn = "ladder_catch" => stack[k].args[1] = 1
    /\ stack[k].fn # "ladder_root_catch"

\* The workload of the stress suite does not grow evenly, since some VectorErrors
\* end an iteration early: a sound unwinder fails for three, four and five
\* iterations and passes for fewer and for more.
PassesButThreeToFive ==
  \A c \in 1 .. Len(reports) :
    Sound(c) => (Rc(reports[c]) = 0 <=> reports[c].iterations \notin 3 .. 5)

\* What the exception counters of the stress suite do say at the end of a call,
\* although runVirtualMatrix counts rethrows it then does not make: each throw was
\* caught, and each further catch is one of a counted rethrow.
EveryThrowCaught ==
  status = "idle" =>
    LET e == metrics.events
    IN  e["thrown"] <= e["caught"] /\ e["caught"] <= e["thrown"] + e["rethrows"]
=============================================================================
