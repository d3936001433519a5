---------------------------- MODULE StressSuite -----------------------------
(***************************************************************************)
(* src/cfi_unwind_stress_cases.cpp as a program for UnwindMachine.  The    *)
(* three workers of runThreadedStress are three calls here, one after the  *)
(* other: StressThreads shows that the counters they leave do not depend   *)
(* on how they interleave.  What leaves a worker ends the process, as it   *)
(* does at the bottom of a std::thread.                                    *)
(***************************************************************************)
EXTENDS UnwindCode, SuiteVerdicts

StressEntry == "run_unwind_stress_suite"
StressEvents == {"thrown", "caught", "rethrows", "virtual_calls", "thread_rounds"}

VectorCase(id, n) ==
  << Guard, Capture >> \o
  (IF (n + id) % 17 = 3 THEN Raise("VectorError", n + id * 100 + 7) ELSE << Capture >>)

PointerCase(id, n) ==
  << Guard, Capture >> \o
  (IF (n + id) % 23 = 9 THEN Raise("PointerError", n + id * 300 + 11) ELSE << Capture >>)

Act(id, n) ==
  << Count("virtual_calls"), Guard, Capture, Call("vectorCase", << id, n + id * 5 >>) >> \o
  (IF (n + id) % 19 = 5 THEN Raise("VirtualError", n + id * 200 + 9) ELSE << Capture >>)

\* Mutants of MatrixVectorCatch: the catch is not counted, or the error never goes on.
MatrixVectorCatchKeep(error) == Caught \o << Count("rethrows") >>
MatrixVectorCatchUncounted(error) ==
  << Capture, Count("rethrows") >> \o
  (IF error.code % 2 # 0 THEN << [op |-> "rethrow"] >> ELSE << >>)

\* The rethrow is counted before it is decided.
MatrixVectorCatch(error) ==
  Caught \o << Count("rethrows") >> \o
  (IF error.code % 2 # 0 THEN << [op |-> "rethrow"] >> ELSE << >>)

RunVectorTable(n) == Sweep("try", "vector_try", 24, n, 5)
RunVirtualMatrix(n) == Sweep("try", "matrix_try", 16, n, 1)
RunPointerTable(n) == Sweep("try", "pointer_try", 16, n, 7)

TemplateStepper(level) ==
  << Guard, Capture >> \o
  (IF level = 0 THEN << >> ELSE << Call("TemplateStepper", << level - 1 >>) >>)

TemplateTower == [k \in 1 .. 3 |-> Call("TemplateStepper", << 30 - 6 * k >>)]

Max2(a, b) == IF a < b THEN b ELSE a

\* Each round is a try block and countThreadRound.
ThreadWorker(worker, rounds) ==
  [k \in 1 .. 2 * rounds |->
     IF k % 2 = 1 THEN Try("worker_try", << worker, k \div 2 >>) ELSE Count("thread_rounds")]

WorkerTry(worker, i) ==
  << Guard, Call("runPointerTable", << worker * 100 + i * 17 >>), Call("runTemplateTower", << >>) >> \o
  (IF (worker + i) % 11 = 4 THEN Raise("ThreadError", worker * 5000 + i) ELSE << >>)

RunThreadedStress(count) ==
  [k \in 1 .. 3 |-> Call("threadWorker", << k - 1, Max2(1, count \div 2) >>)]

LongTry(i) ==
  << Guard, Call("runVectorTable", << i * 31 + 1 >>), Call("runVirtualMatrix", << i * 37 + 3 >>),
     Call("runPointerTable", << i * 41 + 5 >>), Call("runTemplateTower", << >>) >>

LongStressBody(count) ==
  [k \in 1 .. count |-> Try("long_try", << k - 1 >>)] \o << Call("runThreadedStress", << count >>) >>

StressBody(fn, args, exc) ==
  CASE fn = StressEntry         -> << Try("entry_try", args) >>
    [] fn = "entry_try"         -> << Call("runLongStressBody", args) >>
    [] fn = "runLongStressBody" -> LongStressBody(args[1])
    [] fn = "long_try"          -> LongTry(args[1])
    [] fn = "runVectorTable"    -> RunVectorTable(args[1])
    [] fn = "vector_try"        -> << Call("vectorCase", args) >>
    [] fn = "vectorCase"        -> VectorCase(args[1], args[2])
    [] fn = "runVirtualMatrix"  -> RunVirtualMatrix(args[1])
    [] fn = "matrix_try"        -> << Call("act", args) >>
    [] fn = "act"               -> Act(args[1], args[2])
    [] fn = "matrix_catch"      -> MatrixVectorCatch(exc)
    [] fn = "runPointerTable"   -> RunPointerTable(args[1])
    [] fn = "pointer_try"       -> << Call("pointerCase", args) >>
    [] fn = "pointerCase"       -> PointerCase(args[1], args[2])
    [] fn = "runTemplateTower"  -> TemplateTower
    [] fn = "TemplateStepper"   -> TemplateStepper(args[1])
    [] fn = "runThreadedStress" -> RunThreadedStress(args[1])
    [] fn = "threadWorker"      -> ThreadWorker(args[1], args[2])
    [] fn = "worker_try"        -> WorkerTry(args[1], args[2])
    [] OTHER                    -> Caught

\* Mutant of StressCatches: the clause in threadWorker expects the errors of the
\* pointer table it runs and not the ThreadError of its own.
StressCatchesNarrow(fn, type) ==
  CASE fn = "vector_try" /\ type = "VectorError"    -> "vector_catch"
    [] fn = "matrix_try" /\ type = "VectorError"    -> "matrix_catch"
    [] fn = "matrix_try" /\ type = "VirtualError"   -> "virtual_catch"
    [] fn = "pointer_try" /\ type = "PointerError"  -> "pointer_catch"
    [] fn = "worker_try" /\ type = "PointerError"   -> "error_catch"
    [] fn = "long_try"                              -> "error_catch"
    [] fn = "entry_try"                             -> "entry_catch"
    [] fn = "threadWorker"                          -> "terminate"
    [] OTHER                                        -> "none"

\* The catch clauses; those of long_try, worker_try and entry_try take every error.
\* threadWorker is what a std::thread runs: no exception may leave it.
StressCatches(fn, type) ==
  CASE fn = "vector_try" /\ type = "VectorError"    -> "vector_catch"
    [] fn = "matrix_try" /\ type = "VectorError"    -> "matrix_catch"
    [] fn = "matrix_try" /\ type = "VirtualError"   -> "virtual_catch"
    [] fn = "pointer_try" /\ type = "PointerError"  -> "pointer_catch"
    [] fn \in {"long_try", "worker_try"}            -> "error_catch"
    [] fn = "entry_try"                             -> "entry_catch"
    [] fn = "threadWorker"                          -> "terminate"
    [] OTHER                                        -> "none"
=============================================================================
