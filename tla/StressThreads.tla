---------------------------- MODULE StressThreads ---------------------------
(***************************************************************************)
(* The threads of src/cfi_unwind_stress_cases.cpp: one call of             *)
(* run_unwind_stress_suite and the three workers of runThreadedStress,     *)
(* which share g_metrics under one mutex.  What a worker computes in a     *)
(* round is abstracted to a number of captures and then countThreadRound;  *)
(* the other counters follow the same protocol.  StressSuite has the       *)
(* bodies.                                                                 *)
(***************************************************************************)
EXTENDS Integers

CONSTANTS
  IterationArgs,   \* values a caller passes as iterations
  Depths,          \* depths a walk may have
  CapturesPerRound \* captures a worker makes in one round

ASSUME ThreadsAssumption ==
  /\ IterationArgs \subseteq Int
  /\ Depths \subseteq Nat
  /\ CapturesPerRound \in Nat

Workers == {"t0", "t1", "t2"}
Threads == Workers \cup {"caller"}

\* The order in which runThreadedStress constructs and joins them.
After(w) == CASE w = "t0" -> "t1" [] w = "t1" -> "t2" [] w = "t2" -> "none"

VARIABLES
  iterations, \* the argument after the clamp
  caller,     \* where the call is
  turn,       \* the worker runThreadedStress starts or joins next
  at,         \* where each worker is
  lock,       \* owner of g_metrics.lock, or "free"
  reg,        \* the counter value a worker has read and not yet written
  walk,       \* depth of the walk a worker is recording
  left,       \* captures a worker has yet to make in this round
  rounds,     \* rounds a worker has yet to finish
  metrics,    \* g_metrics
  captured, shallowed, completed, \* what each thread has recorded (history)
  report      \* what finishResult read

callVars == << iterations, caller, turn, report >>
workVars == << at, reg, walk, left, rounds >>
vars == << callVars, workVars, lock, metrics, captured, shallowed, completed >>

None == [t \in Threads |-> 0]
Fresh == [captures |-> 0, minDepth |-> 1000000, shallow |-> 0, rounds |-> 0]

Min2(a, b) == IF a < b THEN a ELSE b
Max2(a, b) == IF a < b THEN b ELSE a

\* thread_iterations
ThreadIterations == Max2(1, iterations \div 2)

Init ==
  /\ iterations \in { Max2(1, i) : i \in IterationArgs }
  /\ caller = "reset"
  /\ turn = "none"
  /\ at = [w \in Workers |-> "unstarted"]
  /\ lock = "free"
  /\ reg = [w \in Workers |-> 0]
  /\ walk = [w \in Workers |-> 0]
  /\ left = [w \in Workers |-> 0]
  /\ rounds = [w \in Workers |-> 0]
  /\ metrics = Fresh
  /\ captured = None /\ shallowed = None /\ completed = None
  /\ report = Fresh

(* ------------------------------ the caller ---------------------------- *)

Reset ==
  /\ caller = "reset"
  /\ lock = "free"
  /\ metrics' = Fresh
  /\ caller' = "body"
  /\ UNCHANGED << iterations, turn, report, workVars, lock, captured, shallowed, completed >>

\* captureStressUnwind while no worker runs.
CallerCaptures(depth) ==
  /\ metrics' = [metrics EXCEPT !.captures = @ + 1, !.minDepth = Min2(@, depth),
                                !.shallow = IF depth < 5 THEN @ + 1 ELSE @]
  /\ captured' = [captured EXCEPT !["caller"] = @ + 1]
  /\ shallowed' = IF depth < 5 THEN [shallowed EXCEPT !["caller"] = @ + 1] ELSE shallowed
  /\ UNCHANGED completed

\* The caller's own part of runLongStressBody, for which one capture stands.
RunBody ==
  /\ caller = "body"
  /\ lock = "free"
  /\ \E depth \in Depths : CallerCaptures(depth)
  /\ caller' = "start"
  /\ turn' = "t0"
  /\ UNCHANGED << iterations, report, workVars, lock >>

\* A std::thread constructor returns.
StartThread ==
  /\ caller = "start"
  /\ at' = [at EXCEPT ![turn] = "running"]
  /\ left' = [left EXCEPT ![turn] = CapturesPerRound]
  /\ rounds' = [rounds EXCEPT ![turn] = ThreadIterations]
  /\ IF After(turn) = "none"
     THEN caller' = "join" /\ turn' = "t0"
     ELSE turn' = After(turn) /\ UNCHANGED caller
  /\ UNCHANGED << iterations, report, reg, walk, lock, metrics, captured, shallowed, completed >>

\* Mutant of StartThreadFails: the exception reaches catch (...) over running threads.
StartThreadFailsOpen ==
  /\ caller = "start"
  /\ caller' = "catch"
  /\ UNCHANGED << iterations, turn, report, workVars, lock, metrics, captured, shallowed, completed >>

\* A std::thread constructor throws.  Leaving runThreadedStress destroys the
\* threads started before, which are joinable: std::terminate.
StartThreadFails ==
  /\ caller = "start"
  /\ caller' = IF turn = "t0" THEN "catch" ELSE "terminated"
  /\ UNCHANGED << iterations, turn, report, workVars, lock, metrics, captured, shallowed, completed >>

\* catch (...) of the exported function.
CatchFailure ==
  /\ caller = "catch"
  /\ lock = "free"
  /\ \E depth \in Depths : CallerCaptures(depth)
  /\ caller' = "finish"
  /\ UNCHANGED << iterations, turn, report, workVars, lock >>

\* Mutant of JoinThread: t2 is joined before it is waited for.
JoinThreadEarly ==
  /\ caller = "join"
  /\ turn = "t2" \/ at[turn] = "done"
  /\ IF After(turn) = "none"
     THEN caller' = "finish" /\ turn' = "none"
     ELSE turn' = After(turn) /\ UNCHANGED caller
  /\ UNCHANGED << iterations, report, workVars, lock, metrics, captured, shallowed, completed >>

JoinThread ==
  /\ caller = "join"
  /\ at[turn] = "done"
  /\ IF After(turn) = "none"
     THEN caller' = "finish" /\ turn' = "none"
     ELSE turn' = After(turn) /\ UNCHANGED caller
  /\ UNCHANGED << iterations, report, workVars, lock, metrics, captured, shallowed, completed >>

\* finishResult copies the counters in one critical section.
FinishResult ==
  /\ caller = "finish"
  /\ lock = "free"
  /\ report' = metrics
  /\ caller' = "returned"
  /\ UNCHANGED << iterations, turn, workVars, lock, metrics, captured, shallowed, completed >>

(* ------------------------------ a worker ------------------------------ *)

Alive == caller # "terminated"
Capturing(w) == left[w] > 0

\* Mutant of LockMetrics: the lock_guard is missing.
LockMetricsNot(w) ==
  /\ Alive
  /\ at[w] = "running"
  /\ rounds[w] > 0
  /\ lock' = w
  /\ at' = [at EXCEPT ![w] = "load"]
  /\ IF Capturing(w) THEN \E depth \in Depths : walk' = [walk EXCEPT ![w] = depth]
     ELSE UNCHANGED walk
  /\ UNCHANGED << callVars, reg, left, rounds, metrics, captured, shallowed, completed >>

\* captureStressUnwind has walked the stack, or countThreadRound was called; the
\* lock_guard acquires the mutex.
LockMetrics(w) ==
  /\ Alive
  /\ at[w] = "running"
  /\ rounds[w] > 0
  /\ lock = "free"
  /\ lock' = w
  /\ at' = [at EXCEPT ![w] = "load"]
  /\ IF Capturing(w) THEN \E depth \in Depths : walk' = [walk EXCEPT ![w] = depth]
     ELSE UNCHANGED walk
  /\ UNCHANGED << callVars, reg, left, rounds, metrics, captured, shallowed, completed >>

\* ++ of captures or thread_rounds: a read and then a write.
LoadCounter(w) ==
  /\ Alive
  /\ at[w] = "load"
  /\ reg' = [reg EXCEPT ![w] = IF Capturing(w) THEN metrics.captures ELSE metrics.rounds]
  /\ at' = [at EXCEPT ![w] = "store"]
  /\ UNCHANGED << callVars, walk, left, rounds, lock, metrics, captured, shallowed, completed >>

StoreCapture(w) ==
  /\ Alive
  /\ at[w] = "store"
  /\ Capturing(w)
  /\ metrics' = [metrics EXCEPT !.captures = reg[w] + 1]
  /\ captured' = [captured EXCEPT ![w] = @ + 1]
  /\ at' = [at EXCEPT ![w] = "depth"]
  /\ UNCHANGED << callVars, reg, walk, left, rounds, lock, shallowed, completed >>

StoreRound(w) ==
  /\ Alive
  /\ at[w] = "store"
  /\ ~Capturing(w)
  /\ metrics' = [metrics EXCEPT !.rounds = reg[w] + 1]
  /\ completed' = [completed EXCEPT ![w] = @ + 1]
  /\ at' = [at EXCEPT ![w] = "unlock"]
  /\ UNCHANGED << callVars, reg, walk, left, rounds, lock, captured, shallowed >>

KeepMinDepth(w) ==
  /\ Alive
  /\ at[w] = "depth"
  /\ metrics' = [metrics EXCEPT !.minDepth = Min2(@, walk[w])]
  /\ at' = [at EXCEPT ![w] = "shallow"]
  /\ UNCHANGED << callVars, reg, walk, left, rounds, lock, captured, shallowed, completed >>

CountShallow(w) ==
  /\ Alive
  /\ at[w] = "shallow"
  /\ IF walk[w] < 5
     THEN /\ metrics' = [metrics EXCEPT !.shallow = @ + 1]
          /\ shallowed' = [shallowed EXCEPT ![w] = @ + 1]
     ELSE UNCHANGED << metrics, shallowed >>
  /\ at' = [at EXCEPT ![w] = "unlock"]
  /\ UNCHANGED << callVars, reg, walk, left, rounds, lock, captured, completed >>

\* Mutant of UnlockMetrics: after a capture the mutex stays locked.
UnlockMetricsOnce(w) ==
  /\ Alive
  /\ at[w] = "unlock"
  /\ lock' = IF Capturing(w) THEN lock ELSE "free"
  /\ at' = [at EXCEPT ![w] = "running"]
  /\ IF Capturing(w)
     THEN left' = [left EXCEPT ![w] = @ - 1] /\ UNCHANGED rounds
     ELSE /\ left' = [left EXCEPT ![w] = CapturesPerRound]
          /\ rounds' = [rounds EXCEPT ![w] = @ - 1]
  /\ UNCHANGED << callVars, reg, walk, metrics, captured, shallowed, completed >>

\* The lock_guard's destructor; the worker goes on with its round or the next.
UnlockMetrics(w) ==
  /\ Alive
  /\ at[w] = "unlock"
  /\ lock' = "free"
  /\ at' = [at EXCEPT ![w] = "running"]
  /\ IF Capturing(w)
     THEN left' = [left EXCEPT ![w] = @ - 1] /\ UNCHANGED rounds
     ELSE /\ left' = [left EXCEPT ![w] = CapturesPerRound]
          /\ rounds' = [rounds EXCEPT ![w] = @ - 1]
  /\ UNCHANGED << callVars, reg, walk, metrics, captured, shallowed, completed >>

\* threadWorker returns.
EndWorker(w) ==
  /\ Alive
  /\ at[w] = "running"
  /\ rounds[w] = 0
  /\ at' = [at EXCEPT ![w] = "done"]
  /\ UNCHANGED << callVars, reg, walk, left, rounds, lock, metrics, captured, shallowed, completed >>

(* ---------------------------------------------------------------------- *)

Caller == \/ Reset \/ RunBody \/ StartThread \/ StartThreadFails \/ CatchFailure
          \/ JoinThread \/ FinishResult

Worker(w) == \/ LockMetrics(w) \/ LoadCounter(w) \/ StoreCapture(w) \/ StoreRound(w)
             \/ KeepMinDepth(w) \/ CountShallow(w) \/ UnlockMetrics(w) \/ EndWorker(w)

Next == Caller \/ \E w \in Workers : Worker(w)

\* The operating system runs every thread that is not blocked.  Weak fairness of
\* the lock is enough: the others need it a bounded number of times.
Spec == /\ Init /\ [][Next]_vars
        /\ WF_vars(Caller)
        /\ \A w \in Workers : WF_vars(Worker(w))

(* ----------------------------- Properties ----------------------------- *)

Total(recorded) == recorded["caller"] + recorded["t0"] + recorded["t1"] + recorded["t2"]

\* Every variable stays in its domain.
TypeOK ==
  /\ iterations \in Nat \ {0}
  /\ caller \in {"reset", "body", "start", "catch", "join", "finish", "returned", "terminated"}
  /\ turn \in Workers \cup {"none"}
  /\ at \in [Workers -> {"unstarted", "running", "load", "store", "depth", "shallow",
                         "unlock", "done"}]
  /\ lock \in Workers \cup {"free"}
  /\ reg \in [Workers -> Nat] /\ walk \in [Workers -> Nat]
  /\ left \in [Workers -> Nat] /\ rounds \in [Workers -> Nat]
  /\ metrics \in [captures : Nat, minDepth : Nat, shallow : Nat, rounds : Nat]
  /\ captured \in [Threads -> Nat] /\ shallowed \in [Threads -> Nat]
  /\ completed \in [Threads -> Nat]
  /\ report \in [captures : Nat, minDepth : Nat, shallow : Nat, rounds : Nat]

\* No counter update is lost however the workers interleave, and outside the
\* critical sections of captureStressUnwind the two measures of shallow walks
\* agree, although they are written one after the other.
NoUpdateLost ==
  /\ metrics.captures = Total(captured)
  /\ metrics.shallow = Total(shallowed)
  /\ metrics.rounds = Total(completed)
  /\ lock = "free" => (metrics.minDepth < 5 <=> metrics.shallow > 0)

\* When all threads could be started, finishResult reports everything all of them
\* did, and the rounds of three workers that halve the iterations still meet its
\* threshold of one round per iteration.
ReportComplete ==
  caller = "returned" /\ (\A w \in Workers : at[w] # "unstarted") =>
    /\ report = metrics
    /\ report.rounds = 3 * ThreadIterations
    /\ report.rounds >= iterations
    /\ report.minDepth < 5 <=> report.shallow > 0

\* The call never returns over a running worker, which would still be using its
\* local result; and when the threads could not be started its verdict is not 0,
\* since it reports fewer rounds than iterations.
NoWorkerOutlivesCall ==
  caller = "returned" =>
    \/ \A w \in Workers : at[w] = "done"
    \/ (\A w \in Workers : at[w] = "unstarted") /\ report.rounds < iterations

\* What a capture that has bumped the counter is still going to write.
Pending(m, w) ==
  [m EXCEPT !.minDepth = IF at[w] = "depth" THEN Min2(@, walk[w]) ELSE @,
            !.shallow = IF at[w] \in {"depth", "shallow"} /\ walk[w] < 5 THEN @ + 1 ELSE @]

Board == INSTANCE TallyBoard WITH
  board <- IF lock = "free" THEN metrics ELSE Pending(metrics, lock),
  open <- caller \notin {"returned", "terminated"}

\* To whoever reads the result, the workers' reads and writes look like captures and
\* rounds recorded in one step each, and none comes after the result was read.
ImplementsBoard == Board!Spec

\* The call ends: no thread waits for ever for the mutex or for another thread.
CallEnds == <>(caller \in {"returned", "terminated"})
=============================================================================
