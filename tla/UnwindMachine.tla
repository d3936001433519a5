--------------------------- MODULE UnwindMachine ----------------------------
(***************************************************************************)
(* One exported suite, called again and again in one process, executed     *)
(* statement by statement: call frames and try blocks, RAII guards whose   *)
(* destructors run on return and while an exception unwinds the stack,     *)
(* _Unwind_Backtrace captures, and the metrics the suite reports at the    *)
(* end.  The programs are parameters: Body gives the statements of a       *)
(* function or block, Catches what a scope does with an exception that     *)
(* reaches it, Verdict the return code of finishResult, each for the suite *)
(* that exports entry.                                                     *)
(***************************************************************************)
EXTENDS UnwindCode

CONSTANTS
  Body(_, _, _, _),    \* Body(entry, fn, args, exc): statements; exc is what a clause caught
  Catches(_, _, _),    \* Catches(entry, fn, type): the clause of try block fn that takes it,
                       \* "none" where it passes, "terminate" where none may pass
  Verdict(_, _, _, _), \* Verdict(entry, metrics, iterations, strict): rc of finishResult
  Suites,              \* the suites considered, see Scenarios
  Events,              \* the counters the suites' own statements increment
  Strict,              \* UNWIND_SUITE_STRICT_DSO_FRAMES
  BaseFrames           \* frames below the exported function: the driver and libc

(***************************************************************************)
(* An unwind runtime under test.  The walk of capture number at in call    *)
(* number call stops after reach frames (at = 0: every walk is complete);  *)
(* named says whether dladdr maps an address of the suite to its library.  *)
(***************************************************************************)
Walkers == [call : Nat, at : Nat, reach : Nat, named : BOOLEAN]

(***************************************************************************)
(* A suite and its surroundings: the exported function entry, its          *)
(* kMaxTraceFrames, the values callers pass as iterations, the runtimes it *)
(* may run on, and a bound on the calls made in one process.               *)
(***************************************************************************)
Scenarios == [entry : STRING, frames : Nat \ {0}, iterations : SUBSET Int,
              unwinders : SUBSET Walkers, calls : Nat]

ASSUME MachineAssumption ==
  /\ Suites \subseteq Scenarios
  /\ Strict \in BOOLEAN
  /\ BaseFrames \in Nat

VARIABLES
  status,     \* "idle", "running", "unwinding" or "terminated"
  stack,      \* open functions and blocks, innermost last
  live,       \* guards constructed and not yet destroyed
  built,      \* guards constructed by this call (history)
  flying,     \* the exception being propagated
  metrics,    \* g_metrics
  iterations, \* the iterations of this call, after the clamp
  suite,      \* the suite that is called
  unwinder,   \* the runtime under test
  reports     \* what each finished call reported, in order

vars == << status, stack, live, built, flying, metrics, iterations, suite, unwinder, reports >>

(***************************************************************************)
(* A scope on the stack.  mark is the number of live guards when it was    *)
(* entered, so those above mark are its own; depth counts the functions,   *)
(* not the blocks, open up to here.                                        *)
(***************************************************************************)
Frames == [fn : STRING, args : Seq(Int), exc : MaybeException,
           pc : Nat \ {0}, mark : Nat, depth : Nat]

Scope(fn, args, exc, depth) ==
  [fn |-> fn, args |-> args, exc |-> exc, pc |-> 1, mark |-> live, depth |-> depth]

Metrics == [captures : Nat, minDepth : Nat, shallow : Nat, own : Nat,
            destructors : Nat, events : [Events -> Nat]]

FreshMetrics ==
  [captures |-> 0, minDepth |-> 1000000, shallow |-> 0, own |-> 0,
   destructors |-> 0, events |-> [e \in Events |-> 0]]

\* Mutants of ResetMetrics: it does nothing, or it misses the suite's own counters.
NoReset(left) == left
PartialReset(left) == [FreshMetrics EXCEPT !.events = left.events]

\* resetMetrics: what a call starts from, given what the last one left in g_metrics.
ResetMetrics(left) == FreshMetrics

(* ----------------------------- Captures ------------------------------- *)

Min2(a, b) == IF a < b THEN a ELSE b

\* Frames _Unwind_Backtrace reports in the next capture, from captureUnwind down.
WalkDepth(depth) ==
  LET whole == BaseFrames + depth + 1
      hit   == unwinder.call = Len(reports) + 1 /\ unwinder.at = metrics.captures + 1
  IN  Min2(suite.frames, IF hit THEN Min2(whole, unwinder.reach) ELSE whole)

\* Mutant of Captured: the shallow counter uses another boundary than the verdict.
CapturedOffByOne(m, depth) ==
  LET d == WalkDepth(depth)
  IN  [m EXCEPT !.captures = @ + 1,
                !.minDepth = Min2(@, d),
                !.shallow  = IF d < 4 THEN @ + 1 ELSE @,
                !.own      = IF d > 0 /\ unwinder.named THEN @ + 1 ELSE @]

\* captureUnwind, called with depth functions open.
Captured(m, depth) ==
  LET d == WalkDepth(depth)
  IN  [m EXCEPT !.captures = @ + 1,
                !.minDepth = Min2(@, d),
                !.shallow  = IF d < 5 THEN @ + 1 ELSE @,
                !.own      = IF d > 0 /\ unwinder.named THEN @ + 1 ELSE @]

(* ------------------------------- Steps -------------------------------- *)

Top == stack[Len(stack)]
Below == SubSeq(stack, 1, Len(stack) - 1)
Statements == Body(suite.entry, Top.fn, Top.args, Top.exc)
AtEnd == Top.pc > Len(Statements)
Advanced == [stack EXCEPT ![Len(stack)].pc = @ + 1]

\* The statement to execute, when the innermost scope has one left.
Executes(op) ==
  /\ status = "running"
  /\ ~AtEnd
  /\ Statements[Top.pc] \in Instructions
  /\ Statements[Top.pc].op = op

\* What scope f does with an exception: its clause, "none" or "terminate".
ClauseFor(f, exc) == Catches(suite.entry, f.fn, exc.type)

Init ==
  /\ status = "idle"
  /\ stack = << >>
  /\ live = 0
  /\ built = 0
  /\ flying = NoException
  /\ metrics = FreshMetrics
  /\ iterations = 0
  /\ suite \in Suites
  /\ unwinder \in suite.unwinders
  /\ reports = << >>

\* The caller enters the exported function.
BeginCall ==
  /\ status = "idle"
  /\ Len(reports) < suite.calls
  /\ \E i \in suite.iterations :
       LET n == IF i <= 0 THEN 1 ELSE i
       IN  /\ iterations' = n
           /\ stack' = << Scope(suite.entry, << n >>, NoException, 1) >>
  /\ status' = "running"
  /\ metrics' = ResetMetrics(metrics)
  /\ built' = 0
  /\ UNCHANGED << live, flying, suite, unwinder, reports >>

ConstructGuard ==
  /\ Executes("guard")
  /\ live' = live + 1
  /\ built' = built + 1
  /\ stack' = Advanced
  /\ UNCHANGED << status, flying, metrics, iterations, suite, unwinder, reports >>

CaptureTrace ==
  /\ Executes("capture")
  /\ metrics' = Captured(metrics, Top.depth)
  /\ stack' = Advanced
  /\ UNCHANGED << status, live, built, flying, iterations, suite, unwinder, reports >>

CountEvent ==
  /\ Executes("count")
  /\ metrics' = [metrics EXCEPT !.events[Statements[Top.pc].event] = @ + 1]
  /\ stack' = Advanced
  /\ UNCHANGED << status, live, built, flying, iterations, suite, unwinder, reports >>

CallFunction ==
  /\ Executes("call")
  /\ stack' = Append(Advanced, Scope(Statements[Top.pc].fn, Statements[Top.pc].args,
                                     NoException, Top.depth + 1))
  /\ UNCHANGED << status, live, built, flying, metrics, iterations, suite, unwinder, reports >>

EnterTry ==
  /\ Executes("try")
  /\ stack' = Append(Advanced, Scope(Statements[Top.pc].fn, Statements[Top.pc].args,
                                     NoException, Top.depth))
  /\ UNCHANGED << status, live, built, flying, metrics, iterations, suite, unwinder, reports >>

\* Search phase of _Unwind_RaiseException, from the innermost scope outwards: a
\* clause takes the exception, and every scope above that one lets it pass.
Handled(exc) ==
  \E k \in 1 .. Len(stack) :
    /\ ClauseFor(stack[k], exc) \notin {"none", "terminate"}
    /\ \A j \in k + 1 .. Len(stack) : ClauseFor(stack[j], exc) = "none"

\* An exception that is not handled ends the process in std::terminate, before
\* any cleanup.
Propagate(exc) ==
  /\ flying' = exc
  /\ status' = IF Handled(exc) THEN "unwinding" ELSE "terminated"
  /\ UNCHANGED << stack, live, built, metrics, iterations, suite, unwinder, reports >>

Throw ==
  /\ Executes("throw")
  /\ Propagate(Statements[Top.pc].exc)

Rethrow ==
  /\ Executes("rethrow")
  /\ Propagate(Top.exc)

\* Mutant of DestroyGuard: a scope destroys one guard too many.
DestroyGuardTwice ==
  /\ \/ status = "running" /\ AtEnd
     \/ status = "unwinding"
  /\ live >= Top.mark
  /\ live' = live - 1
  /\ metrics' = Captured([metrics EXCEPT !.destructors = @ + 1], Top.depth)
  /\ UNCHANGED << status, stack, built, flying, iterations, suite, unwinder, reports >>

\* A guard's destructor: the scope ends, normally or because an exception
\* leaves it.
DestroyGuard ==
  /\ \/ status = "running" /\ AtEnd
     \/ status = "unwinding"
  /\ live > Top.mark
  /\ live' = live - 1
  /\ metrics' = Captured([metrics EXCEPT !.destructors = @ + 1], Top.depth)
  /\ UNCHANGED << status, stack, built, flying, iterations, suite, unwinder, reports >>

\* The innermost scope has destroyed its guards.
Clean == live = Top.mark

Leave ==
  /\ status = "running"
  /\ AtEnd
  /\ Clean
  /\ Len(stack) > 1
  /\ stack' = Below
  /\ UNCHANGED << status, live, built, flying, metrics, iterations, suite, unwinder, reports >>

\* Mutant of UnwindScope: a frame without a landing pad drops its guards.
UnwindScopeNoCleanup ==
  /\ status = "unwinding"
  /\ ClauseFor(Top, flying) = "none"
  /\ stack' = Below
  /\ live' = Top.mark
  /\ UNCHANGED << status, built, flying, metrics, iterations, suite, unwinder, reports >>

\* Cleanup phase: an exception passes through a scope that does not take it.
UnwindScope ==
  /\ status = "unwinding"
  /\ Clean
  /\ ClauseFor(Top, flying) = "none"
  /\ stack' = Below
  /\ UNCHANGED << status, live, built, flying, metrics, iterations, suite, unwinder, reports >>

\* The catch clause replaces its try block and keeps the exception for throw;.
EnterHandler ==
  /\ status = "unwinding"
  /\ Clean
  /\ ClauseFor(Top, flying) \in STRING \ {"none", "terminate"}
  /\ stack' = Append(Below, Scope(ClauseFor(Top, flying), Top.args, flying, Top.depth))
  /\ flying' = NoException
  /\ status' = "running"
  /\ UNCHANGED << live, built, metrics, iterations, suite, unwinder, reports >>

\* finishResult, and the exported function returns.
FinishCall ==
  /\ status = "running"
  /\ AtEnd
  /\ Clean
  /\ Len(stack) = 1
  /\ reports' = Append(reports, [iterations |-> iterations, metrics |-> metrics])
  /\ status' = "idle"
  /\ stack' = << >>
  /\ UNCHANGED << live, built, flying, metrics, iterations, suite, unwinder >>

Statement == \/ ConstructGuard \/ CaptureTrace \/ CountEvent \/ CallFunction
             \/ EnterTry \/ Throw \/ Rethrow
ScopeExit == DestroyGuard \/ Leave \/ UnwindScope \/ EnterHandler \/ FinishCall

Next == BeginCall \/ Statement \/ ScopeExit

\* The thread that runs a suite is scheduled until the call returns; nothing
\* obliges a caller to call again.
Spec == Init /\ [][Next]_vars /\ WF_vars(Statement \/ ScopeExit)

(* ----------------------------- Properties ----------------------------- *)

\* Every variable stays in its domain.
TypeOK ==
  /\ status \in {"idle", "running", "unwinding", "terminated"}
  /\ stack \in Seq(Frames)
  /\ live \in Nat
  /\ built \in Nat
  /\ flying \in MaybeException
  /\ metrics \in Metrics
  /\ iterations \in Nat
  /\ suite \in Suites
  /\ unwinder \in suite.unwinders
  /\ reports \in Seq([iterations : Nat, metrics : Metrics])

\* RAII across unwinding: at any moment every guard ever constructed is either
\* still alive or was destroyed exactly once, and a call that has returned has
\* left none behind, whichever mixture of returns, throws and rethrows it took
\* (~FrameGuard counts destructors).
GuardsBalanced ==
  /\ built = metrics.destructors + live
  /\ status = "idle" => live = 0

\* The two ways finishResult looks at trace depth agree: the minimum is below 5
\* exactly when some trace was counted shallow (captureUnwind keeps both).
ShallowAgrees == (metrics.minDepth < 5) <=> (metrics.shallow > 0)

\* Exception bookkeeping: whenever an exception is in flight, every earlier
\* throw and rethrow has been counted and counted as caught, and the one in
\* flight has been counted as raised; when a call returns nothing is pending.
ExceptionsAccounted ==
  LET e == metrics.events
      pending == e["thrown"] + e["rethrows"] - e["caught"]
  IN  /\ status = "unwinding" => pending = 1
      /\ status = "idle" => pending = 0

Rc(r) == Verdict(suite.entry, r.metrics, r.iterations, Strict)

\* Whether call number c ran on an unwinder that behaved throughout.
Sound(c) ==
  /\ Strict => unwinder.named
  /\ ~(unwinder.call = c /\ unwinder.at \in 1 .. reports[c].metrics.captures
       /\ unwinder.reach < 5)

\* A suite reports success on a sound unwinder: README, "report success for
\* every exported suite".  A trace broken in one call does not fail the next.
NoFalseAlarm == \A c \in 1 .. Len(reports) : Sound(c) => Rc(reports[c]) = 0

\* One shallow trace among hundreds, or a library dladdr never names, is enough
\* for the call it happened in to report failure.
NoFalsePass == \A c \in 1 .. Len(reports) : ~Sound(c) => Rc(reports[c]) # 0

\* Two calls with the same iterations in one process do the same work: nothing
\* a call leaves in the library's globals changes what the next one counts.
Repeatable ==
  \A c, d \in 1 .. Len(reports) :
    reports[c].iterations = reports[d].iterations =>
      /\ reports[c].metrics.captures = reports[d].metrics.captures
      /\ reports[c].metrics.destructors = reports[d].metrics.destructors
      /\ reports[c].metrics.events = reports[d].metrics.events

\* Every call of the exported function returns to its caller: no exception ends
\* in std::terminate, for want of a clause or at the end of a worker thread, and
\* no scope is left stuck.
CallReturns == (status = "running") ~> (status = "idle")
=============================================================================
